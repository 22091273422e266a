------------------------------ MODULE CliProofs ------------------------------
(***************************************************************************)
(* Proofs about Cli, for any set of runs, any command lines of any length  *)
(* and any int that has room for the defaults.                             *)
(*                                                                         *)
(* parse_args is followed by induction on the argument list, and what it   *)
(* leaves is compared with what the line means (FirstWord, FlagValue).     *)
(* RoutingProofs says where a path goes.  Of the invariant, ClientInv is   *)
(* proved first, step by step; then the answers (AnswerInv) and what was   *)
(* deployed (DeployedAsTyped), which rest on it.                           *)
(***************************************************************************)
EXTENDS Cli, FiniteSetTheorems, TLAPS

RP == INSTANCE RoutingProofs WITH Words <- {}, MaxSegments <- 0

-----------------------------------------------------------------------------
\* The parsers.

\* The product is an int again, also when it does not fit.
LEMMA TimesWraps ==
    ASSUME NEW n \in Int, NEW factor \in {1, 1000, 60000, 1024}
    PROVE  /\ Times(n, factor) \in Ints \cup {Null}
           /\ n # Null => Times(n, factor) \in Ints
BY CliAssumption DEF Ints, Times

\* std::stoi gives an int or throws.
LEMMA StoiInt ==
    ASSUME NEW arg
    PROVE  stoi(arg) \in Ints \cup {Null}
BY DEF stoi

\* Every setting but cpu is converted to an int, or the conversion throws.
LEMMA ConvertInt ==
    ASSUME NEW key \in Settings \ {"cpu"}, NEW arg
    PROVE  Convert(key, arg) \in Ints \cup {Null}
<1>. DEFINE n == stoi(arg)
<1>1. 5000 \in Ints /\ 60000 \in Ints /\ 256 \in Ints
  BY CliAssumption DEF Ints
<1>2. n \in Int \cup {Null}
  BY StoiInt, CliAssumption DEF Ints
<1>3. \A factor \in {1, 1000, 60000, 1024} : Times(n, factor) \in Ints \cup {Null}
  <2>. HIDE DEF n
  <2>1. CASE n = Null
    BY <2>1 DEF Times
  <2>. QED
    BY <1>2, <2>1, TimesWraps
<1>. HIDE DEF n
<1>4. /\ parse_duration_ms(arg, 5000) \in Ints \cup {Null}
      /\ parse_duration_ms(arg, 60000) \in Ints \cup {Null}
      /\ parse_memory_mb(arg, 256) \in Ints \cup {Null}
  BY <1>1, <1>3 DEF parse_duration_ms, parse_memory_mb, n
<1>5. /\ key = "timeout" => Convert(key, arg) = parse_duration_ms(arg, 5000)
      /\ key = "memory" => Convert(key, arg) = parse_memory_mb(arg, 256)
      /\ key = "concurrency" => Convert(key, arg) = stoi(arg)
      /\ key = "idle-timeout" => Convert(key, arg) = parse_duration_ms(arg, 60000)
  BY DEF Convert
<1>. QED
  BY <1>4, <1>5, StoiInt DEF Settings

\* The platform's defaults for the settings that are kept in an int.
LEMMA DefaultInt ==
    ASSUME NEW key \in Settings \ {"cpu", "idle-timeout"}
    PROVE  Default(key) \in Ints
<1>1. /\ key = "timeout" => Default(key) = 5000
      /\ key = "memory" => Default(key) = 256
      /\ key = "concurrency" => Default(key) = 1
  BY DEF Default
<1>. QED
  BY <1>1, CliAssumption DEF Settings, Ints

-----------------------------------------------------------------------------
\* The commands.

Reading == {"describe", "invocation", "runtimes"}

\* How a command ends, or what it sends.
LEMMA EndsOrSends ==
    ASSUME NEW code, NEW method, NEW path, NEW body
    PROVE  /\ Ends(code).code = code
           /\ Sends(method, path, body).code = Null
           /\ Sends(method, path, body).request.method = method
           /\ Sends(method, path, body).request.body = body
BY DEF Ends, Sends

\* A command that sends nothing ends with 1; one that sends uses its method.
LEMMA NamedSends ==
    ASSUME NEW args, NEW method, NEW before, NEW after, NEW body
    PROVE  LET begun == Named(args, method, before, after, body)
           IN  \/ begun.code = 1
               \/ begun.code = Null /\ begun.request.method = method
BY EndsOrSends DEF Named

\* deploy ends with 1, throws, or sends.
LEMMA DeploySends ==
    ASSUME NEW args
    PROVE  cmd_deploy(args).code \in {1, Abort, Null}
<1>1. \/ cmd_deploy(args) = Ends(1)
      \/ cmd_deploy(args) = Ends(Abort)
      \/ \E body : cmd_deploy(args) = Sends("POST", <<"/", "functions">>, body)
  BY DEF cmd_deploy
<1>. QED
  BY <1>1, EndsOrSends

\* The commands that send a request.
Sending == Reading \cup {"deploy", "invoke", "delete"}

\* What begins when a command line is read.
LEMMA MainBegins ==
    ASSUME NEW command, NEW argv
    PROVE  LET begun == main(command, argv)
           IN  /\ begun.code \in {0, 1, Abort, Null}
               /\ begun.code = 0 => command = "logs"
               /\ begun.code = Null => /\ command \in Sending
                                       /\ command \in Reading => begun.request.method = "GET"
<1>. DEFINE args == parse_args(argv)
            begun == main(command, argv)
<1>1. /\ command = "deploy" => begun = cmd_deploy(args)
      /\ command = "describe" => begun = Named(args, "GET", Prefix, <<>>, Null)
      /\ command = "invoke" => begun = Named(args, "POST", Prefix, <<"/", "invoke">>, Data(args))
      /\ command = "invocation" => begun = Named(args, "GET", <<"/", "invocations", "/">>, <<>>, Null)
      /\ command = "logs" => begun = Ends(IF args.positional = <<>> THEN 1 ELSE 0)
      /\ command = "delete" => begun = Named(args, "DELETE", Prefix, <<>>, Null)
      /\ command = "runtimes" => begun = Sends("GET", <<"/", "runtimes">>, Null)
      /\ command \notin Commands => begun = Ends(1)
  BY DEF main, Commands
<1>2. Null \notin {0, 1, Abort} /\ Abort # 0
  BY CliAssumption DEF Abort
<1>. HIDE DEF args, begun
<1>3. CASE command = "deploy"
  BY <1>1, <1>2, <1>3, DeploySends DEF begun, Sending, Reading
<1>4. CASE command \in {"describe", "invoke", "invocation", "delete"}
  <2>1. CASE command \in {"describe", "invocation"}
    <3>1. \E before : begun = Named(args, "GET", before, <<>>, Null)
      BY <1>1, <2>1
    <3>2. begun.code = 1 \/ (begun.code = Null /\ begun.request.method = "GET")
      BY <3>1, NamedSends
    <3>. QED
      BY <1>2, <2>1, <3>2 DEF begun, Sending, Reading
  <2>2. CASE command \in {"invoke", "delete"}
    <3>1. \E method, after, body : begun = Named(args, method, Prefix, after, body)
      BY <1>1, <2>2
    <3>2. begun.code = 1 \/ begun.code = Null
      BY <3>1, NamedSends
    <3>. QED
      BY <1>2, <2>2, <3>2 DEF begun, Sending, Reading
  <2>. QED
    BY <1>4, <2>1, <2>2
<1>5. CASE command = "logs"
  <2>1. begun.code = 0 \/ begun.code = 1
    BY <1>1, <1>5, EndsOrSends
  <2>. QED
    BY <1>2, <1>5, <2>1 DEF begun
<1>6. CASE command = "runtimes"
  BY <1>1, <1>2, <1>6, EndsOrSends DEF begun, Sending, Reading
<1>7. CASE command \notin Commands
  <2>1. begun.code = 1
    BY <1>1, <1>7, EndsOrSends
  <2>. QED
    BY <1>2, <2>1 DEF begun
<1>. QED
  BY <1>3, <1>4, <1>5, <1>6, <1>7 DEF Commands

\* Of these facts, what the end of a run needs.
LEMMA MainSends ==
    ASSUME NEW command, NEW argv, main(command, argv).code = Null
    PROVE  /\ command \in Sending
           /\ command \in Reading => main(command, argv).request.method = "GET"
BY MainBegins

\* A response throws only in a command that reads, and gives 0 only if it is
\* no refusal.
LEMMA ExitCodeSays ==
    ASSUME NEW command \in Sending, NEW resp \in Response
    PROVE  /\ ExitCode(command, resp) \in {0, 1, Abort}
           /\ ExitCode(command, resp) = Abort => command \in Reading
           /\ ExitCode(command, resp) = 0 => resp.status < 300
<1>1. /\ command \in {"deploy", "delete"} =>
            ExitCode(command, resp) = IF resp.status >= 300 THEN 1 ELSE 0
      /\ command \in Reading =>
            ExitCode(command, resp) = IF resp.status >= 300 THEN 1
                                      ELSE IF ~resp.parses THEN Abort ELSE 0
      /\ command = "invoke" =>
            ExitCode(command, resp) = IF ~resp.parses \/ resp.status >= 300 \/ resp.outcome # "success"
                                      THEN 1 ELSE 0
  BY DEF ExitCode, Reading
<1>2. resp.status \in Nat
  BY DEF Response, Statuses
<1>3. Abort # 0 /\ Abort # 1
  BY DEF Abort
<1>. QED
  BY <1>1, <1>2, <1>3 DEF Sending

-----------------------------------------------------------------------------
\* What parse_args makes of an argument list.

\* The flags that stand, without a gap, right before an argument.
FlagsBefore(argv, i) == {j \in 1..(i - 1) : \A k \in j..(i - 1) : argv[k].key # Null}

\* A flag that is no value has the next argument for its value, and nothing
\* else is one.
LEMMA ValueFollows ==
    ASSUME NEW argv, NEW i \in Nat, i >= 1
    PROVE  IsValue(argv, i + 1) <=> argv[i].key # Null /\ ~IsValue(argv, i)
<1>1. \A n \in Nat : n >= 1 => IsFiniteSet(FlagsBefore(argv, n))
  <2>. TAKE n \in Nat
  <2>. HAVE n >= 1
  <2>1. IsFiniteSet(1..(n - 1))
    BY FS_Interval
  <2>2. FlagsBefore(argv, n) \subseteq 1..(n - 1)
    BY DEF FlagsBefore
  <2>. QED
    BY <2>1, <2>2, FS_Subset
<1>2. (i + 1) - 1 = i
  OBVIOUS
<1>3. IsValue(argv, i + 1) <=> Cardinality(FlagsBefore(argv, i + 1)) % 2 = 1
  BY Zenon DEF IsValue, FlagsBefore
<1>4. IsValue(argv, i) <=> Cardinality(FlagsBefore(argv, i)) % 2 = 1
  BY Zenon DEF IsValue, FlagsBefore
<1>5. CASE argv[i].key = Null
  <2>1. FlagsBefore(argv, i + 1) = {}
    BY <1>2, <1>5 DEF FlagsBefore
  <2>2. Cardinality(FlagsBefore(argv, i + 1)) = 0
    BY <2>1, FS_EmptySet
  <2>. QED
    BY <1>3, <1>5, <2>2
<1>6. CASE argv[i].key # Null
  <2>. DEFINE n == Cardinality(FlagsBefore(argv, i))
  <2>1. FlagsBefore(argv, i + 1) = FlagsBefore(argv, i) \cup {i}
    BY <1>2, <1>6 DEF FlagsBefore
  <2>2. i \notin FlagsBefore(argv, i)
    BY DEF FlagsBefore
  <2>3. Cardinality(FlagsBefore(argv, i + 1)) = n + 1 /\ n \in Nat
    BY <1>1, <2>1, <2>2, FS_AddElement, FS_CardinalityType
  <2>4. (n + 1) % 2 = 1 <=> n % 2 # 1
    BY <2>3
  <2>. QED
    BY <1>3, <1>4, <1>6, <2>3, <2>4
<1>. QED
  BY <1>5, <1>6

\* The first argument is nobody's value.
LEMMA FirstIsNoValue ==
    ASSUME NEW argv
    PROVE  ~IsValue(argv, 1)
<1>1. FlagsBefore(argv, 1) = {}
  BY DEF FlagsBefore
<1>2. Cardinality(FlagsBefore(argv, 1)) = 0
  BY <1>1, FS_EmptySet
<1>3. IsValue(argv, 1) <=> Cardinality(FlagsBefore(argv, 1)) % 2 = 1
  BY Zenon DEF IsValue, FlagsBefore
<1>. QED
  BY <1>2, <1>3

IsWord(argv, i) == argv[i].key = Null /\ ~IsValue(argv, i)

Uses(argv, i, key) == argv[i].key = key /\ ~IsValue(argv, i)

\* The loop of parse_args, up to a position.
Unread == [positional |-> <<>>, flags |-> <<>>, pending |-> Null]

Parse(argv, n, parsed) ==
    parsed = [i \in 0..n |-> IF i = 0 THEN Unread ELSE Read(parsed[i - 1], argv[i])]

\* The loop has a result at every position.
LEMMA ParseExists ==
    ASSUME NEW argv
    PROVE  \A n \in Nat : \E g : Parse(argv, n, g)
<1>. DEFINE S == {n \in Nat : \E g : Parse(argv, n, g)}
<1>1. 0 \in S
  <2>1. Parse(argv, 0, [i \in 0..0 |-> Unread])
    BY DEF Parse
  <2>. QED
    BY <2>1
<1>2. ASSUME NEW n \in Nat, n \in S PROVE n + 1 \in S
  <2>1. PICK g : Parse(argv, n, g)
    BY <1>2
  <2>. DEFINE next == Read(g[n], argv[n + 1])
              h == [i \in 0..(n + 1) |-> IF i = n + 1 THEN next ELSE g[i]]
  <2>2. \A i \in 0..n : g[i] = IF i = 0 THEN Unread ELSE Read(g[i - 1], argv[i])
    BY <2>1 DEF Parse
  <2>3. \A i \in 0..n : h[i] = g[i]
    OBVIOUS
  <2>4. h[n + 1] = next
    OBVIOUS
  <2>5. h = [i \in 0..(n + 1) |-> h[i]]
    OBVIOUS
  <2>. HIDE DEF h
  <2>6. \A i \in 0..(n + 1) : h[i] = IF i = 0 THEN Unread ELSE Read(h[i - 1], argv[i])
    <3>. TAKE i \in 0..(n + 1)
    <3>1. CASE i = n + 1
      BY <2>3, <2>4, <3>1
    <3>2. CASE i \in 0..n
      BY <2>2, <2>3, <3>2
    <3>. QED
      BY <3>1, <3>2
  <2>7. Parse(argv, n + 1, h)
    BY <2>5, <2>6 DEF Parse
  <2>. QED
    BY <2>7
<1>3. Nat \subseteq S
  <2>. HIDE DEF S
  <2>. QED
    BY <1>1, <1>2, RP!SetInduction
<1>. QED
  BY <1>3

\* parse_args is that loop, run to the end.
LEMMA ParseLoop ==
    ASSUME NEW argv, Len(argv) \in Nat
    PROVE  \E g : /\ parse_args(argv) = g[Len(argv)]
                  /\ g[0] = Unread
                  /\ \A i \in 1..Len(argv) : g[i] = Read(g[i - 1], argv[i])
<1>. DEFINE n == Len(argv)
            g == CHOOSE g : Parse(argv, n, g)
<1>1. parse_args(argv) = g[n]
  BY Zenon DEF parse_args, Parse, Unread
<1>2. Parse(argv, n, g)
  <2>. HIDE DEF n
  <2>1. n \in Nat
    BY DEF n
  <2>. QED
    BY <2>1, ParseExists
<1>. HIDE DEF g
<1>3. \A i \in 0..n : g[i] = IF i = 0 THEN Unread ELSE Read(g[i - 1], argv[i])
  BY <1>2 DEF Parse
<1>. QED
  BY <1>1, <1>3

\* What has been read of the first i arguments.
WordsRead(argv, i, a) ==
    /\ a.positional \in Seq(Arguments)
    /\ a.positional = <<>> <=> \A j \in 1..i : ~IsWord(argv, j)
    /\ \A j \in 1..i : IsWord(argv, j) /\ (\A k \in 1..(j - 1) : ~IsWord(argv, k))
            => a.positional[1] = argv[j]

FlagsRead(argv, i, flags) ==
    \A key : key # Null =>
        /\ key \in DOMAIN flags <=> \E j \in 1..i : Uses(argv, j, key)
        /\ \A m \in 1..i : Uses(argv, m, key) /\ (\A j \in (m + 1)..i : ~Uses(argv, j, key))
                => flags[key] = IF m = i THEN Empty ELSE argv[m + 1]

HasRead(argv, i, a) ==
    /\ a = [positional |-> a.positional, flags |-> a.flags, pending |-> a.pending]
    /\ a.pending = IF i # 0 /\ argv[i].key # Null /\ ~IsValue(argv, i) THEN argv[i].key ELSE Null
    /\ WordsRead(argv, i, a)
    /\ FlagsRead(argv, i, a.flags)

\* What an assignment to one flag does to all of them.
LEMMA SetFlag ==
    ASSUME NEW flags, NEW key, NEW arg
    PROVE  /\ \A k : k \in DOMAIN Set(flags, key, arg) <=> k \in DOMAIN flags \/ k = key
           /\ Set(flags, key, arg)[key] = arg
           /\ \A k \in DOMAIN flags : k # key => Set(flags, key, arg)[k] = flags[k]
BY DEF Set

\* Before the first argument nothing has been read.
LEMMA ReadFirst ==
    ASSUME NEW argv
    PROVE  HasRead(argv, 0, Unread)
<1>1. Unread.positional = <<>> /\ Unread.flags = <<>> /\ Unread.pending = Null
  BY DEF Unread
<1>2. Unread = [positional |-> Unread.positional, flags |-> Unread.flags, pending |-> Unread.pending]
  BY DEF Unread
<1>3. (\A j \in 1..0 : FALSE) /\ DOMAIN <<>> = {} /\ <<>> \in Seq(Arguments)
  OBVIOUS
<1>4. WordsRead(argv, 0, Unread)
  BY <1>1, <1>3 DEF WordsRead
<1>5. FlagsRead(argv, 0, Unread.flags)
  BY <1>1, <1>3 DEF FlagsRead
<1>. QED
  BY <1>1, <1>2, <1>4, <1>5 DEF HasRead

\* One more argument, by what it is: a value, a flag or a word.
LEMMA ReadKind ==
    ASSUME NEW argv, NEW i \in Nat, NEW a, HasRead(argv, i, a)
    PROVE  LET arg == argv[i + 1]
               b == Read(a, arg)
           IN  /\ IsValue(argv, i + 1) <=> i # 0 /\ Uses(argv, i, a.pending) /\ a.pending # Null
               /\ IsValue(argv, i + 1) =>
                    b = [positional |-> a.positional, flags |-> Set(a.flags, a.pending, arg), pending |-> Null]
               /\ ~IsValue(argv, i + 1) /\ arg.key # Null =>
                    b = [positional |-> a.positional, flags |-> Set(a.flags, arg.key, Empty), pending |-> arg.key]
               /\ ~IsValue(argv, i + 1) /\ arg.key = Null =>
                    b = [positional |-> Append(a.positional, arg), flags |-> a.flags, pending |-> Null]
               /\ ~IsValue(argv, i + 1) /\ i # 0 => \A key : key # Null => ~Uses(argv, i, key)
<1>. DEFINE arg == argv[i + 1]
<1>1. /\ a = [positional |-> a.positional, flags |-> a.flags, pending |-> a.pending]
      /\ a.pending = IF i # 0 /\ argv[i].key # Null /\ ~IsValue(argv, i) THEN argv[i].key ELSE Null
  BY DEF HasRead
<1>2. IsValue(argv, i + 1) <=> i # 0 /\ argv[i].key # Null /\ ~IsValue(argv, i)
  <2>1. CASE i = 0
    BY <2>1, FirstIsNoValue
  <2>2. CASE i # 0
    BY <2>2, ValueFollows
  <2>. QED
    BY <2>1, <2>2
<1>3. IsValue(argv, i + 1) <=> a.pending # Null
  BY <1>1, <1>2
<1>4. a.pending # Null =>
        Read(a, arg) = [positional |-> a.positional, flags |-> Set(a.flags, a.pending, arg), pending |-> Null]
  BY <1>1 DEF Read
<1>5. a.pending = Null /\ arg.key # Null =>
        Read(a, arg) = [positional |-> a.positional, flags |-> Set(a.flags, arg.key, Empty), pending |-> arg.key]
  BY <1>1 DEF Read
<1>6. a.pending = Null /\ arg.key = Null =>
        Read(a, arg) = [positional |-> Append(a.positional, arg), flags |-> a.flags, pending |-> Null]
  BY <1>1 DEF Read
<1>. QED
  BY <1>1, <1>2, <1>3, <1>4, <1>5, <1>6 DEF Uses

\* A value goes to the flag before it, the last one read.
LEMMA ValueRead ==
    ASSUME NEW argv, NEW i \in Nat, i # 0, NEW flags, FlagsRead(argv, i, flags),
           NEW pending, pending # Null, Uses(argv, i, pending), IsValue(argv, i + 1)
    PROVE  FlagsRead(argv, i + 1, Set(flags, pending, argv[i + 1]))
<1>. DEFINE new == Set(flags, pending, argv[i + 1])
<1>1. /\ \A k : k \in DOMAIN new <=> k \in DOMAIN flags \/ k = pending
      /\ new[pending] = argv[i + 1]
      /\ \A k \in DOMAIN flags : k # pending => new[k] = flags[k]
  BY SetFlag
<1>. HIDE DEF new
<1>2. \A key : ~Uses(argv, i + 1, key)
  BY DEF Uses
<1>3. \A key : key # pending => ~Uses(argv, i, key)
  BY DEF Uses
<1>. SUFFICES ASSUME NEW key, key # Null
              PROVE  /\ key \in DOMAIN new <=> \E j \in 1..(i + 1) : Uses(argv, j, key)
                     /\ \A m \in 1..(i + 1) :
                            Uses(argv, m, key) /\ (\A j \in (m + 1)..(i + 1) : ~Uses(argv, j, key))
                            => new[key] = IF m = i + 1 THEN Empty ELSE argv[m + 1]
  BY DEF FlagsRead, new
<1>4. key \in DOMAIN flags <=> \E j \in 1..i : Uses(argv, j, key)
  BY DEF FlagsRead
<1>5. key \in DOMAIN new <=> \E j \in 1..(i + 1) : Uses(argv, j, key)
  <2>1. (\E j \in 1..(i + 1) : Uses(argv, j, key)) <=> \E j \in 1..i : Uses(argv, j, key)
    BY <1>2
  <2>2. key = pending => \E j \in 1..i : Uses(argv, j, key)
    <3>1. i \in 1..i
      OBVIOUS
    <3>. QED
      BY <3>1
  <2>. QED
    BY <1>1, <1>4, <2>1, <2>2
<1>6. ASSUME NEW m \in 1..(i + 1), Uses(argv, m, key),
             \A j \in (m + 1)..(i + 1) : ~Uses(argv, j, key)
      PROVE  new[key] = IF m = i + 1 THEN Empty ELSE argv[m + 1]
  <2>1. m # i + 1 /\ m \in 1..i
    BY <1>2, <1>6
  <2>2. CASE key = pending
    <3>1. m = i
      BY <1>6, <2>1, <2>2
    <3>. QED
      BY <1>1, <2>1, <2>2, <3>1
  <2>3. CASE key # pending
    <3>1. m # i
      BY <1>3, <1>6, <2>3
    <3>2. \A j \in (m + 1)..i : ~Uses(argv, j, key)
      BY <1>6, <2>1
    <3>3. flags[key] = IF m = i THEN Empty ELSE argv[m + 1]
      BY <1>6, <2>1, <3>2 DEF FlagsRead
    <3>4. key \in DOMAIN flags
      BY <1>4, <1>6, <2>1
    <3>. QED
      BY <1>1, <2>1, <2>3, <3>1, <3>3, <3>4
  <2>. QED
    BY <2>2, <2>3
<1>. QED
  BY <1>5, <1>6

\* A flag is "" for now, whatever it was before.
LEMMA FlagRead ==
    ASSUME NEW argv, NEW i \in Nat, NEW flags, FlagsRead(argv, i, flags),
           argv[i + 1].key # Null, ~IsValue(argv, i + 1),
           i # 0 => \A key : key # Null => ~Uses(argv, i, key)
    PROVE  FlagsRead(argv, i + 1, Set(flags, argv[i + 1].key, Empty))
<1>. DEFINE flag == argv[i + 1].key
            new == Set(flags, flag, Empty)
<1>1. /\ \A k : k \in DOMAIN new <=> k \in DOMAIN flags \/ k = flag
      /\ new[flag] = Empty
      /\ \A k \in DOMAIN flags : k # flag => new[k] = flags[k]
  BY SetFlag
<1>. HIDE DEF new
<1>2. \A key : Uses(argv, i + 1, key) <=> key = flag
  BY DEF Uses
<1>. SUFFICES ASSUME NEW key, key # Null
              PROVE  /\ key \in DOMAIN new <=> \E j \in 1..(i + 1) : Uses(argv, j, key)
                     /\ \A m \in 1..(i + 1) :
                            Uses(argv, m, key) /\ (\A j \in (m + 1)..(i + 1) : ~Uses(argv, j, key))
                            => new[key] = IF m = i + 1 THEN Empty ELSE argv[m + 1]
  BY DEF FlagsRead, new
<1>. HIDE DEF flag
<1>4. key \in DOMAIN flags <=> \E j \in 1..i : Uses(argv, j, key)
  BY DEF FlagsRead
<1>5. key \in DOMAIN new <=> \E j \in 1..(i + 1) : Uses(argv, j, key)
  <2>1. (\E j \in 1..(i + 1) : Uses(argv, j, key))
          <=> (\E j \in 1..i : Uses(argv, j, key)) \/ Uses(argv, i + 1, key)
    OBVIOUS
  <2>. QED
    BY <1>1, <1>2, <1>4, <2>1
<1>6. ASSUME NEW m \in 1..(i + 1), Uses(argv, m, key),
             \A j \in (m + 1)..(i + 1) : ~Uses(argv, j, key)
      PROVE  new[key] = IF m = i + 1 THEN Empty ELSE argv[m + 1]
  <2>1. CASE m = i + 1
    BY <1>1, <1>2, <1>6, <2>1
  <2>2. CASE m # i + 1
    <3>1. m \in 1..i /\ m # i
      BY <1>6, <2>2
    <3>2. \A j \in (m + 1)..i : ~Uses(argv, j, key)
      BY <1>6, <3>1
    <3>3. flags[key] = IF m = i THEN Empty ELSE argv[m + 1]
      BY <1>6, <3>1, <3>2 DEF FlagsRead
    <3>4. key \in DOMAIN flags
      BY <1>4, <1>6, <3>1
    <3>5. key # flag
      <4>1. i + 1 \in (m + 1)..(i + 1)
        BY <3>1
      <4>. QED
        BY <1>2, <1>6, <4>1
    <3>. QED
      BY <1>1, <2>2, <3>1, <3>3, <3>4, <3>5
  <2>. QED
    BY <2>1, <2>2
<1>. QED
  BY <1>5, <1>6

\* A word leaves the flags alone.
LEMMA WordKeepsFlags ==
    ASSUME NEW argv, NEW i \in Nat, NEW flags, FlagsRead(argv, i, flags),
           argv[i + 1].key = Null,
           i # 0 => \A key : key # Null => ~Uses(argv, i, key)
    PROVE  FlagsRead(argv, i + 1, flags)
<1>1. \A key : key # Null => ~Uses(argv, i + 1, key)
  BY DEF Uses
<1>. SUFFICES ASSUME NEW key, key # Null
              PROVE  /\ key \in DOMAIN flags <=> \E j \in 1..(i + 1) : Uses(argv, j, key)
                     /\ \A m \in 1..(i + 1) :
                            Uses(argv, m, key) /\ (\A j \in (m + 1)..(i + 1) : ~Uses(argv, j, key))
                            => flags[key] = IF m = i + 1 THEN Empty ELSE argv[m + 1]
  BY DEF FlagsRead
<1>2. key \in DOMAIN flags <=> \E j \in 1..i : Uses(argv, j, key)
  BY DEF FlagsRead
<1>3. key \in DOMAIN flags <=> \E j \in 1..(i + 1) : Uses(argv, j, key)
  BY <1>1, <1>2
<1>4. ASSUME NEW m \in 1..(i + 1), Uses(argv, m, key),
             \A j \in (m + 1)..(i + 1) : ~Uses(argv, j, key)
      PROVE  flags[key] = IF m = i + 1 THEN Empty ELSE argv[m + 1]
  <2>1. m \in 1..i /\ m # i /\ m # i + 1
    BY <1>1, <1>4
  <2>2. \A j \in (m + 1)..i : ~Uses(argv, j, key)
    BY <1>4, <2>1
  <2>3. flags[key] = IF m = i THEN Empty ELSE argv[m + 1]
    BY <1>4, <2>1, <2>2 DEF FlagsRead
  <2>. QED
    BY <2>1, <2>3
<1>. QED
  BY <1>3, <1>4

\* What is no word leaves the words alone.
LEMMA OthersKeepWords ==
    ASSUME NEW argv, NEW i \in Nat, NEW a, NEW b, WordsRead(argv, i, a),
           ~IsWord(argv, i + 1), b.positional = a.positional
    PROVE  WordsRead(argv, i + 1, b)
<1>1. (\A j \in 1..(i + 1) : ~IsWord(argv, j)) <=> \A j \in 1..i : ~IsWord(argv, j)
  OBVIOUS
<1>2. ASSUME NEW j \in 1..(i + 1), IsWord(argv, j), \A k \in 1..(j - 1) : ~IsWord(argv, k)
      PROVE  b.positional[1] = argv[j]
  <2>1. j \in 1..i
    BY <1>2
  <2>. QED
    BY <1>2, <2>1 DEF WordsRead
<1>. QED
  BY <1>1, <1>2 DEF WordsRead

\* A word is the first one if there was none before.
LEMMA WordRead ==
    ASSUME NEW argv, NEW i \in Nat, NEW a, NEW b, WordsRead(argv, i, a),
           IsWord(argv, i + 1), argv[i + 1] \in Arguments,
           b.positional = Append(a.positional, argv[i + 1])
    PROVE  WordsRead(argv, i + 1, b)
<1>. DEFINE p == a.positional
            q == b.positional
            arg == argv[i + 1]
<1>1. p \in Seq(Arguments) /\ arg \in Arguments /\ q = Append(p, arg)
  BY DEF WordsRead
<1>2. /\ p = <<>> <=> \A j \in 1..i : ~IsWord(argv, j)
      /\ \A j \in 1..i : IsWord(argv, j) /\ (\A k \in 1..(j - 1) : ~IsWord(argv, k)) => p[1] = argv[j]
  BY DEF WordsRead
<1>. HIDE DEF p, q, arg
<1>3. /\ q \in Seq(Arguments) /\ q # <<>>
      /\ p = <<>> => q[1] = arg
      /\ p # <<>> => q[1] = p[1]
  BY <1>1
<1>4. ~\A j \in 1..(i + 1) : ~IsWord(argv, j)
  <2>1. i + 1 \in 1..(i + 1)
    OBVIOUS
  <2>. QED
    BY <2>1
<1>5. ASSUME NEW j \in 1..(i + 1), IsWord(argv, j), \A k \in 1..(j - 1) : ~IsWord(argv, k)
      PROVE  q[1] = argv[j]
  <2>1. CASE j = i + 1
    <3>1. p = <<>>
      BY <1>2, <1>5, <2>1
    <3>. QED
      BY <1>3, <2>1, <3>1 DEF arg
  <2>2. CASE j \in 1..i
    <3>1. p # <<>> /\ p[1] = argv[j]
      BY <1>2, <1>5, <2>2
    <3>. QED
      BY <1>3, <3>1
  <2>. QED
    BY <2>1, <2>2
<1>. QED
  BY <1>3, <1>4, <1>5 DEF WordsRead, q

\* One turn of the loop reads one argument as it is meant.
LEMMA ReadNext ==
    ASSUME NEW argv \in Seq(Arguments), NEW i \in Nat, i + 1 <= Len(argv), NEW a, HasRead(argv, i, a)
    PROVE  HasRead(argv, i + 1, Read(a, argv[i + 1]))
<1>. DEFINE arg == argv[i + 1]
            b == Read(a, arg)
<1>0. arg \in Arguments
  OBVIOUS
<1>1. WordsRead(argv, i, a) /\ FlagsRead(argv, i, a.flags)
  BY DEF HasRead
<1>2. /\ IsValue(argv, i + 1) <=> i # 0 /\ Uses(argv, i, a.pending) /\ a.pending # Null
      /\ IsValue(argv, i + 1) =>
           b = [positional |-> a.positional, flags |-> Set(a.flags, a.pending, arg), pending |-> Null]
      /\ ~IsValue(argv, i + 1) /\ arg.key # Null =>
           b = [positional |-> a.positional, flags |-> Set(a.flags, arg.key, Empty), pending |-> arg.key]
      /\ ~IsValue(argv, i + 1) /\ arg.key = Null =>
           b = [positional |-> Append(a.positional, arg), flags |-> a.flags, pending |-> Null]
      /\ ~IsValue(argv, i + 1) /\ i # 0 => \A key : key # Null => ~Uses(argv, i, key)
  BY ReadKind
<1>. HIDE DEF b
<1>3. CASE IsValue(argv, i + 1)
  <2>1. /\ b = [positional |-> a.positional, flags |-> Set(a.flags, a.pending, arg), pending |-> Null]
        /\ b.positional = a.positional /\ b.flags = Set(a.flags, a.pending, arg) /\ b.pending = Null
    BY <1>2, <1>3
  <2>2. FlagsRead(argv, i + 1, b.flags)
    BY <1>1, <1>2, <1>3, <2>1, ValueRead
  <2>3. WordsRead(argv, i + 1, b)
    BY <1>1, <1>3, <2>1, OthersKeepWords DEF IsWord
  <2>. QED
    BY <1>3, <2>1, <2>2, <2>3 DEF HasRead, b
<1>4. CASE ~IsValue(argv, i + 1) /\ arg.key # Null
  <2>1. /\ b = [positional |-> a.positional, flags |-> Set(a.flags, arg.key, Empty), pending |-> arg.key]
        /\ b.positional = a.positional /\ b.flags = Set(a.flags, arg.key, Empty) /\ b.pending = arg.key
    BY <1>2, <1>4
  <2>2. FlagsRead(argv, i + 1, b.flags)
    BY <1>1, <1>2, <1>4, <2>1, FlagRead
  <2>3. WordsRead(argv, i + 1, b)
    BY <1>1, <1>4, <2>1, OthersKeepWords DEF IsWord
  <2>. QED
    BY <1>4, <2>1, <2>2, <2>3 DEF HasRead, b
<1>5. CASE ~IsValue(argv, i + 1) /\ arg.key = Null
  <2>1. /\ b = [positional |-> Append(a.positional, arg), flags |-> a.flags, pending |-> Null]
        /\ b.positional = Append(a.positional, arg) /\ b.flags = a.flags /\ b.pending = Null
    BY <1>2, <1>5
  <2>2. FlagsRead(argv, i + 1, b.flags)
    BY <1>1, <1>2, <1>5, <2>1, WordKeepsFlags
  <2>3. WordsRead(argv, i + 1, b)
    BY <1>0, <1>1, <1>5, <2>1, WordRead DEF IsWord
  <2>. QED
    BY <1>5, <2>1, <2>2, <2>3 DEF HasRead, b
<1>. QED
  BY <1>3, <1>4, <1>5

\* After the loop the whole line has been read as it is meant.
LEMMA AllRead ==
    ASSUME NEW argv \in Seq(Arguments)
    PROVE  HasRead(argv, Len(argv), parse_args(argv))
<1>1. Len(argv) \in Nat
  OBVIOUS
<1>2. PICK g : /\ parse_args(argv) = g[Len(argv)]
               /\ g[0] = Unread
               /\ \A i \in 1..Len(argv) : g[i] = Read(g[i - 1], argv[i])
  BY <1>1, ParseLoop
<1>. DEFINE S == {n \in Nat : n <= Len(argv) => HasRead(argv, n, g[n])}
<1>3. 0 \in S
  BY <1>2, ReadFirst
<1>4. ASSUME NEW n \in Nat, n \in S PROVE n + 1 \in S
  <2>. SUFFICES ASSUME n + 1 <= Len(argv) PROVE HasRead(argv, n + 1, g[n + 1])
    OBVIOUS
  <2>1. n + 1 \in 1..Len(argv) /\ (n + 1) - 1 = n /\ n <= Len(argv)
    BY <1>1
  <2>2. g[n + 1] = Read(g[n], argv[n + 1])
    BY <1>2, <2>1
  <2>3. HasRead(argv, n, g[n])
    BY <1>4, <2>1
  <2>. QED
    BY <2>2, <2>3, ReadNext
<1>5. Nat \subseteq S
  <2>. HIDE DEF S
  <2>. QED
    BY <1>3, <1>4, RP!SetInduction
<1>. QED
  BY <1>1, <1>2, <1>5

\* The first word, as the reference has it.
LEMMA FirstWordRead ==
    ASSUME NEW argv \in Seq(Arguments), parse_args(argv).positional # <<>>
    PROVE  FirstWord(argv) = parse_args(argv).positional[1] /\ FirstWord(argv) \in Arguments
<1>. DEFINE p == parse_args(argv).positional
            words == {i \in 1..Len(argv) : argv[i].key = Null /\ ~IsValue(argv, i)}
            first == CHOOSE i \in words : \A j \in words : i <= j
<1>1. WordsRead(argv, Len(argv), parse_args(argv))
  BY AllRead DEF HasRead
<1>2. \A i : i \in words <=> i \in 1..Len(argv) /\ IsWord(argv, i)
  BY DEF IsWord
<1>3. FirstWord(argv) = IF words = {} THEN Null ELSE argv[first]
  BY Zenon DEF FirstWord
<1>. HIDE DEF words
<1>4. words # {} /\ words \subseteq Nat
  BY <1>1, <1>2 DEF WordsRead
<1>5. first \in words /\ \A j \in words : first <= j
  BY <1>4, RP!LeastElement
<1>. HIDE DEF first
<1>6. first \in 1..Len(argv) /\ IsWord(argv, first) /\ \A k \in 1..(first - 1) : ~IsWord(argv, k)
  BY <1>2, <1>5
<1>7. p[1] = argv[first]
  BY <1>1, <1>6 DEF WordsRead
<1>8. argv[first] \in Arguments
  BY <1>6
<1>9. FirstWord(argv) = argv[first]
  BY <1>3, <1>4
<1>. QED
  BY <1>7, <1>8, <1>9

\* A set of positions that is not empty has a last one.
LEMMA GreatestElement ==
    ASSUME NEW n \in Nat, NEW T, T \subseteq 1..n, T # {}
    PROVE  \E m \in T : \A k \in T : k <= m
<1>. DEFINE D == {n - k : k \in T}
<1>1. D # {} /\ D \subseteq Nat
  OBVIOUS
<1>2. PICK d \in D : \A e \in D : d <= e
  <2>. HIDE DEF D
  <2>. QED
    BY <1>1, RP!LeastElement
<1>3. PICK m \in T : d = n - m
  OBVIOUS
<1>4. \A k \in T : n - m <= n - k
  BY <1>2, <1>3
<1>. QED
  BY <1>3, <1>4

\* The value of a flag, as the reference has it.
LEMMA FlagValueRead ==
    ASSUME NEW argv \in Seq(Arguments), NEW key, key # Null
    PROVE  LET flags == parse_args(argv).flags
           IN  /\ key \in DOMAIN flags => FlagValue(argv, key) = flags[key] /\ flags[key] # Null
               /\ key \notin DOMAIN flags => FlagValue(argv, key) = Null
<1>. DEFINE flags == parse_args(argv).flags
            uses == {i \in 1..Len(argv) : argv[i].key = key /\ ~IsValue(argv, i)}
            last == CHOOSE i \in uses : \A j \in uses : j <= i
<1>1. FlagsRead(argv, Len(argv), flags)
  BY AllRead DEF HasRead
<1>2. \A i : i \in uses <=> i \in 1..Len(argv) /\ Uses(argv, i, key)
  BY DEF Uses
<1>3. FlagValue(argv, key)
        = IF uses = {} THEN Null ELSE IF last = Len(argv) THEN Empty ELSE argv[last + 1]
  BY Zenon DEF FlagValue
<1>. HIDE DEF uses, flags
<1>4. key \in DOMAIN flags <=> uses # {}
  BY <1>1, <1>2 DEF FlagsRead
<1>5. ASSUME uses # {} PROVE FlagValue(argv, key) = flags[key] /\ flags[key] # Null
  <2>0. Len(argv) \in Nat /\ uses \subseteq 1..Len(argv)
    BY <1>2
  <2>1. last \in uses /\ \A j \in uses : j <= last
    BY <1>5, <2>0, GreatestElement
  <2>. HIDE DEF last
  <2>2. /\ last \in 1..Len(argv) /\ Uses(argv, last, key)
        /\ \A j \in (last + 1)..Len(argv) : ~Uses(argv, j, key)
    BY <1>2, <2>0, <2>1
  <2>3. flags[key] = IF last = Len(argv) THEN Empty ELSE argv[last + 1]
    BY <1>1, <2>2 DEF FlagsRead
  <2>4. Empty # Null /\ (last # Len(argv) => argv[last + 1] # Null)
    <3>1. last # Len(argv) => argv[last + 1] \in Arguments
      BY <2>0, <2>2
    <3>. QED
      BY <3>1, CliAssumption
  <2>. QED
    BY <1>3, <1>5, <2>3, <2>4
<1>. QED
  BY <1>3, <1>4, <1>5 DEF flags

\* The value of a flag is one of the arguments.
LEMMA FlagValueTyped ==
    ASSUME NEW argv \in Seq(Arguments), NEW key, FlagValue(argv, key) \notin {Null, Empty}
    PROVE  FlagValue(argv, key) \in Arguments
<1>. DEFINE uses == {i \in 1..Len(argv) : argv[i].key = key /\ ~IsValue(argv, i)}
            last == CHOOSE i \in uses : \A j \in uses : j <= i
<1>1. FlagValue(argv, key)
        = IF uses = {} THEN Null ELSE IF last = Len(argv) THEN Empty ELSE argv[last + 1]
  BY Zenon DEF FlagValue
<1>2. Len(argv) \in Nat /\ uses \subseteq 1..Len(argv)
  OBVIOUS
<1>3. uses # {} => last \in uses
  <2>. HIDE DEF uses
  <2>. QED
    BY <1>2, GreatestElement
<1>. HIDE DEF uses, last
<1>4. /\ uses # {} /\ last # Len(argv) /\ last \in 1..Len(argv)
      /\ FlagValue(argv, key) = argv[last + 1]
  BY <1>1, <1>2, <1>3, Zenon
<1>5. last + 1 \in 1..Len(argv)
  BY <1>2, <1>4
<1>. QED
  BY <1>4, <1>5

-----------------------------------------------------------------------------
\* What the commands send.

\* A product that is an int is computed as it is.
LEMMA TimesExact ==
    ASSUME NEW n \in Int, n # Null, NEW factor \in Int, n * factor \in Ints
    PROVE  Times(n, factor) = n * factor
<1>. DEFINE x == n * factor + IntMax + 1
            size == 2 * (IntMax + 1)
<1>0. IntMax \in Nat
  BY CliAssumption
<1>1. n * factor \in Int /\ x \in Int /\ size \in Int
  BY <1>0
<1>2. 0 <= x /\ x < size
  <2>. DEFINE product == n * factor
  <2>1. product \in Ints
    OBVIOUS
  <2>. HIDE DEF product
  <2>2. 0 <= product + IntMax + 1 /\ product + IntMax + 1 < 2 * (IntMax + 1)
    BY <1>0, <2>1 DEF Ints
  <2>. QED
    BY <2>2 DEF product
<1>3. Times(n, factor) = (x % size) - (IntMax + 1)
  BY DEF Times
<1>4. x - (IntMax + 1) = n * factor
  BY <1>0, <1>1
<1>. HIDE DEF x, size
<1>5. x % size = x
  BY <1>1, <1>2
<1>. QED
  BY <1>3, <1>4, <1>5

\* A setting whose conversion does not throw is the number typed, in its unit.
LEMMA ConvertExact ==
    ASSUME NEW key \in Settings, NEW arg \in Arguments, arg # Empty, Convert(key, arg) # Null
    PROVE  /\ Number(key, arg) # Null
           /\ Understood(key, arg) => Convert(key, arg) = Value(key, arg)
<1>0. /\ key # "cpu" => Number(key, arg) = arg.num
      /\ key = "cpu" => Number(key, arg) = arg.real
      /\ Value(key, arg) = Number(key, arg) * Scale(key, arg.unit)
      /\ Understood(key, arg) =>
            Scale(key, arg.unit) # 0 /\ (key = "cpu" \/ Value(key, arg) \in Ints)
  BY DEF Number, Value, Understood
<1>1. /\ arg.num = Null \/ arg.num \in Int
      /\ arg.real = Null \/ arg.real \in Int
  BY DEF Arguments
<1>2. stoi(arg) # Null => stoi(arg) = arg.num /\ arg.num # Null
  BY DEF stoi
<1>3. CASE key \in {"timeout", "idle-timeout"}
  <2>1. PICK fallback : Convert(key, arg) = parse_duration_ms(arg, fallback)
    BY <1>3 DEF Convert
  <2>. DEFINE factor == IF arg.unit = "s" THEN 1000 ELSE IF arg.unit = "m" THEN 60000 ELSE 1
  <2>2. Convert(key, arg) = Times(stoi(arg), factor)
    BY <2>1 DEF parse_duration_ms
  <2>3. stoi(arg) # Null
    BY <2>2 DEF Times
  <2>4. Scale(key, arg.unit) # 0 => Scale(key, arg.unit) = factor
    <3>1. Scale(key, arg.unit) = Duration(arg.unit)
      BY <1>3 DEF Scale
    <3>2. CASE arg.unit = "s"
      BY <3>1, <3>2 DEF Duration
    <3>3. CASE arg.unit = "m"
      BY <3>1, <3>3 DEF Duration
    <3>4. CASE arg.unit # "s" /\ arg.unit # "m"
      <4>1. factor = 1
        BY <3>4
      <4>2. Duration(arg.unit) = 1 \/ Duration(arg.unit) = 0
        BY <3>4 DEF Duration
      <4>. QED
        BY <3>1, <4>1, <4>2
    <3>. QED
      BY <3>2, <3>3, <3>4
  <2>5. factor \in Int
    OBVIOUS
  <2>. HIDE DEF factor
  <2>6. arg.num \in Int /\ arg.num # Null /\ stoi(arg) = arg.num
    BY <1>1, <1>2, <2>3
  <2>7. arg.num * factor \in Ints => Times(arg.num, factor) = arg.num * factor
    BY <2>5, <2>6, TimesExact
  <2>. QED
    BY <1>0, <1>3, <2>2, <2>4, <2>6, <2>7
<1>4. CASE key = "memory"
  <2>1. Convert(key, arg) = parse_memory_mb(arg, 256)
    BY <1>4 DEF Convert
  <2>. DEFINE factor == IF arg.unit = "Gi" THEN 1024 ELSE 1
  <2>2. Convert(key, arg) = Times(stoi(arg), factor)
    BY <2>1 DEF parse_memory_mb
  <2>3. stoi(arg) # Null
    BY <2>2 DEF Times
  <2>4. Scale(key, arg.unit) # 0 => Scale(key, arg.unit) = factor
    <3>1. Scale(key, arg.unit) = Memory(arg.unit)
      BY <1>4 DEF Scale
    <3>. QED
      BY <3>1 DEF Memory
  <2>5. factor \in Int
    OBVIOUS
  <2>. HIDE DEF factor
  <2>6. arg.num \in Int /\ arg.num # Null /\ stoi(arg) = arg.num
    BY <1>1, <1>2, <2>3
  <2>7. arg.num * factor \in Ints => Times(arg.num, factor) = arg.num * factor
    BY <2>5, <2>6, TimesExact
  <2>. QED
    BY <1>0, <1>4, <2>2, <2>4, <2>6, <2>7
<1>5. CASE key = "cpu"
  <2>1. Convert(key, arg) = arg.real
    BY <1>5 DEF Convert
  <2>2. Scale(key, arg.unit) # 0 => Scale(key, arg.unit) = 1
    <3>1. Scale(key, arg.unit) = IF arg.unit = "" THEN 1 ELSE 0
      BY <1>5 DEF Scale
    <3>. QED
      BY <3>1
  <2>3. arg.real # Null /\ arg.real \in Int /\ arg.real * 1 = arg.real
    BY <1>1, <2>1
  <2>. QED
    BY <1>0, <1>5, <2>1, <2>2, <2>3
<1>6. CASE key = "concurrency"
  <2>1. Convert(key, arg) = stoi(arg)
    BY <1>6 DEF Convert
  <2>2. Scale(key, arg.unit) # 0 => Scale(key, arg.unit) = 1
    <3>1. Scale(key, arg.unit) = IF arg.unit = "" THEN 1 ELSE 0
      BY <1>6 DEF Scale
    <3>. QED
      BY <3>1
  <2>3. arg.num # Null /\ arg.num \in Int /\ arg.num * 1 = arg.num
    BY <1>1, <1>2, <2>1
  <2>. QED
    BY <1>0, <1>2, <1>6, <2>1, <2>2, <2>3
<1>. QED
  BY <1>3, <1>4, <1>5, <1>6 DEF Settings

\* The value of a flag that has none.
LEMMA EmptyFields ==
    Empty.text = <<>> /\ Empty.num = Null /\ Empty.real = Null /\ Empty.doc = Null
BY Zenon DEF Empty, Arg

\* A flag without a value: the client's own default, or the conversion throws.
LEMMA ConvertEmpty ==
    ASSUME NEW key \in Settings, Convert(key, Empty) # Null
    PROVE  key \in DOMAIN Fallback /\ Convert(key, Empty) = Fallback[key]
<1>1. /\ parse_duration_ms(Empty, 5000) = 5000 /\ parse_duration_ms(Empty, 60000) = 60000
      /\ parse_memory_mb(Empty, 256) = 256
  BY DEF parse_duration_ms, parse_memory_mb
<1>2. Empty.num = Null /\ Empty.real = Null
  BY EmptyFields
<1>3. stoi(Empty) = Null
  BY <1>2 DEF stoi
<1>4. /\ key = "timeout" => Convert(key, Empty) = 5000
      /\ key = "memory" => Convert(key, Empty) = 256
      /\ key = "idle-timeout" => Convert(key, Empty) = 60000
      /\ key \notin {"cpu", "concurrency"}
  BY <1>1, <1>2, <1>3 DEF Convert
<1>5. /\ DOMAIN Fallback = {"timeout", "memory", "idle-timeout"}
      /\ Fallback["timeout"] = 5000 /\ Fallback["memory"] = 256 /\ Fallback["idle-timeout"] = 60000
  BY DEF Fallback
<1>. QED
  BY <1>4, <1>5 DEF Settings

\* What the client reads is an int or a double, and so is what it sends.
LEMMA ConvertNumber ==
    ASSUME NEW key \in Settings, NEW arg \in Arguments \cup {Empty}
    PROVE  Convert(key, arg) \in Int \cup {Null}
<1>1. CASE key = "cpu"
  <2>1. Convert(key, arg) = arg.real
    BY <1>1 DEF Convert
  <2>2. arg.real \in Int \cup {Null}
    BY EmptyFields DEF Arguments
  <2>. QED
    BY <2>1, <2>2
<1>2. CASE key # "cpu"
  BY <1>2, ConvertInt, CliAssumption DEF Ints
<1>. QED
  BY <1>1, <1>2

\* An int fits into the setting that it is for.
LEMMA StoredExact ==
    ASSUME NEW key \in Settings, NEW value \in Ints, value # Null
    PROVE  Stored(key, value) = value
<1>1. value \in Int /\ value * 1 = value
  BY CliAssumption DEF Ints
<1>2. Times(value, 1) = value
  BY <1>1, TimesExact
<1>. QED
  BY <1>2 DEF Stored

\* The arguments of a command line are text.
LEMMA KeysAreText ==
    /\ "image" # Null /\ "data" # Null
    /\ \A key \in Settings : key # Null
BY CliAssumption DEF Settings

\* What deploy sends.
LEMMA DeployMeans ==
    ASSUME NEW argv \in Seq(Arguments), main("deploy", argv).code = Null
    PROVE  LET q == main("deploy", argv).request
           IN  /\ q.method = "POST" /\ q.path = <<"/", "functions">>
               /\ FirstWord(argv) # Null /\ q.body.name = FirstWord(argv).text
               /\ q.body.image = FlagValue(argv, "image").text
               /\ \A key \in Settings :
                    /\ FlagValue(argv, key) = Null => q.body.settings[key] = Null
                    /\ FlagValue(argv, key) # Null =>
                            /\ q.body.settings[key] = Convert(key, FlagValue(argv, key))
                            /\ q.body.settings[key] # Null
                    /\ q.body.settings[key] \in Int \cup {Null}
               /\ q.body # Null
<1>. DEFINE args == parse_args(argv)
            given == DOMAIN args.flags \cap Settings
            converted == [key \in Settings |->
                            IF key \in given THEN Convert(key, args.flags[key]) ELSE Null]
            body == [name |-> args.positional[1].text, image |-> args.flags["image"].text,
                     settings |-> converted]
            path == <<"/", "functions">>
            sent == Sends("POST", path, body)
<1>1. main("deploy", argv) = cmd_deploy(args)
  BY DEF main
<1>2. /\ Ends(1).code # Null /\ Ends(Abort).code # Null
      /\ sent.request.method = "POST" /\ sent.request.path = path /\ sent.request.body = body
  BY CliAssumption DEF Ends, Sends
<1>3. \/ cmd_deploy(args) = Ends(1)
      \/ cmd_deploy(args) = Ends(Abort)
      \/ /\ cmd_deploy(args) = sent
         /\ args.positional # <<>> /\ "image" \in DOMAIN args.flags
         /\ \A key \in given : converted[key] # Null
  BY Zenon DEF cmd_deploy
<1>4. /\ main("deploy", argv) = sent
      /\ args.positional # <<>> /\ "image" \in DOMAIN args.flags
      /\ \A key \in given : converted[key] # Null
  <2>. HIDE DEF converted, given, sent, args
  <2>. QED
    BY <1>1, <1>2, <1>3
<1>5. /\ body.name = args.positional[1].text /\ body.image = args.flags["image"].text
      /\ body.settings = converted
  OBVIOUS
<1>6. /\ FirstWord(argv) = args.positional[1] /\ FirstWord(argv) \in Arguments
      /\ args.flags["image"] = FlagValue(argv, "image") /\ args.flags["image"] # Null
  BY <1>4, FirstWordRead, FlagValueRead, KeysAreText, CliAssumption
<1>7. ASSUME NEW key \in Settings
      PROVE  /\ FlagValue(argv, key) = Null => converted[key] = Null
             /\ FlagValue(argv, key) # Null =>
                    /\ converted[key] = Convert(key, FlagValue(argv, key))
                    /\ converted[key] # Null
             /\ converted[key] \in Int \cup {Null}
  <2>1. /\ key \in DOMAIN args.flags => FlagValue(argv, key) = args.flags[key] /\ args.flags[key] # Null
        /\ key \notin DOMAIN args.flags => FlagValue(argv, key) = Null
    BY FlagValueRead, KeysAreText
  <2>2. FlagValue(argv, key) # Null => Convert(key, FlagValue(argv, key)) \in Int \cup {Null}
    BY FlagValueTyped, ConvertNumber
  <2>. HIDE DEF args
  <2>3. key \in given <=> key \in DOMAIN args.flags
    OBVIOUS
  <2>4. converted[key] = IF key \in given THEN Convert(key, args.flags[key]) ELSE Null
    OBVIOUS
  <2>. HIDE DEF converted, given
  <2>. QED
    BY <1>4, <2>1, <2>2, <2>3, <2>4
<1>8. body \in Documents
  <2>1. FlagValue(argv, "image") \in Arguments \cup {Empty}
    BY <1>6, FlagValueTyped
  <2>0. ASSUME NEW a \in Arguments \cup {Empty} PROVE a.text \in Seq(STRING)
    <3>1. CASE a = Empty
      BY <3>1, EmptyFields
    <3>2. CASE a \in Arguments
      BY <3>2 DEF Arguments
    <3>. QED
      BY <3>1, <3>2
  <2>2. args.flags["image"].text \in Seq(STRING) /\ args.positional[1].text \in Seq(STRING)
    <3>. HIDE DEF args
    <3>. QED
      BY <1>6, <2>0, <2>1
  <2>3. converted \in [Settings -> Int \cup {Null}]
    BY <1>7
  <2>. HIDE DEF converted, args
  <2>. QED
    BY <2>2, <2>3 DEF Documents
<1>9. body # Null /\ FirstWord(argv) # Null
  <2>. HIDE DEF body
  <2>. QED
    BY <1>6, <1>8, CliAssumption
<1>. HIDE DEF args, converted, body, sent
<1>. QED
  BY <1>2, <1>4, <1>5, <1>6, <1>7, <1>9

\* What a setting of a request becomes in the table.
Registered(body, key) ==
    IF body.settings[key] # Null THEN Stored(key, body.settings[key]) ELSE Default(key)

\* What is registered of it.
LEMMA DeployAsTyped ==
    ASSUME NEW argv \in Seq(Arguments), main("deploy", argv).code = Null, NEW key \in Settings
    PROVE  SettingTyped(argv, key, Registered(main("deploy", argv).request.body, key))
<1>. DEFINE body == main("deploy", argv).request.body
            setting == Registered(body, key)
            typed == FlagValue(argv, key)
<1>1. /\ typed = Null => setting = Default(key)
      /\ typed # Null => /\ setting = Stored(key, Convert(key, typed))
                         /\ Convert(key, typed) # Null
  BY DeployMeans DEF Registered
<1>. HIDE DEF setting, body
<1>2. typed # Null => Stored(key, Convert(key, typed)) = Convert(key, typed)
  <2>1. CASE key \in {"cpu", "idle-timeout"}
    BY <2>1 DEF Stored
  <2>2. CASE key \notin {"cpu", "idle-timeout"}
    <3>. HIDE DEF typed
    <3>1. typed # Null => Convert(key, typed) \in Ints
      BY <1>1, <2>2, ConvertInt
    <3>. QED
      BY <1>1, <3>1, StoredExact
  <2>. QED
    BY <2>1, <2>2
<1>3. typed = Empty => typed # Null
  BY CliAssumption
<1>4. typed = Empty => key \in DOMAIN Fallback /\ setting = Fallback[key]
  BY <1>1, <1>2, <1>3, ConvertEmpty
<1>5. ASSUME typed # Null, typed # Empty
      PROVE  /\ Number(key, typed) # Null
             /\ Understood(key, typed) => setting = Value(key, typed)
  <2>1. typed \in Arguments
    BY <1>5, FlagValueTyped
  <2>. HIDE DEF typed
  <2>. QED
    BY <1>1, <1>2, <1>5, <2>1, ConvertExact
<1>6. SettingTyped(argv, key, setting)
  BY <1>1, <1>4, <1>5 DEF SettingTyped
<1>. QED
  BY <1>6 DEF setting, body

\* What the commands send that name a function in the path.
LEMMA NamedMeans ==
    ASSUME NEW argv \in Seq(Arguments), NEW command,
           command \in {"delete", "describe", "invoke"}, main(command, argv).code = Null
    PROVE  LET q == main(command, argv).request
           IN  /\ FirstWord(argv) \in Arguments
               /\ command = "delete" => /\ q.method = "DELETE"
                                        /\ q.path = Prefix \o FirstWord(argv).text \o <<>>
               /\ command = "describe" => /\ q.method = "GET"
                                          /\ q.path = Prefix \o FirstWord(argv).text \o <<>>
               /\ command = "invoke" => /\ q.method = "POST"
                                        /\ q.path = Prefix \o FirstWord(argv).text \o <<"/", "invoke">>
                                        /\ q.body = Data(parse_args(argv))
<1>. DEFINE args == parse_args(argv)
            begun == main(command, argv)
<1>1. ASSUME NEW method, NEW after, NEW body, begun = Named(args, method, Prefix, after, body)
      PROVE  /\ args.positional # <<>>
             /\ begun.request.method = method
             /\ begun.request.path = Prefix \o args.positional[1].text \o after
             /\ begun.request.body = body
  <2>1. Ends(1).code # Null
    BY CliAssumption DEF Ends
  <2>. HIDE DEF args
  <2>2. args.positional # <<>>
    BY <1>1, <2>1 DEF Named
  <2>3. begun = Sends(method, Prefix \o args.positional[1].text \o after, body)
    BY <1>1, <2>2 DEF Named
  <2>. HIDE DEF begun
  <2>. QED
    BY <2>2, <2>3 DEF Sends
<1>2. /\ command = "describe" => begun = Named(args, "GET", Prefix, <<>>, Null)
      /\ command = "invoke" => begun = Named(args, "POST", Prefix, <<"/", "invoke">>, Data(args))
      /\ command = "delete" => begun = Named(args, "DELETE", Prefix, <<>>, Null)
  BY DEF main
<1>3. args.positional # <<>>
  BY <1>1, <1>2
<1>4. FirstWord(argv) = args.positional[1] /\ FirstWord(argv) \in Arguments
  BY <1>3, FirstWordRead
<1>. HIDE DEF args, begun
<1>5. /\ command = "describe" => /\ begun.request.method = "GET"
                                 /\ begun.request.path = Prefix \o args.positional[1].text \o <<>>
      /\ command = "delete" => /\ begun.request.method = "DELETE"
                               /\ begun.request.path = Prefix \o args.positional[1].text \o <<>>
      /\ command = "invoke" => /\ begun.request.method = "POST"
                               /\ begun.request.path = Prefix \o args.positional[1].text \o <<"/", "invoke">>
                               /\ begun.request.body = Data(args)
  BY <1>1, <1>2
<1>. QED
  BY <1>4, <1>5 DEF begun, args

\* Only deploy and invoke send a body: invoke the document of its --data.
LEMMA BodySent ==
    ASSUME NEW argv \in Seq(Arguments), NEW command, main(command, argv).code = Null,
           main(command, argv).request.body # Null
    PROVE  LET body == main(command, argv).request.body
               data == FlagValue(argv, "data")
           IN  /\ command \in {"deploy", "invoke"}
               /\ command = "invoke" => data # Null /\ data.doc # Null /\ body = data.doc
               /\ \A key \in Settings : body.settings[key] \in Int \cup {Null}
<1>. DEFINE args == parse_args(argv)
            begun == main(command, argv)
            data == FlagValue(argv, "data")
<1>1. CASE command \in {"describe", "invocation", "delete", "runtimes"}
  <2>1. \/ \E method, before : begun = Named(args, method, before, <<>>, Null)
        \/ begun = Sends("GET", <<"/", "runtimes">>, Null)
    BY <1>1 DEF main
  <2>2. Ends(1).code # Null
    BY CliAssumption DEF Ends
  <2>. HIDE DEF args
  <2>3. \E method, path : begun = Sends(method, path, Null)
    BY <2>1, <2>2 DEF Named
  <2>. QED
    BY <2>3, EndsOrSends
<1>2. CASE command = "deploy"
  BY <1>2, DeployMeans
<1>3. CASE command = "invoke"
  <2>1. begun.request.body = Data(args)
    BY <1>3, NamedMeans
  <2>2. "data" \in DOMAIN args.flags /\ begun.request.body = args.flags["data"].doc
    BY <2>1 DEF Data
  <2>3. data = args.flags["data"] /\ data # Null
    BY <2>2, FlagValueRead, KeysAreText
  <2>4. data \in Arguments \cup {Empty}
    BY <2>3, FlagValueTyped
  <2>. HIDE DEF args, data, begun
  <2>5. data.doc # Null /\ begun.request.body = data.doc
    BY <2>2, <2>3 DEF begun
  <2>6. data.doc \in Documents
    BY <2>4, <2>5, EmptyFields DEF Arguments
  <2>7. \A key \in Settings : data.doc.settings[key] \in Int \cup {Null}
    BY <2>6 DEF Documents
  <2>. QED
    BY <1>3, <2>3, <2>5, <2>7 DEF begun, data
<1>4. CASE command \notin {"describe", "invocation", "delete", "runtimes", "deploy", "invoke"}
  <2>1. command \in Sending
    BY MainSends
  <2>. QED
    BY <1>4, <2>1 DEF Sending, Reading
<1>. QED
  BY <1>1, <1>2, <1>3, <1>4

\* A path with a name that has no "/" or "?" in it.
LEMMA PlainPath ==
    ASSUME NEW text \in Seq(STRING), Plain(text)
    PROVE  /\ text = <<text[1]>>
           /\ Prefix \o text \o <<>> = <<"/", "functions", "/", text[1]>>
           /\ Prefix \o text \o <<"/", "invoke">> = <<"/", "functions", "/", text[1], "/", "invoke">>
<1>. DEFINE w == text[1]
            S == {"/", "functions", "invoke", w}
            p == Prefix \o text
            q == p \o <<"/", "invoke">>
<1>1. text = <<w>> /\ Len(text) = 1
  BY DEF Plain
<1>2. Prefix \in Seq(S) /\ Len(Prefix) = 3 /\ Prefix[1] = "/" /\ Prefix[2] = "functions" /\ Prefix[3] = "/"
  BY DEF Prefix
<1>3. text \in Seq(S) /\ text[1] = w
  <2>1. w \in S
    OBVIOUS
  <2>. HIDE DEF w, S
  <2>2. <<w>> \in Seq(S) /\ <<w>>[1] = w
    BY <2>1
  <2>. QED
    BY <1>1, <2>2
<1>. HIDE DEF w, S
<1>4. p \in Seq(S) /\ Len(p) = 4 /\ p[1] = "/" /\ p[2] = "functions" /\ p[3] = "/" /\ p[4] = w
  <2>1. /\ p \in Seq(S) /\ Len(p) = Len(Prefix) + Len(text)
        /\ \A i \in 1..Len(Prefix) : p[i] = Prefix[i]
        /\ \A j \in 1..Len(text) : p[Len(Prefix) + j] = text[j]
    <3>1. Prefix \in Seq(S) /\ text \in Seq(S)
      BY <1>2, <1>3
    <3>. QED
      BY <3>1
  <2>2. 3 + 1 = 4 /\ 1 \in 1..3 /\ 2 \in 1..3 /\ 3 \in 1..3 /\ 1 \in 1..1
    OBVIOUS
  <2>. HIDE DEF p
  <2>3. p[3 + 1] = w
    BY <1>1, <1>2, <1>3, <2>1, <2>2
  <2>. QED
    BY <1>1, <1>2, <1>3, <2>1, <2>2, <2>3
<1>5. p = <<"/", "functions", "/", w>>
  <2>. HIDE DEF p
  <2>. QED
    BY <1>4
<1>6. p \o <<>> = p
  <2>. HIDE DEF p
  <2>. QED
    BY <1>4
<1>7. q = <<"/", "functions", "/", w, "/", "invoke">>
  <2>. DEFINE v == <<"/", "invoke">>
  <2>1. v \in Seq(S) /\ Len(v) = 2 /\ v[1] = "/" /\ v[2] = "invoke"
    BY DEF S
  <2>. HIDE DEF p, v
  <2>2. /\ p \o v \in Seq(S) /\ Len(p \o v) = Len(p) + Len(v)
        /\ \A i \in 1..Len(p) : (p \o v)[i] = p[i]
        /\ \A j \in 1..Len(v) : (p \o v)[Len(p) + j] = v[j]
    <3>1. p \in Seq(S) /\ v \in Seq(S)
      BY <1>4, <2>1
    <3>. QED
      BY <3>1
  <2>. DEFINE u == p \o v
  <2>3. 4 + 1 = 5 /\ 4 + 2 = 6 /\ 1 \in 1..2 /\ 2 \in 1..2
    OBVIOUS
  <2>. HIDE DEF u
  <2>4. u \in Seq(S) /\ Len(u) = 6 /\ u[4 + 1] = "/" /\ u[4 + 2] = "invoke"
    BY <1>4, <2>1, <2>2, <2>3 DEF u
  <2>5. u[1] = "/" /\ u[2] = "functions" /\ u[3] = "/" /\ u[4] = w
    <3>1. 1 \in 1..4 /\ 2 \in 1..4 /\ 3 \in 1..4 /\ 4 \in 1..4
      OBVIOUS
    <3>. QED
      BY <1>4, <2>2, <3>1 DEF u
  <2>6. u = <<"/", "functions", "/", w, "/", "invoke">>
    BY <2>3, <2>4, <2>5
  <2>. QED
    BY <2>6 DEF u, v
<1>. QED
  BY <1>1, <1>5, <1>6, <1>7 DEF w

-----------------------------------------------------------------------------
\* Where the requests go.

\* The routing that the commands meet is the one that RoutingProofs is about.
LEMMA SameRouting ==
    /\ \A method, path : R!Dispatch(method, path) = RP!Dispatch(method, path)
    /\ \A method, pattern : R!route(method, pattern) = RP!route(method, pattern)
    /\ R!routes_ = RP!routes_ /\ R!Param = RP!Param
<1>1. ASSUME NEW p PROVE R!split_path(p) = RP!split_path(p)
  BY Zenon DEF R!split_path, RP!split_path, R!SelectInSeq, RP!SelectInSeq, R!Min, RP!Min
<1>2. R!Param = RP!Param
  BY DEF R!Param, RP!Param
<1>3. ASSUME NEW method, NEW p PROVE R!route(method, p) = RP!route(method, p)
  BY <1>1 DEF R!route, RP!route
<1>4. R!routes_ = RP!routes_
  BY <1>2, <1>3, Zenon DEF R!routes_, RP!routes_
<1>5. ASSUME NEW r, NEW s PROVE (R!match(r, s) <=> RP!match(r, s)) /\ R!params(r, s) = RP!params(r, s)
  <2>2. R!match(r, s) <=> RP!match(r, s)
    BY <1>2 DEF R!match, RP!match
  <2>3. R!params(r, s) = RP!params(r, s)
    BY Zenon DEF R!params, RP!params, R!Param, RP!Param, R!Cardinality, RP!Cardinality
  <2>. QED
    BY <2>2, <2>3
<1>6. ASSUME NEW method, NEW path PROVE R!Dispatch(method, path) = RP!Dispatch(method, path)
  <2>. DEFINE s == R!split_path(path)
              t == R!routes_
              fit == {i \in 1..Len(t) : R!match(t[i], s)}
              mine == {i \in 1..Len(t) : R!match(t[i], s) /\ t[i].method = method}
              first == IF mine # {} THEN R!Min(mine) ELSE 0
              any == IF fit # {} THEN R!Min(fit) ELSE 0
              s2 == RP!split_path(path)
              t2 == RP!routes_
              fit2 == {i \in 1..Len(t2) : RP!match(t2[i], s2)}
              mine2 == {i \in 1..Len(t2) : RP!match(t2[i], s2) /\ t2[i].method = method}
              first2 == IF mine2 # {} THEN RP!Min(mine2) ELSE 0
              any2 == IF fit2 # {} THEN RP!Min(fit2) ELSE 0
  <2>1. R!Dispatch(method, path) =
            IF first # 0
            THEN [status |-> 0, route |-> first, params |-> R!params(t[first], s)]
            ELSE [status |-> IF any # 0 THEN 405 ELSE 404, route |-> 0, params |-> <<>>]
    BY Zenon DEF R!Dispatch, R!SelectInSeq
  <2>2. RP!Dispatch(method, path) =
            IF first2 # 0
            THEN [status |-> 0, route |-> first2, params |-> RP!params(t2[first2], s2)]
            ELSE [status |-> IF any2 # 0 THEN 405 ELSE 404, route |-> 0, params |-> <<>>]
    BY Zenon DEF RP!Dispatch, RP!SelectInSeq
  <2>3. s = s2 /\ t = t2
    BY <1>1, <1>4
  <2>. HIDE DEF s, t, s2, t2
  <2>4. fit = fit2 /\ mine = mine2
    BY <1>5, <2>3
  <2>5. \A T : R!Min(T) = RP!Min(T)
    BY DEF R!Min, RP!Min
  <2>. HIDE DEF fit, mine, fit2, mine2
  <2>6. first = first2 /\ any = any2
    BY <2>4, <2>5, Zenon
  <2>7. R!params(t[first], s) = RP!params(t[first], s)
    BY <1>5
  <2>. HIDE DEF first, any, first2, any2
  <2>. QED
    BY <2>1, <2>2, <2>3, <2>6, <2>7
<1>. QED
  BY <1>2, <1>3, <1>4, <1>6

\* A name put into the path of a pattern.
LEMMA PrefixJoined ==
    ASSUME NEW w, NEW x
    PROVE  /\ Prefix \o <<w>> = <<"/", "functions", "/", w>>
           /\ Prefix \o <<w, "/", x>> = <<"/", "functions", "/", w, "/", x>>
<1>. DEFINE S == {"/", "functions", w, x}
            a == <<w>>
            b == <<w, "/", x>>
            p == Prefix \o a
            q == Prefix \o b
<1>1. Prefix \in Seq(S) /\ Len(Prefix) = 3 /\ Prefix[1] = "/" /\ Prefix[2] = "functions" /\ Prefix[3] = "/"
  BY DEF Prefix
<1>2. /\ a \in Seq(S) /\ Len(a) = 1 /\ a[1] = w
      /\ b \in Seq(S) /\ Len(b) = 3 /\ b[1] = w /\ b[2] = "/" /\ b[3] = x
  OBVIOUS
<1>. HIDE DEF S, a, b
<1>3. /\ p \in Seq(S) /\ Len(p) = Len(Prefix) + Len(a)
      /\ \A i \in 1..Len(Prefix) : p[i] = Prefix[i]
      /\ \A j \in 1..Len(a) : p[Len(Prefix) + j] = a[j]
  <2>1. Prefix \in Seq(S) /\ a \in Seq(S)
    BY <1>1, <1>2
  <2>. QED
    BY <2>1
<1>4. /\ q \in Seq(S) /\ Len(q) = Len(Prefix) + Len(b)
      /\ \A i \in 1..Len(Prefix) : q[i] = Prefix[i]
      /\ \A j \in 1..Len(b) : q[Len(Prefix) + j] = b[j]
  <2>1. Prefix \in Seq(S) /\ b \in Seq(S)
    BY <1>1, <1>2
  <2>. QED
    BY <2>1
<1>5. 3 + 1 = 4 /\ 3 + 2 = 5 /\ 3 + 3 = 6 /\ 1 \in 1..3 /\ 2 \in 1..3 /\ 3 \in 1..3 /\ 1 \in 1..1
  OBVIOUS
<1>. HIDE DEF p, q
<1>6. p \in Seq(S) /\ Len(p) = 4 /\ p[1] = "/" /\ p[2] = "functions" /\ p[3] = "/"
  BY <1>1, <1>2, <1>3, <1>5
<1>7. p[3 + 1] = w
  BY <1>1, <1>2, <1>3, <1>5
<1>8. p = <<"/", "functions", "/", w>>
  BY <1>5, <1>6, <1>7
<1>9. q \in Seq(S) /\ Len(q) = 6 /\ q[1] = "/" /\ q[2] = "functions" /\ q[3] = "/"
  BY <1>1, <1>2, <1>4, <1>5
<1>10. q[3 + 1] = w /\ q[3 + 2] = "/" /\ q[3 + 3] = x
  BY <1>1, <1>2, <1>4, <1>5
<1>11. q = <<"/", "functions", "/", w, "/", x>>
  BY <1>5, <1>9, <1>10
<1>. QED
  BY <1>8, <1>11 DEF p, q, a, b

\* The routes, by the patterns that the handlers are registered for.
LEMMA HandlerRoutes ==
    /\ R!route("POST", <<"/", "functions">>) = R!routes_[2]
    /\ R!route("POST", Prefix \o <<R!Param, "/", "invoke">>) = R!routes_[5]
    /\ R!route("GET", Prefix \o <<R!Param, "/", "runtime">>) = R!routes_[6]
    /\ R!route("GET", <<"/", "runtimes">>) = R!routes_[7]
    /\ R!route("GET", <<"/", "invocations", "/", R!Param>>) = R!routes_[9]
<1>1. /\ Prefix \o <<R!Param, "/", "invoke">> = <<"/", "functions", "/", R!Param, "/", "invoke">>
      /\ Prefix \o <<R!Param, "/", "runtime">> = <<"/", "functions", "/", R!Param, "/", "runtime">>
  BY PrefixJoined, Zenon
<1>2. /\ R!routes_[2] = R!route("POST", <<"/", "functions">>)
      /\ R!routes_[5] = R!route("POST", <<"/", "functions", "/", R!Param, "/", "invoke">>)
      /\ R!routes_[6] = R!route("GET", <<"/", "functions", "/", R!Param, "/", "runtime">>)
      /\ R!routes_[7] = R!route("GET", <<"/", "runtimes">>)
      /\ R!routes_[9] = R!route("GET", <<"/", "invocations", "/", R!Param>>)
  BY DEF R!routes_
<1>. QED
  BY <1>1, <1>2

-----------------------------------------------------------------------------
\* The steps.

\* ClientInv, taken apart into the types of the variables, the table, and what
\* holds of each run.
Types ==
    /\ pc \in [Runs -> {"out", "waiting", "exited"}]
    /\ line \in [Runs -> Lines \cup {Null}]
    /\ request \in [Runs -> Requests \cup {Null}]
    /\ exit \in [Runs -> {0, 1, Abort, Null}]
    /\ server \in [Runs -> {"none", "pending", "served"}]
    /\ response \in [Runs -> Response \cup {Null}]
    /\ effect = [r \in Runs |-> effect[r]]

TableTyped ==
    \A name \in DOMAIN functions : \A key \in Settings \ {"cpu", "idle-timeout"} :
        functions[name].settings[key] \in Ints

RunFacts(r) ==
    /\ RunInv(r)
    /\ pc[r] = "out" <=> line[r] = Null
    /\ pc[r] = "exited" <=> exit[r] # Null
    /\ server[r] = "served" <=> response[r] # Null
    /\ exit[r] = Abort => request[r] = Null \/ request[r].method = "GET"
    /\ response[r] # Null /\ response[r].status >= 300 => effect[r].kind \in {"none", "ran"}
    /\ exit[r] = 0 /\ line[r].command # "logs" => server[r] = "served" /\ response[r].status < 300

\* ClientInv is the conjunction of these parts, before and after a step.
LEMMA ClientInvSplit ==
    /\ ClientInv <=> Types /\ TableTyped /\ \A r \in Runs : RunFacts(r)
    /\ ClientInv' <=> Types' /\ TableTyped' /\ \A r \in Runs : RunFacts(r)'
<1>1. ClientInv <=> Types /\ TableTyped /\ \A r \in Runs : RunFacts(r)
  BY DEF ClientInv, TypeOK, Types, TableTyped, RunFacts, AbortChangesNothing, RefusedIsHarmless,
     ZeroIsAnswered
<1>2. ClientInv' <=> Types' /\ TableTyped' /\ \A r \in Runs : RunFacts(r)'
  BY DEF ClientInv, TypeOK, Types, TableTyped, RunFacts, AbortChangesNothing, RefusedIsHarmless,
     ZeroIsAnswered
<1>. QED
  BY <1>1, <1>2

\* The state of a run that a step of another leaves alone.
Kept(r) ==
    /\ pc'[r] = pc[r] /\ line'[r] = line[r] /\ request'[r] = request[r] /\ exit'[r] = exit[r]
    /\ server'[r] = server[r] /\ response'[r] = response[r] /\ effect'[r] = effect[r]

\* A step of run r is judged by what it does to r and to the table.
LEMMA OneRun ==
    ASSUME ClientInv, NEW r \in Runs, Types', TableTyped', RunFacts(r)', \A q \in Runs \ {r} : Kept(q)
    PROVE  ClientInv'
<1>1. ASSUME NEW q \in Runs \ {r} PROVE RunFacts(q)'
  BY <1>1, ClientInvSplit DEF RunFacts, RunInv, Kept
<1>. QED
  BY <1>1, ClientInvSplit

\* A run starts: it ends at once, or its request is on its way.
LEMMA StartInv ==
    ASSUME ClientInv, NEW r \in Runs, NEW l \in CommandLines[r], Start(r, l)
    PROVE  ClientInv'
<1>. DEFINE begun == main(l.command, l.argv)
<1>1. /\ begun.code \in {0, 1, Abort, Null}
      /\ begun.code = 0 => l.command = "logs"
      /\ l \in Lines /\ l # Null
      /\ begun.code = Null => begun.request \in Requests
  BY MainBegins, CliAssumption DEF Lines, Requests
<1>2. /\ pc[r] = "out" /\ line' = [line EXCEPT ![r] = l] /\ UNCHANGED <<response, effect, functions>>
      /\ Types /\ TableTyped /\ RunFacts(r)
  BY ClientInvSplit DEF Start
<1>3. PICK code \in {0, 1, Abort, Null} :
        /\ code = begun.code \/ code = Abort
        /\ code = Null => begun.code = Null
        /\ IF code # Null
           THEN /\ pc' = [pc EXCEPT ![r] = "exited"]
                /\ exit' = [exit EXCEPT ![r] = code]
                /\ UNCHANGED <<request, server>>
           ELSE /\ pc' = [pc EXCEPT ![r] = "waiting"]
                /\ request' = [request EXCEPT ![r] = begun.request]
                /\ server' = [server EXCEPT ![r] = "pending"]
                /\ UNCHANGED exit
  <2>1. PICK endpoint \in BOOLEAN :
          LET code == IF begun.code = Null /\ ~endpoint THEN Abort ELSE begun.code
          IN  IF code # Null
              THEN /\ pc' = [pc EXCEPT ![r] = "exited"]
                   /\ exit' = [exit EXCEPT ![r] = code]
                   /\ UNCHANGED <<request, server>>
              ELSE /\ pc' = [pc EXCEPT ![r] = "waiting"]
                   /\ request' = [request EXCEPT ![r] = begun.request]
                   /\ server' = [server EXCEPT ![r] = "pending"]
                   /\ UNCHANGED exit
    BY DEF Start
  <2>2. begun.code = Null => Abort # Null
    BY CliAssumption
  <2>. HIDE DEF begun
  <2>3. CASE begun.code = Null /\ ~endpoint
    BY <2>1, <2>2, <2>3
  <2>4. CASE ~(begun.code = Null /\ ~endpoint)
    BY <1>1, <2>1, <2>4
  <2>. QED
    BY <2>3, <2>4
<1>4. Abort # 0 /\ Abort # Null /\ Null # 0
  BY CliAssumption DEF Abort
<1>5. /\ request[r] = Null /\ server[r] = "none" /\ exit[r] = Null /\ response[r] = Null
      /\ effect[r] = Nothing
  BY <1>2 DEF RunFacts, RunInv
<1>6. TableTyped'
  BY <1>2 DEF TableTyped
<1>7. CASE code # Null
  <2>1. Types'
    BY <1>1, <1>2, <1>3, <1>7 DEF Types
  <2>2. /\ pc'[r] = "exited" /\ line'[r] = l /\ exit'[r] = code /\ request'[r] = Null
        /\ server'[r] = "none" /\ response'[r] = Null /\ effect'[r] = Nothing
    BY <1>2, <1>3, <1>5, <1>7 DEF Types
  <2>3. RunFacts(r)'
    BY <1>1, <1>3, <1>4, <1>7, <2>2 DEF RunFacts, RunInv
  <2>4. \A q \in Runs \ {r} : Kept(q)
    BY <1>2, <1>3, <1>7 DEF Kept, Types
  <2>. QED
    BY <1>6, <2>1, <2>3, <2>4, OneRun
<1>8. CASE code = Null
  <2>1. Types'
    BY <1>1, <1>2, <1>3, <1>8 DEF Types
  <2>2. /\ pc'[r] = "waiting" /\ line'[r] = l /\ exit'[r] = Null /\ request'[r] = begun.request
        /\ server'[r] = "pending" /\ response'[r] = Null /\ effect'[r] = Nothing
    BY <1>2, <1>3, <1>5, <1>8 DEF Types
  <2>3. RunFacts(r)'
    BY <1>1, <1>3, <1>4, <1>8, <2>2 DEF RunFacts, RunInv
  <2>4. \A q \in Runs \ {r} : Kept(q)
    BY <1>2, <1>3, <1>8 DEF Kept, Types
  <2>. QED
    BY <1>6, <2>1, <2>3, <2>4, OneRun
<1>. QED
  BY <1>7, <1>8

\* The control plane serves a request: the run learns of it later.
LEMMA ServeInv ==
    ASSUME ClientInv, NEW r \in Runs, server[r] = "pending", NEW status, NEW outcome,
           Answer(r, status, outcome),
           status \in {200, 201, 204, 400, 404, 405, 502},
           outcome \in {"success", "error", "timeout", Null},
           \/ UNCHANGED effect
           \/ \E kind, name, what : Did(r, kind, name, what) /\ (kind = "ran" \/ status < 300),
           UNCHANGED <<pc, line, request, exit>>, TableTyped'
    PROVE  ClientInv'
<1>. DEFINE resp == [status |-> status, outcome |-> outcome, parses |-> TRUE]
<1>1. Types /\ RunFacts(r)
  BY ClientInvSplit
<1>2. resp \in Response /\ resp.status = status /\ resp # Null
  <2>1. resp \in Response /\ resp.status = status
    BY DEF Response, Statuses, Outcomes
  <2>2. Null \notin Response
    BY CliAssumption
  <2>. HIDE DEF resp
  <2>. QED
    BY <2>1, <2>2
<1>3. server' = [server EXCEPT ![r] = "served"] /\ response' = [response EXCEPT ![r] = resp]
  BY DEF Answer
<1>. HIDE DEF resp
<1>4. effect[r] = Nothing
  BY <1>1 DEF RunFacts, RunInv
<1>5. PICK e : /\ effect' = [effect EXCEPT ![r] = e]
               /\ status >= 300 => e.kind \in {"none", "ran"}
  <2>1. CASE UNCHANGED effect
    <3>1. effect' = [effect EXCEPT ![r] = Nothing]
      BY <1>1, <1>4, <2>1 DEF Types
    <3>2. Nothing.kind = "none"
      BY DEF Nothing
    <3>. QED
      BY <3>1, <3>2
  <2>2. CASE \E kind, name, what : Did(r, kind, name, what) /\ (kind = "ran" \/ status < 300)
    <3>1. PICK kind, name, what : Did(r, kind, name, what) /\ (kind = "ran" \/ status < 300)
      BY <2>2
    <3>. DEFINE e == [kind |-> kind, name |-> name, what |-> what]
    <3>2. effect' = [effect EXCEPT ![r] = e] /\ e.kind = kind
      BY <3>1 DEF Did
    <3>3. status >= 300 => e.kind = "ran"
      BY <3>1, <3>2
    <3>. HIDE DEF e
    <3>. QED
      BY <3>2, <3>3
  <2>. QED
    BY <2>1, <2>2
<1>6. Types'
  BY <1>1, <1>2, <1>3, <1>5 DEF Types
<1>7. server'[r] = "served" /\ response'[r] = resp /\ effect'[r] = e
  BY <1>1, <1>3, <1>5 DEF Types
<1>8. RunFacts(r)'
  <2>1. ~(exit[r] = 0 /\ line[r].command # "logs")
    BY <1>1 DEF RunFacts
  <2>2. RunInv(r)'
    BY <1>1, <1>7 DEF RunFacts, RunInv
  <2>. QED
    BY <1>1, <1>2, <1>5, <1>7, <2>1, <2>2 DEF RunFacts
<1>9. \A q \in Runs \ {r} : Kept(q)
  BY <1>1, <1>3, <1>5 DEF Kept, Types
<1>. QED
  BY <1>6, <1>8, <1>9, OneRun

\* What a request that is on its way asks for.
LEMMA PendingSent ==
    ASSUME ClientInv, NEW r \in Runs, server[r] = "pending"
    PROVE  /\ main(line[r].command, line[r].argv).code = Null
           /\ request[r] = main(line[r].command, line[r].argv).request
           /\ line[r].argv \in Seq(Arguments)
           /\ Target(r) = RP!Dispatch(request[r].method, request[r].path)
<1>1. RunFacts(r)
  BY ClientInvSplit
<1>2. /\ line[r] \in CommandLines[r]
      /\ main(line[r].command, line[r].argv).code = Null
      /\ request[r] = main(line[r].command, line[r].argv).request
  BY <1>1 DEF RunFacts, RunInv
<1>3. line[r].argv \in Seq(Arguments)
  BY <1>2, CliAssumption
<1>4. Target(r) = R!Dispatch(request[r].method, request[r].path)
  BY <1>2 DEF Target, Dispatched, Requests, Lines
<1>. QED
  BY <1>2, <1>3, <1>4, SameRouting

\* What a request becomes in the table.
SpecOf(body) ==
    [image |-> body.image, settings |-> [key \in Settings |-> Registered(body, key)]]

\* The request is refused, or what it describes is registered.
LEMMA PostFunctionsDoes ==
    ASSUME NEW r, PostFunctions(r)
    PROVE  LET body == request[r].body
           IN  /\ At(r, "POST", <<"/", "functions">>)
               /\ body = Null => Answer(r, 400, Null) /\ UNCHANGED <<effect, functions>>
               /\ body # Null =>
                    /\ functions' = [f \in DOMAIN functions \cup {body.name} |->
                                        IF f = body.name THEN SpecOf(body) ELSE functions[f]]
                    /\ Did(r, "registered", body.name, SpecOf(body))
                    /\ Answer(r, 201, Null)
               /\ UNCHANGED <<pc, line, request, exit>>
BY Zenon DEF PostFunctions, SpecOf, Registered

\* The fields of what is registered.
LEMMA SpecFields ==
    ASSUME NEW body
    PROVE  /\ SpecOf(body).image = body.image
           /\ \A key \in Settings : SpecOf(body).settings[key] = Registered(body, key)
BY DEF SpecOf

\* What is registered has ints for the settings that are kept in one.
LEMMA PostFunctionsInv ==
    ASSUME ClientInv, NEW r \in Runs, PostFunctions(r)
    PROVE  ClientInv'
<1>. DEFINE body == request[r].body
<1>1. server[r] = "pending" /\ UNCHANGED <<pc, line, request, exit>> /\ TableTyped
  BY ClientInvSplit, PostFunctionsDoes DEF At
<1>2. CASE body = Null
  <2>1. Answer(r, 400, Null) /\ UNCHANGED <<effect, functions>>
    BY <1>2, PostFunctionsDoes
  <2>. QED
    BY <1>1, <2>1, ServeInv DEF TableTyped
<1>3. CASE body # Null
  <2>1. /\ functions' = [f \in DOMAIN functions \cup {body.name} |->
                            IF f = body.name THEN SpecOf(body) ELSE functions[f]]
        /\ Did(r, "registered", body.name, SpecOf(body)) /\ Answer(r, 201, Null)
    BY <1>3, PostFunctionsDoes
  <2>2. \A key \in Settings : body.settings[key] \in Int \cup {Null}
    BY <1>1, <1>3, PendingSent, BodySent
  <2>. HIDE DEF body
  <2>3. ASSUME NEW key \in Settings \ {"cpu", "idle-timeout"}
        PROVE  SpecOf(body).settings[key] \in Ints
    <3>1. SpecOf(body).settings[key]
            = IF body.settings[key] # Null THEN Times(body.settings[key], 1) ELSE Default(key)
      BY SpecFields DEF Registered, Stored
    <3>2. body.settings[key] # Null => Times(body.settings[key], 1) \in Ints
      BY <2>2, TimesWraps
    <3>. QED
      BY <3>1, <3>2, DefaultInt
  <2>4. TableTyped'
    BY <1>1, <2>1, <2>3 DEF TableTyped
  <2>. QED
    BY <1>1, <2>1, <2>4, ServeInv
<1>. QED
  BY <1>2, <1>3

\* A function that is removed leaves the others as they were.
LEMMA DeleteFunctionInv ==
    ASSUME ClientInv, NEW r \in Runs, DeleteFunction(r)
    PROVE  ClientInv'
<1>1. server[r] = "pending" /\ UNCHANGED <<pc, line, request, exit>> /\ TableTyped
  BY ClientInvSplit DEF DeleteFunction, At
<1>2. CASE Param(r) \in DOMAIN functions
  <2>1. /\ functions' = [f \in DOMAIN functions \ {Param(r)} |-> functions[f]]
        /\ Did(r, "removed", Param(r), Null) /\ Answer(r, 204, Null)
    BY <1>2 DEF DeleteFunction
  <2>2. TableTyped'
    BY <1>1, <2>1 DEF TableTyped
  <2>. QED
    BY <1>1, <2>1, <2>2, ServeInv
<1>3. CASE Param(r) \notin DOMAIN functions
  <2>1. Answer(r, 404, Null) /\ UNCHANGED <<effect, functions>>
    BY <1>3 DEF DeleteFunction
  <2>. QED
    BY <1>1, <2>1, ServeInv DEF TableTyped
<1>. QED
  BY <1>2, <1>3

\* An invocation that fails in the platform is refused, but it ran.
LEMMA InvokeFunctionInv ==
    ASSUME ClientInv, NEW r \in Runs, InvokeFunction(r)
    PROVE  ClientInv'
<1>1. server[r] = "pending" /\ UNCHANGED <<pc, line, request, exit>> /\ TableTyped'
  BY ClientInvSplit DEF InvokeFunction, At, TableTyped
<1>2. CASE Param(r) \in DOMAIN functions
  <2>1. PICK status \in {"success", "error", "timeout", "infra_error"} :
            /\ Did(r, "ran", Param(r), status)
            /\ IF status = "infra_error" THEN Answer(r, 502, "error") ELSE Answer(r, 200, status)
    BY <1>2 DEF InvokeFunction
  <2>. QED
    BY <1>1, <2>1, ServeInv
<1>3. CASE Param(r) \notin DOMAIN functions
  <2>1. Answer(r, 404, Null) /\ UNCHANGED effect
    BY <1>3 DEF InvokeFunction
  <2>. QED
    BY <1>1, <2>1, ServeInv
<1>. QED
  BY <1>2, <1>3

\* The reads.
LEMMA GetInv ==
    ASSUME ClientInv, NEW r \in Runs, GetFunction(r) \/ GetOther(r)
    PROVE  ClientInv'
<1>1. server[r] = "pending" /\ UNCHANGED <<pc, line, request, exit>> /\ TableTyped'
  BY ClientInvSplit DEF GetFunction, GetOther, At, TableTyped
<1>2. CASE GetFunction(r)
  <2>1. \/ Did(r, "shown", Param(r), functions[Param(r)]) /\ Answer(r, 200, Null)
        \/ Answer(r, 404, Null) /\ UNCHANGED effect
    BY <1>2 DEF GetFunction
  <2>. QED
    BY <1>1, <2>1, ServeInv
<1>3. CASE GetOther(r)
  <2>1. (\E status \in {200, 404} : Answer(r, status, Null)) /\ UNCHANGED effect
    BY <1>3 DEF GetOther
  <2>. QED
    BY <1>1, <2>1, ServeInv
<1>. QED
  BY <1>2, <1>3

\* Without a route the answer is 404 or 405.
LEMMA NoRouteStatus ==
    ASSUME NEW method, NEW path, R!Dispatch(method, path).route = 0
    PROVE  R!Dispatch(method, path).status \in {404, 405}
BY DEF R!Dispatch

\* A request without a route changes nothing.
LEMMA NoRouteInv ==
    ASSUME ClientInv, NEW r \in Runs, NoRoute(r)
    PROVE  ClientInv'
<1>1. /\ server[r] = "pending" /\ UNCHANGED <<pc, line, request, exit, effect, functions>>
      /\ Target(r).route = 0 /\ Answer(r, Target(r).status, Null)
      /\ TableTyped' /\ RunFacts(r) /\ Types
  BY ClientInvSplit DEF NoRoute, TableTyped
<1>2. /\ line[r] \in CommandLines[r]
      /\ main(line[r].command, line[r].argv).code = Null
      /\ request[r] = main(line[r].command, line[r].argv).request
  BY <1>1 DEF RunFacts, RunInv
<1>3. request[r] \in Requests
  BY <1>2 DEF Requests, Lines
<1>4. Target(r) = R!Dispatch(request[r].method, request[r].path)
  BY <1>3 DEF Target, Dispatched
<1>5. Target(r).status \in {404, 405}
  BY <1>1, <1>4, NoRouteStatus
<1>. QED
  BY <1>1, <1>5, ServeInv

\* A request that is lost has done nothing.
LEMMA RequestLostInv ==
    ASSUME ClientInv, NEW r \in Runs, RequestLost(r)
    PROVE  ClientInv'
<1>1. /\ server[r] = "pending" /\ server' = [server EXCEPT ![r] = "none"]
      /\ UNCHANGED <<pc, line, request, exit, response, effect, functions>>
      /\ TableTyped' /\ RunFacts(r) /\ Types
  BY ClientInvSplit DEF RequestLost, TableTyped
<1>2. Types' /\ server'[r] = "none" /\ \A q \in Runs \ {r} : Kept(q)
  BY <1>1 DEF Types, Kept
<1>3. RunFacts(r)'
  BY <1>1, <1>2 DEF RunFacts, RunInv
<1>. QED
  BY <1>1, <1>2, <1>3, OneRun

\* A cut body leaves the status.
LEMMA TruncateInv ==
    ASSUME ClientInv, NEW r \in Runs, Truncate(r)
    PROVE  ClientInv'
<1>. DEFINE resp == [response[r] EXCEPT !.parses = FALSE]
<1>1. /\ server[r] = "served" /\ UNCHANGED <<pc, line, request, exit, server, effect, functions>>
      /\ TableTyped' /\ RunFacts(r) /\ Types
  BY ClientInvSplit DEF Truncate, TableTyped
<1>2. response[r] \in Response
  BY <1>1 DEF RunFacts, Types
<1>3. response' = [response EXCEPT ![r] = resp]
  BY <1>1, <1>2 DEF Truncate, Types
<1>4. resp \in Response /\ resp.status = response[r].status
  BY <1>2 DEF Response
<1>5. Null \notin Response
  BY CliAssumption
<1>. HIDE DEF resp
<1>6. Types' /\ response'[r] = resp /\ \A q \in Runs \ {r} : Kept(q)
  BY <1>1, <1>3, <1>4 DEF Types, Kept
<1>7. RunFacts(r)'
  BY <1>1, <1>2, <1>4, <1>5, <1>6 DEF RunFacts, RunInv
<1>. QED
  BY <1>1, <1>6, <1>7, OneRun

\* The run ends with a code.
LEMMA ExitInv ==
    ASSUME ClientInv, NEW r \in Runs, NEW code \in {0, 1, Abort}, pc[r] = "waiting",
           pc' = [pc EXCEPT ![r] = "exited"], exit' = [exit EXCEPT ![r] = code],
           UNCHANGED <<line, request, server, response, effect, functions>>,
           code = Abort => request[r].method = "GET",
           code = 0 => server[r] = "served" /\ response[r].status < 300
    PROVE  ClientInv'
<1>1. TableTyped' /\ RunFacts(r) /\ Types
  BY ClientInvSplit DEF TableTyped
<1>2. Types' /\ pc'[r] = "exited" /\ exit'[r] = code /\ \A q \in Runs \ {r} : Kept(q)
  BY <1>1 DEF Types, Kept
<1>3. code # Null
  BY CliAssumption
<1>4. RunFacts(r)'
  BY <1>1, <1>2, <1>3 DEF RunFacts, RunInv
<1>. QED
  BY <1>1, <1>2, <1>4, OneRun

\* The run ends with a response or without one.
LEMMA ReceiveInv ==
    ASSUME ClientInv, NEW r \in Runs, Receive(r) \/ NoResponse(r)
    PROVE  ClientInv'
<1>1. RunFacts(r) /\ Types
  BY ClientInvSplit
<1>2. CASE Receive(r)
  <2>. DEFINE code == ExitCode(line[r].command, response[r])
  <2>1. /\ pc[r] = "waiting" /\ server[r] = "served"
        /\ pc' = [pc EXCEPT ![r] = "exited"] /\ exit' = [exit EXCEPT ![r] = code]
        /\ UNCHANGED <<line, request, server, response, effect, functions>>
    BY <1>2 DEF Receive
  <2>2. /\ main(line[r].command, line[r].argv).code = Null
        /\ request[r] = main(line[r].command, line[r].argv).request
    BY <1>1, <2>1 DEF RunFacts, RunInv
  <2>3. /\ line[r].command \in Sending
        /\ line[r].command \in Reading => request[r].method = "GET"
    BY <2>2, MainSends
  <2>4. response[r] \in Response
    BY <1>1, <2>1 DEF RunFacts, Types
  <2>5. /\ code \in {0, 1, Abort}
        /\ code = Abort => line[r].command \in Reading
        /\ code = 0 => response[r].status < 300
    BY <2>3, <2>4, ExitCodeSays
  <2>. HIDE DEF code
  <2>. QED
    BY <2>1, <2>3, <2>5, ExitInv
<1>3. CASE NoResponse(r)
  <2>1. /\ pc[r] = "waiting" /\ pc' = [pc EXCEPT ![r] = "exited"] /\ exit' = [exit EXCEPT ![r] = 1]
        /\ UNCHANGED <<line, request, server, response, effect, functions>>
    BY <1>3 DEF NoResponse
  <2>2. 1 # Abort /\ 1 # 0
    BY DEF Abort
  <2>. QED
    BY <2>1, <2>2, ExitInv
<1>. QED
  BY <1>2, <1>3

\* Every step keeps ClientInv.
LEMMA ClientStep ==
    ASSUME ClientInv, [Next]_vars
    PROVE  ClientInv'
<1>1. CASE UNCHANGED vars
  <2>1. Types' /\ TableTyped'
    BY <1>1, ClientInvSplit DEF vars, Types, TableTyped
  <2>2. ASSUME NEW r \in Runs PROVE RunFacts(r)'
    BY <1>1, ClientInvSplit DEF vars, RunFacts, RunInv
  <2>. QED
    BY <2>1, <2>2, ClientInvSplit
<1>. QED
  BY <1>1, StartInv, PostFunctionsInv, DeleteFunctionInv, InvokeFunctionInv, GetInv, NoRouteInv,
     RequestLostInv, TruncateInv, ReceiveInv
  DEF Next

\* It holds at the start.
LEMMA ClientInit ==
    ASSUME Init
    PROVE  ClientInv
<1>1. Types /\ TableTyped
  BY DEF Init, Types, TableTyped
<1>2. \A r \in Runs : RunFacts(r)
  BY CliAssumption DEF Init, RunFacts, RunInv, Abort
<1>. QED
  BY <1>1, <1>2, ClientInvSplit

-----------------------------------------------------------------------------
\* The answers.

\* What a handler knows of the request that it has been given.
LEMMA Routed ==
    ASSUME ClientInv, NEW r \in Runs, NEW method, NEW pattern, At(r, method, pattern)
    PROVE  /\ request[r].method = method
           /\ Target(r).route \in 1..9 /\ RP!routes_[Target(r).route] = R!route(method, pattern)
<1>1. RunFacts(r)
  BY ClientInvSplit
<1>2. server[r] = "pending" /\ Target(r).route # 0 /\ R!routes_[Target(r).route] = R!route(method, pattern)
  BY DEF At
<1>3. Target(r) = R!Dispatch(request[r].method, request[r].path)
  BY <1>1, <1>2 DEF RunFacts, RunInv, Target, Dispatched, Requests, Lines
<1>4. Target(r) = RP!Dispatch(request[r].method, request[r].path) /\ R!routes_ = RP!routes_
  BY <1>3, SameRouting
<1>5. /\ Target(r).route \in RP!Fits(RP!split_path(request[r].path))
      /\ RP!routes_[Target(r).route].method = request[r].method
  BY <1>2, <1>4, RP!DispatchFinds
<1>6. Target(r).route \in 1..9
  BY <1>5, Zenon DEF RP!Fits
<1>7. R!route(method, pattern).method = method
  BY DEF R!route
<1>. QED
  BY <1>2, <1>4, <1>5, <1>6, <1>7

\* What AnswerInv and DeployedAsTyped say of a request that was served.
AsTyped(r) ==
    effect[r].kind = "registered" =>
        LET argv == line[r].argv
            spec == effect[r].what
            data == FlagValue(argv, "data")
        IN  \/ /\ line[r].command = "deploy"
               /\ Meant(r) # Null /\ effect[r].name = Meant(r).text
               /\ spec.image = FlagValue(argv, "image").text
               /\ \A key \in Settings : SettingTyped(argv, key, spec.settings[key])
            \/ /\ line[r].command = "invoke"
               /\ ~Plain(Meant(r).text)
               /\ data # Null /\ data.doc # Null
               /\ effect[r].name = data.doc.name /\ spec.image = data.doc.image
               /\ \A key \in Settings : SettingSent(data.doc, key, spec.settings[key])

Answered(r) == AnswerInv(r) /\ AsTyped(r)

\* The invariant and DeployedAsTyped, by runs.
LEMMA AnsweredSplit ==
    /\ CliInv /\ DeployedAsTyped <=> ClientInv /\ \A r \in Runs : Answered(r)
    /\ CliInv' /\ DeployedAsTyped' <=> ClientInv' /\ \A r \in Runs : Answered(r)'
<1>1. /\ DeployedAsTyped <=> \A r \in Runs : AsTyped(r)
      /\ DeployedAsTyped' <=> \A r \in Runs : AsTyped(r)'
  BY Zenon DEF DeployedAsTyped, AsTyped
<1>. QED
  BY <1>1 DEF CliInv, Answered

\* A run that a step leaves alone.
LEMMA KeptAnswered ==
    ASSUME NEW r \in Runs, Kept(r), Answered(r)
    PROVE  Answered(r)'
<1>1. AnswerInv(r)'
  BY DEF Kept, Answered, AnswerInv, AsMeant, Done, Meant
<1>2. AsTyped(r)'
  BY Zenon DEF Kept, Answered, AsTyped, Meant
<1>. QED
  BY <1>1, <1>2 DEF Answered

\* A run that is not served has nothing to answer for.
LEMMA UnservedAnswered ==
    ASSUME ClientInv', NEW r \in Runs, server'[r] # "served"
    PROVE  Answered(r)'
<1>1. RunFacts(r)'
  BY ClientInvSplit
<1>2. effect'[r] = Nothing /\ ~(exit'[r] = 0 /\ line'[r].command = "invoke")
  BY <1>1 DEF RunFacts, RunInv
<1>3. Nothing.kind # "registered"
  BY DEF Nothing
<1>4. AnswerInv(r)'
  BY <1>2 DEF AnswerInv
<1>5. AsTyped(r)'
  BY <1>2, <1>3 DEF AsTyped
<1>. QED
  BY <1>4, <1>5 DEF Answered

\* The run has not ended with 0 when its request is served.
LEMMA ServedAnswered ==
    ASSUME ClientInv, NEW r \in Runs, server[r] = "pending", NEW status, NEW outcome,
           Answer(r, status, outcome), UNCHANGED <<line, exit>>,
           status < 300 => AsMeant(r)',
           outcome = "success" => effect'[r].kind = "ran" /\ effect'[r].what = "success",
           AsTyped(r)'
    PROVE  Answered(r)'
<1>1. RunFacts(r) /\ Types
  BY ClientInvSplit
<1>2. ~(exit[r] = 0 /\ line[r].command = "invoke")
  BY <1>1 DEF RunFacts
<1>. DEFINE resp == [status |-> status, outcome |-> outcome, parses |-> TRUE]
<1>3. resp.status = status /\ resp.outcome = outcome
  OBVIOUS
<1>4. response' = [response EXCEPT ![r] = resp]
  BY DEF Answer
<1>. HIDE DEF resp
<1>5. response'[r] = resp
  BY <1>1, <1>4 DEF Types
<1>6. AnswerInv(r)'
  BY <1>2, <1>3, <1>5 DEF AnswerInv
<1>. QED
  BY <1>6 DEF Answered

\* A refusal, or an answer that did nothing.
LEMMA RefusedAnswered ==
    ASSUME ClientInv, NEW r \in Runs, server[r] = "pending", NEW status, Answer(r, status, Null),
           UNCHANGED <<line, exit, effect>>, status < 300 => AsMeant(r)'
    PROVE  Answered(r)'
<1>1. RunFacts(r)
  BY ClientInvSplit
<1>2. effect'[r] = Nothing /\ Nothing.kind # "registered"
  BY <1>1 DEF RunFacts, RunInv, Nothing
<1>3. AsTyped(r)'
  BY <1>2 DEF AsTyped
<1>4. Null # "success"
  BY CliAssumption
<1>. QED
  BY <1>3, <1>4, ServedAnswered

\* What serving a request did.
LEMMA DidThis ==
    ASSUME ClientInv, NEW r \in Runs, NEW kind, NEW name, NEW what, Did(r, kind, name, what)
    PROVE  /\ effect'[r].kind = kind /\ effect'[r].name = name /\ effect'[r].what = what
           /\ kind # "registered" => AsTyped(r)'
<1>1. Types
  BY ClientInvSplit
<1>. DEFINE e == [kind |-> kind, name |-> name, what |-> what]
<1>2. e.kind = kind /\ e.name = name /\ e.what = what
  OBVIOUS
<1>3. effect' = [effect EXCEPT ![r] = e]
  BY DEF Did
<1>. HIDE DEF e
<1>4. effect'[r] = e
  BY <1>1, <1>3 DEF Types
<1>5. kind # "registered" => AsTyped(r)'
  BY <1>2, <1>4 DEF AsTyped
<1>. QED
  BY <1>2, <1>4, <1>5

\* Where the request of a command goes that names a function.
LEMMA CommandRoutes ==
    ASSUME ClientInv, NEW r \in Runs, server[r] = "pending"
    PROVE  /\ line[r].command = "deploy" => request[r].method = "POST" /\ Target(r).route = 2
           /\ line[r].command = "delete" => request[r].method = "DELETE"
           /\ line[r].command = "describe" => request[r].method = "GET"
           /\ line[r].command = "invoke" => request[r].method = "POST"
           /\ line[r].command = "delete" /\ Plain(Meant(r).text) => Param(r) = Meant(r).text
           /\ line[r].command = "describe" /\ Plain(Meant(r).text) =>
                Target(r).route = 3 /\ Param(r) = Meant(r).text
           /\ line[r].command = "invoke" /\ Plain(Meant(r).text) =>
                Target(r).route = 5 /\ Param(r) = Meant(r).text
<1>. DEFINE argv == line[r].argv
            q == request[r]
            text == Meant(r).text
            w == text[1]
<1>1. /\ main(line[r].command, argv).code = Null /\ q = main(line[r].command, argv).request
      /\ argv \in Seq(Arguments) /\ Target(r) = RP!Dispatch(q.method, q.path)
  BY PendingSent
<1>2. CASE line[r].command = "deploy"
  <2>1. q.method = "POST" /\ q.path = <<"/", "functions">>
    BY <1>1, <1>2, DeployMeans
  <2>2. RP!Dispatch("POST", <<"/", "functions">>).route = 2
    BY RP!FunctionRoutes
  <2>. QED
    BY <1>1, <1>2, <2>1, <2>2
<1>3. CASE line[r].command \in {"delete", "describe", "invoke"}
  <2>1. /\ FirstWord(argv) \in Arguments
        /\ line[r].command = "delete" => q.method = "DELETE" /\ q.path = Prefix \o text \o <<>>
        /\ line[r].command = "describe" => q.method = "GET" /\ q.path = Prefix \o text \o <<>>
        /\ line[r].command = "invoke" => /\ q.method = "POST"
                                         /\ q.path = Prefix \o text \o <<"/", "invoke">>
    BY <1>1, <1>3, NamedMeans DEF Meant
  <2>2. text \in Seq(STRING)
    BY <2>1 DEF Meant, Arguments
  <2>3. CASE Plain(text)
    <3>1. /\ text = <<w>> /\ w # "/" /\ w # "?"
          /\ Prefix \o text \o <<>> = <<"/", "functions", "/", w>>
          /\ Prefix \o text \o <<"/", "invoke">> = <<"/", "functions", "/", w, "/", "invoke">>
      BY <2>2, <2>3, PlainPath DEF Plain
    <3>2. /\ RP!Dispatch("GET", <<"/", "functions", "/", w>>).route = 3
          /\ RP!Dispatch("GET", <<"/", "functions", "/", w>>).params[1] = w
          /\ RP!Dispatch("DELETE", <<"/", "functions", "/", w>>).params[1] = w
          /\ RP!Dispatch("POST", <<"/", "functions", "/", w, "/", "invoke">>).route = 5
          /\ RP!Dispatch("POST", <<"/", "functions", "/", w, "/", "invoke">>).params[1] = w
      BY <3>1, RP!FunctionRoutes
    <3>3. Param(r) = <<Target(r).params[1]>>
      BY DEF Param
    <3>. HIDE DEF text, w, q
    <3>4. CASE line[r].command = "delete"
      <4>1. Target(r).params[1] = w
        BY <1>1, <2>1, <3>1, <3>2, <3>4, Zenon
      <4>. QED
        BY <2>1, <3>1, <3>3, <3>4, <4>1 DEF text, q
    <3>5. CASE line[r].command = "describe"
      <4>1. Target(r).params[1] = w /\ Target(r).route = 3
        BY <1>1, <2>1, <3>1, <3>2, <3>5, Zenon
      <4>. QED
        BY <2>1, <3>1, <3>3, <3>5, <4>1 DEF text, q
    <3>6. CASE line[r].command = "invoke"
      <4>1. Target(r).params[1] = w /\ Target(r).route = 5
        BY <1>1, <2>1, <3>1, <3>2, <3>6, Zenon
      <4>. QED
        BY <2>1, <3>1, <3>3, <3>6, <4>1 DEF text, q
    <3>. QED
      BY <1>3, <3>4, <3>5, <3>6
  <2>4. CASE ~Plain(text)
    <3>. HIDE DEF q, text
    <3>1. /\ line[r].command = "delete" => q.method = "DELETE"
          /\ line[r].command = "describe" => q.method = "GET"
          /\ line[r].command = "invoke" => q.method = "POST"
      BY <2>1
    <3>. QED
      BY <1>3, <2>4, <3>1 DEF q, text
  <2>. QED
    BY <2>3, <2>4
<1>. QED
  BY <1>2, <1>3

\* Serving the request of a run leaves the others alone.
LEMMA ServingKeeps ==
    ASSUME ClientInv, NEW r \in Runs, NEW status, NEW outcome, Answer(r, status, outcome),
           UNCHANGED effect \/ (\E kind, name, what : Did(r, kind, name, what)),
           UNCHANGED <<pc, line, request, exit>>, NEW q \in Runs \ {r}
    PROVE  Kept(q)
<1>1. Types
  BY ClientInvSplit
<1>. QED
  BY <1>1 DEF Types, Answer, Did, Kept

\* What --data describes is registered as it is described.
LEMMA SentAsDescribed ==
    ASSUME NEW doc, NEW key \in Settings
    PROVE  SettingSent(doc, key, Registered(doc, key))
<1>1. CASE doc.settings[key] # Null
  BY <1>1, StoredExact DEF SettingSent, Registered
<1>2. CASE doc.settings[key] = Null
  BY <1>2 DEF SettingSent, Registered
<1>. QED
  BY <1>1, <1>2

\* deploy registers what its command line says, an invocation what its --data
\* says, and only if its name has cut the path.
LEMMA PostFunctionsAnswered ==
    ASSUME ClientInv, NEW r \in Runs, PostFunctions(r)
    PROVE  Answered(r)' /\ \A q \in Runs \ {r} : Kept(q)
<1>. DEFINE argv == line[r].argv
            command == line[r].command
            body == request[r].body
            data == FlagValue(argv, "data")
<1>1. /\ At(r, "POST", <<"/", "functions">>) /\ server[r] = "pending"
      /\ UNCHANGED <<pc, line, request, exit>>
  BY PostFunctionsDoes DEF At
<1>2. CASE body = Null
  <2>1. Answer(r, 400, Null) /\ UNCHANGED effect
    BY <1>2, PostFunctionsDoes
  <2>. QED
    BY <1>1, <2>1, RefusedAnswered, ServingKeeps
<1>3. CASE body # Null
  <2>1. Did(r, "registered", body.name, SpecOf(body)) /\ Answer(r, 201, Null)
    BY <1>3, PostFunctionsDoes
  <2>2. /\ effect'[r].kind = "registered" /\ effect'[r].name = body.name
        /\ effect'[r].what = SpecOf(body)
        /\ line'[r] = line[r]
    BY <1>1, <2>1, DidThis
  <2>3. /\ main(command, argv).code = Null /\ request[r] = main(command, argv).request
        /\ argv \in Seq(Arguments)
    BY <1>1, PendingSent
  <2>4. /\ command \in {"deploy", "invoke"}
        /\ command = "invoke" => data # Null /\ data.doc # Null /\ body = data.doc
    BY <1>3, <2>3, BodySent
  <2>5. AsTyped(r)' /\ AsMeant(r)'
    <3>1. CASE command = "deploy"
      <4>1. /\ Meant(r) # Null /\ body.name = Meant(r).text
            /\ body.image = FlagValue(argv, "image").text
        BY <2>3, <3>1, DeployMeans DEF Meant
      <4>2. \A key \in Settings : SettingTyped(argv, key, SpecOf(body).settings[key])
        BY <2>3, <3>1, DeployAsTyped, SpecFields
      <4>3. SpecOf(body).image = body.image
        BY SpecFields
      <4>4. AsTyped(r)'
        BY <2>2, <3>1, <4>1, <4>2, <4>3, Zenon DEF AsTyped, Meant
      <4>5. AsMeant(r)'
        BY <2>2, <3>1, <4>1 DEF AsMeant, Done, Meant
      <4>. QED
        BY <4>4, <4>5
    <3>2. CASE command = "invoke"
      <4>1. ~Plain(Meant(r).text)
        <5>1. Target(r).route \in 1..9 /\ RP!routes_[Target(r).route] = RP!routes_[2] /\ 2 \in 1..9
          BY <1>1, Routed, HandlerRoutes, SameRouting
        <5>2. Target(r).route = 2
          BY <5>1, RP!RoutesDiffer
        <5>. QED
          BY <1>1, <3>2, <5>2, CommandRoutes
      <4>2. \A key \in Settings : SettingSent(data.doc, key, SpecOf(body).settings[key])
        BY <2>4, <3>2, SentAsDescribed, SpecFields
      <4>3. body = data.doc /\ SpecOf(body).image = data.doc.image
        BY <2>4, <3>2, SpecFields
      <4>4. AsTyped(r)'
        BY <2>2, <2>4, <3>2, <4>1, <4>2, <4>3, Zenon DEF AsTyped, Meant
      <4>5. AsMeant(r)'
        BY <2>2, <3>2, <4>1 DEF AsMeant, Meant
      <4>. QED
        BY <4>4, <4>5
    <3>. QED
      BY <2>4, <3>1, <3>2
  <2>6. Null # "success"
    BY CliAssumption
  <2>. QED
    BY <1>1, <2>1, <2>5, <2>6, ServedAnswered, ServingKeeps
<1>. QED
  BY <1>2, <1>3

\* Only delete sends the method, and the name is the one it was given.
LEMMA DeleteFunctionAnswered ==
    ASSUME ClientInv, NEW r \in Runs, DeleteFunction(r)
    PROVE  Answered(r)' /\ \A q \in Runs \ {r} : Kept(q)
<1>1. server[r] = "pending" /\ UNCHANGED <<pc, line, request, exit>> /\ request[r].method = "DELETE"
  BY Routed DEF DeleteFunction, At
<1>2. CASE Param(r) \in DOMAIN functions
  <2>1. Did(r, "removed", Param(r), Null) /\ Answer(r, 204, Null)
    BY <1>2 DEF DeleteFunction
  <2>2. effect'[r].kind = "removed" /\ effect'[r].name = Param(r) /\ AsTyped(r)'
    BY <2>1, DidThis
  <2>3. AsMeant(r)'
    BY <1>1, <2>2, CommandRoutes DEF AsMeant, Done, Meant
  <2>4. Null # "success"
    BY CliAssumption
  <2>. QED
    BY <1>1, <2>1, <2>2, <2>3, <2>4, ServedAnswered, ServingKeeps
<1>3. CASE Param(r) \notin DOMAIN functions
  <2>1. Answer(r, 404, Null) /\ UNCHANGED effect
    BY <1>3 DEF DeleteFunction
  <2>. QED
    BY <1>1, <2>1, RefusedAnswered, ServingKeeps
<1>. QED
  BY <1>2, <1>3

\* deploy goes to another route, and what ran is what invoke was given.
LEMMA InvokeFunctionAnswered ==
    ASSUME ClientInv, NEW r \in Runs, InvokeFunction(r)
    PROVE  Answered(r)' /\ \A q \in Runs \ {r} : Kept(q)
<1>1. /\ server[r] = "pending" /\ UNCHANGED <<pc, line, request, exit>> /\ request[r].method = "POST"
      /\ Target(r).route \in 1..9
      /\ RP!routes_[Target(r).route] = R!route("POST", Prefix \o <<R!Param, "/", "invoke">>)
  BY Routed DEF InvokeFunction, At
<1>2. Target(r).route = 5
  <2>1. RP!routes_[Target(r).route] = RP!routes_[5] /\ 5 \in 1..9
    BY <1>1, HandlerRoutes, SameRouting
  <2>. QED
    BY <1>1, <2>1, RP!RoutesDiffer
<1>3. CASE Param(r) \in DOMAIN functions
  <2>1. PICK status \in {"success", "error", "timeout", "infra_error"} :
            /\ Did(r, "ran", Param(r), status)
            /\ IF status = "infra_error" THEN Answer(r, 502, "error") ELSE Answer(r, 200, status)
    BY <1>3 DEF InvokeFunction
  <2>2. /\ effect'[r].kind = "ran" /\ effect'[r].name = Param(r) /\ effect'[r].what = status
        /\ AsTyped(r)'
    BY <2>1, DidThis
  <2>3. AsMeant(r)'
    BY <1>1, <1>2, <2>2, CommandRoutes DEF AsMeant, Done, Meant
  <2>. QED
    BY <1>1, <2>1, <2>2, <2>3, ServedAnswered, ServingKeeps
<1>4. CASE Param(r) \notin DOMAIN functions
  <2>1. Answer(r, 404, Null) /\ UNCHANGED effect
    BY <1>4 DEF InvokeFunction
  <2>. QED
    BY <1>1, <2>1, RefusedAnswered, ServingKeeps
<1>. QED
  BY <1>3, <1>4

\* The reads: what describe shows is the function it was given.
LEMMA GetFunctionAnswered ==
    ASSUME ClientInv, NEW r \in Runs, GetFunction(r)
    PROVE  Answered(r)' /\ \A q \in Runs \ {r} : Kept(q)
<1>1. server[r] = "pending" /\ UNCHANGED <<pc, line, request, exit>> /\ request[r].method = "GET"
  BY Routed DEF GetFunction, At
<1>2. CASE Param(r) \in DOMAIN functions
  <2>1. Did(r, "shown", Param(r), functions[Param(r)]) /\ Answer(r, 200, Null)
    BY <1>2 DEF GetFunction
  <2>2. effect'[r].kind = "shown" /\ effect'[r].name = Param(r) /\ AsTyped(r)'
    BY <2>1, DidThis
  <2>3. AsMeant(r)'
    BY <1>1, <2>2, CommandRoutes DEF AsMeant, Done, Meant
  <2>4. Null # "success"
    BY CliAssumption
  <2>. QED
    BY <1>1, <2>1, <2>2, <2>3, <2>4, ServedAnswered, ServingKeeps
<1>3. CASE Param(r) \notin DOMAIN functions
  <2>1. Answer(r, 404, Null) /\ UNCHANGED effect
    BY <1>3 DEF GetFunction
  <2>. QED
    BY <1>1, <2>1, RefusedAnswered, ServingKeeps
<1>. QED
  BY <1>2, <1>3

\* A name without a slash never makes describe ask for something else.
LEMMA GetOtherAnswered ==
    ASSUME ClientInv, NEW r \in Runs, GetOther(r)
    PROVE  Answered(r)' /\ \A q \in Runs \ {r} : Kept(q)
<1>1. PICK pattern, status :
        /\ At(r, "GET", pattern) /\ Answer(r, status, Null)
        /\ R!route("GET", pattern) \in {R!routes_[6], R!routes_[7], R!routes_[9]}
  BY HandlerRoutes DEF GetOther
<1>2. /\ server[r] = "pending" /\ UNCHANGED <<pc, line, request, exit, effect>>
      /\ request[r].method = "GET" /\ Target(r).route \in 1..9
      /\ RP!routes_[Target(r).route] = R!route("GET", pattern)
  BY <1>1, Routed DEF GetOther, At
<1>3. Target(r).route \in {6, 7, 9}
  <2>1. \E k \in {6, 7, 9} : RP!routes_[Target(r).route] = RP!routes_[k]
    BY <1>1, <1>2, SameRouting
  <2>2. \A k \in {6, 7, 9} : k \in 1..9
    OBVIOUS
  <2>. QED
    BY <1>2, <2>1, <2>2, RP!RoutesDiffer
<1>4. Target(r).route # 3
  BY <1>3
<1>5. AsMeant(r)'
  BY <1>2, <1>4, CommandRoutes DEF AsMeant, Meant
<1>. QED
  BY <1>1, <1>2, <1>5, RefusedAnswered, ServingKeeps

\* Without a route there is only a refusal.
LEMMA NoRouteAnswered ==
    ASSUME ClientInv, NEW r \in Runs, NoRoute(r)
    PROVE  Answered(r)' /\ \A q \in Runs \ {r} : Kept(q)
<1>1. /\ server[r] = "pending" /\ UNCHANGED <<pc, line, request, exit, effect>>
      /\ Target(r).route = 0 /\ Answer(r, Target(r).status, Null)
  BY DEF NoRoute
<1>2. Target(r) = R!Dispatch(request[r].method, request[r].path)
  BY <1>1, PendingSent, SameRouting
<1>3. Target(r).status \in {404, 405}
  BY <1>1, <1>2, NoRouteStatus
<1>. QED
  BY <1>1, <1>3, RefusedAnswered, ServingKeeps

\* The steps of a run that serve nothing.
LEMMA UnservedSteps ==
    ASSUME ClientInv, ClientInv', NEW r \in Runs,
           (\E l \in CommandLines[r] : Start(r, l)) \/ RequestLost(r)
    PROVE  Answered(r)' /\ \A q \in Runs \ {r} : Kept(q)
<1>1. RunFacts(r) /\ Types
  BY ClientInvSplit
<1>2. CASE \E l \in CommandLines[r] : Start(r, l)
  <2>1. PICK l : Start(r, l)
    BY <1>2
  <2>2. PICK code :
          /\ line' = [line EXCEPT ![r] = l] /\ UNCHANGED <<response, effect>>
          /\ pc' = [pc EXCEPT ![r] = "exited"] \/ pc' = [pc EXCEPT ![r] = "waiting"]
          /\ exit' = [exit EXCEPT ![r] = code] \/ UNCHANGED exit
          /\ request' = [request EXCEPT ![r] = main(l.command, l.argv).request] \/ UNCHANGED request
          /\ server' = [server EXCEPT ![r] = "pending"] \/ UNCHANGED server
    BY <2>1, Zenon DEF Start
  <2>3. server[r] # "served"
    BY <1>1, <2>1 DEF Start, RunFacts, RunInv
  <2>4. server'[r] # "served"
    BY <1>1, <2>2, <2>3 DEF Types
  <2>5. ASSUME NEW q \in Runs \ {r} PROVE Kept(q)
    BY <1>1, <2>2 DEF Types, Kept
  <2>. QED
    BY <2>4, <2>5, UnservedAnswered
<1>3. CASE RequestLost(r)
  <2>1. server'[r] # "served" /\ \A q \in Runs \ {r} : Kept(q)
    BY <1>1, <1>3 DEF RequestLost, Types, Kept
  <2>. QED
    BY <2>1, UnservedAnswered
<1>. QED
  BY <1>2, <1>3

\* A cut body leaves the status and the outcome.
LEMMA TruncateAnswered ==
    ASSUME ClientInv, NEW r \in Runs, Truncate(r), Answered(r)
    PROVE  Answered(r)' /\ \A q \in Runs \ {r} : Kept(q)
<1>. DEFINE resp == [response[r] EXCEPT !.parses = FALSE]
<1>1. /\ UNCHANGED <<pc, line, request, exit, server, effect>> /\ server[r] = "served"
      /\ RunFacts(r) /\ Types
  BY ClientInvSplit DEF Truncate
<1>2. response[r] \in Response
  BY <1>1 DEF RunFacts, Types
<1>3. response' = [response EXCEPT ![r] = resp]
  BY <1>1, <1>2 DEF Truncate, Types
<1>4. resp.status = response[r].status /\ resp.outcome = response[r].outcome
  BY <1>2 DEF Response
<1>. HIDE DEF resp
<1>5. response'[r] = resp /\ \A q \in Runs \ {r} : Kept(q)
  BY <1>1, <1>3 DEF Types, Kept
<1>6. AnswerInv(r)'
  BY <1>1, <1>4, <1>5 DEF Answered, AnswerInv, AsMeant, Done, Meant
<1>7. AsTyped(r)'
  BY <1>1, Zenon DEF Answered, AsTyped, Meant
<1>. QED
  BY <1>5, <1>6, <1>7 DEF Answered

\* An invocation ends with 0 only if its outcome is a success.
LEMMA InvokeExit ==
    ASSUME NEW resp, ExitCode("invoke", resp) = 0
    PROVE  resp.outcome = "success"
BY DEF ExitCode

\* The end of a run.
LEMMA ExitAnswered ==
    ASSUME ClientInv, NEW r \in Runs, Receive(r) \/ NoResponse(r), Answered(r)
    PROVE  Answered(r)' /\ \A q \in Runs \ {r} : Kept(q)
<1>1. Types
  BY ClientInvSplit
<1>2. PICK code : /\ pc' = [pc EXCEPT ![r] = "exited"] /\ exit' = [exit EXCEPT ![r] = code]
                  /\ UNCHANGED <<line, request, server, response, effect>>
                  /\ code = 1 \/ code = ExitCode(line[r].command, response[r])
  BY DEF Receive, NoResponse
<1>3. exit'[r] = code /\ \A q \in Runs \ {r} : Kept(q)
  BY <1>1, <1>2 DEF Types, Kept
<1>4. code = 0 /\ line[r].command = "invoke" => response[r].outcome = "success"
  BY <1>2, InvokeExit
<1>5. AnswerInv(r)'
  BY <1>2, <1>3, <1>4 DEF Answered, AnswerInv, AsMeant, Done, Meant
<1>6. AsTyped(r)'
  BY <1>2, Zenon DEF Answered, AsTyped, Meant
<1>. QED
  BY <1>3, <1>5, <1>6 DEF Answered

-----------------------------------------------------------------------------
\* The theorems.

\* Every step keeps what the runs were answered.
LEMMA AnswersKept ==
    ASSUME ClientInv, \A r \in Runs : Answered(r), [Next]_vars
    PROVE  \A r \in Runs : Answered(r)'
<1>1. CASE UNCHANGED vars
  <2>1. ASSUME NEW r \in Runs PROVE Kept(r)
    BY <1>1 DEF vars, Kept
  <2>. QED
    BY <2>1, KeptAnswered
<1>2. CASE Next
  <2>1. ClientInv'
    BY ClientStep
  <2>2. PICK r \in Runs :
            \/ \E l \in CommandLines[r] : Start(r, l)
            \/ PostFunctions(r) \/ DeleteFunction(r) \/ InvokeFunction(r)
            \/ GetFunction(r) \/ GetOther(r) \/ NoRoute(r) \/ RequestLost(r)
            \/ Truncate(r) \/ Receive(r) \/ NoResponse(r)
    BY <1>2 DEF Next
  <2>3. Answered(r)' /\ \A q \in Runs \ {r} : Kept(q)
    BY <2>1, <2>2, UnservedSteps, PostFunctionsAnswered, DeleteFunctionAnswered,
       InvokeFunctionAnswered, GetFunctionAnswered, GetOtherAnswered, NoRouteAnswered,
       TruncateAnswered, ExitAnswered
  <2>4. \A q \in Runs \ {r} : Answered(q)'
    BY <2>3, KeptAnswered
  <2>. QED
    BY <2>3, <2>4
<1>. QED
  BY <1>1, <1>2

\* The two parts of the invariant, together.
LEMMA BothInvariant == Spec => [](CliInv /\ DeployedAsTyped)
<1>1. Init => CliInv /\ DeployedAsTyped
  <2>. SUFFICES ASSUME Init PROVE CliInv /\ DeployedAsTyped
    OBVIOUS
  <2>1. ClientInv
    BY ClientInit
  <2>2. ASSUME NEW r \in Runs PROVE Answered(r)
    <3>1. server[r] = "none" /\ exit[r] = Null /\ effect[r] = Nothing
      BY DEF Init
    <3>2. Null # 0 /\ Nothing.kind # "registered"
      BY CliAssumption DEF Nothing
    <3>3. AnswerInv(r)
      BY <3>1, <3>2 DEF AnswerInv
    <3>4. AsTyped(r)
      BY <3>1, <3>2 DEF AsTyped
    <3>. QED
      BY <3>3, <3>4 DEF Answered
  <2>. QED
    BY <2>1, <2>2, AnsweredSplit
<1>2. (CliInv /\ DeployedAsTyped) /\ [Next]_vars => (CliInv /\ DeployedAsTyped)'
  BY ClientStep, AnswersKept, AnsweredSplit
<1>. QED
  BY <1>1, <1>2, PTL DEF Spec

\* The inductive invariant: settings are ints, requests are what the command
\* lines ask for, and what was answered is what was done.
THEOREM CliInvariant == Spec => []CliInv
BY BothInvariant, PTL

\* What deploy registers is what was typed: parse_args, parse_duration_ms and
\* parse_memory_mb read every command line, of any length, the way it is meant.
THEOREM DeploysAsTyped == Spec => []DeployedAsTyped
BY BothInvariant, PTL

\* Exit code 0 means that the command was carried out on the function it
\* names, and a refusal that nothing was changed.
THEOREM ExitsTruthful == Spec => []ExitTruthful
<1>1. CliInv => ExitTruthful
  <2>. SUFFICES ASSUME CliInv, NEW r \in Runs, exit[r] = 0
                PROVE  /\ AsMeant(r)
                       /\ line[r].command = "invoke" => effect[r].kind = "ran" /\ effect[r].what = "success"
    BY DEF ExitTruthful, CliInv, ClientInv
  <2>1. RunFacts(r) /\ AnswerInv(r)
    BY ClientInvSplit DEF CliInv
  <2>2. CASE line[r].command = "logs"
    BY <2>2 DEF AsMeant
  <2>3. CASE line[r].command # "logs"
    BY <2>1, <2>3 DEF RunFacts, AnswerInv
  <2>. QED
    BY <2>2, <2>3
<1>. QED
  BY <1>1, CliInvariant, PTL

\* An exception never follows a request that changes something: what can throw
\* comes before the request or after one that only reads.
THEOREM AbortsAreHarmless == Spec => []AbortChangesNothing
<1>1. CliInv => AbortChangesNothing
  BY DEF CliInv, ClientInv
<1>. QED
  BY <1>1, CliInvariant, PTL
=============================================================================
