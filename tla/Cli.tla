-------------------------------- MODULE Cli --------------------------------
(***************************************************************************)
(* cloudfn (cli/src/main.cpp): runs of the command line client, one after  *)
(* another or side by side, against one control plane.                     *)
(*                                                                         *)
(* A run reads its arguments, sends at most one request and turns the      *)
(* response into an exit code.  The connection may break at any moment:    *)
(* the run then ends while its request may still be served, also later.    *)
(* A response may also break off after its headers; the client returns it  *)
(* as ok.  The handlers (control-plane/src/main.cpp) appear by their       *)
(* effect on the functions table; ControlPlane has their inner steps.      *)
(***************************************************************************)
EXTENDS Integers, FiniteSets, SequencesExt

CONSTANTS Runs,         \* runs of the client
          CommandLines, \* what each run may be called with: command and argv
          IntMax,       \* the largest int
          IdleTimeoutEnv, \* what stol reads from the control plane's
                        \* FAAS_IDLE_TIMEOUT_MS, Null if unset or no number
          Null

\* The flags that deploy converts; cpu is kept in tenths.
Settings == {"timeout", "memory", "cpu", "concurrency", "idle-timeout"}

\* The body of a request as JSON: a function, with Null for the settings that
\* are left out.  Everything else, JSON or not, is Null itself; a field of
\* another type makes the handler throw (RequestLost).
Documents == [name : Seq(STRING), image : Seq(STRING), settings : [Settings -> Int \cup {Null}]]

\* An argument: its flag key if it begins with "--"; its text as tokens of a
\* path; the numbers that stoi and, in tenths, stod read at its beginning; the
\* unit it ends with; and the document it is.
Arg(key, text, num, real, unit, doc) ==
    [key |-> key, text |-> text, num |-> num, real |-> real, unit |-> unit, doc |-> doc]

Arguments == [key : STRING \cup {Null}, text : Seq(STRING), num : Int \cup {Null},
              real : Int \cup {Null}, unit : STRING, doc : Documents \cup {Null}]

Empty == Arg(Null, <<>>, Null, Null, "", Null)

\* The exit code that an uncaught exception gives.
Abort == 134

Commands == {"deploy", "describe", "invoke", "invocation", "logs", "delete", "runtimes"}

\* outcome is the "status" field of an invocation's body; parses is FALSE once
\* the body has broken off.
Statuses == {200, 201, 204, 400, 404, 405, 502}
Outcomes == {"success", "error", "timeout", Null}
Response == [status : Statuses, outcome : Outcomes, parses : BOOLEAN]

\* The defaults are ints, and Null is no flag, argument, document, line, code,
\* outcome or response.
ASSUME CliAssumption ==
    /\ IntMax \in Nat /\ IntMax >= 60000
    /\ \A r \in Runs : Null \notin CommandLines[r]
    /\ \A r \in Runs : \A l \in CommandLines[r] : l.argv \in Seq(Arguments)
    /\ IdleTimeoutEnv \in Int \cup {Null}
    /\ Null \notin Settings \cup {"image", "data", "success"}
    /\ Null \notin Arguments \cup {Empty} \cup Documents
    /\ Null \notin {0, 1, Abort}
    /\ Null \notin Response

VARIABLES
    pc,        \* where each run is
    line,      \* its command line
    request,   \* the request it sent, Null if none
    exit,      \* its exit code, Null before
    server,    \* what became of its request: "none", "pending" or "served"
    response,  \* the response on its way to the run
    effect,    \* history: what serving the request did
    functions  \* the functions table: name -> spec, for the names registered

vars == <<pc, line, request, exit, server, response, effect, functions>>

R == INSTANCE Routing WITH Words <- {}, MaxSegments <- 0

Nothing == [kind |-> "none"]

Init ==
    /\ pc = [r \in Runs |-> "out"]
    /\ line = [r \in Runs |-> Null]
    /\ request = [r \in Runs |-> Null]
    /\ exit = [r \in Runs |-> Null]
    /\ server = [r \in Runs |-> "none"]
    /\ response = [r \in Runs |-> Null]
    /\ effect = [r \in Runs |-> Nothing]
    /\ functions = <<>>

-----------------------------------------------------------------------------
\* Arguments.

Set(flags, key, arg) ==
    [k \in DOMAIN flags \cup {key} |-> IF k = key THEN arg ELSE flags[k]]

\* A flag is "" until the next argument, whatever it is, becomes its value.
Read_FlagEndsValue(args, arg) ==
    IF arg.key # Null
    THEN [args EXCEPT !.flags = Set(@, arg.key, Empty), !.pending = arg.key]
    ELSE IF args.pending # Null
         THEN [args EXCEPT !.flags = Set(@, args.pending, arg), !.pending = Null]
         ELSE [args EXCEPT !.positional = Append(@, arg)]

Read(args, arg) ==
    IF args.pending # Null
    THEN [args EXCEPT !.flags = Set(@, args.pending, arg), !.pending = Null]
    ELSE IF arg.key # Null
         THEN [args EXCEPT !.flags = Set(@, arg.key, Empty), !.pending = arg.key]
         ELSE [args EXCEPT !.positional = Append(@, arg)]

parse_args(argv) ==
    LET parsed[i \in 0..Len(argv)] ==
            IF i = 0 THEN [positional |-> <<>>, flags |-> <<>>, pending |-> Null]
            ELSE Read(parsed[i - 1], argv[i])
    IN  parsed[Len(argv)]

Ints == (-IntMax - 1)..IntMax

\* std::stoi: the number at the beginning; Null when it throws.
stoi(arg) == IF arg.num # Null /\ arg.num \in Ints THEN arg.num ELSE Null

Times_Wide(n, factor) == IF n = Null THEN Null ELSE n * factor

\* The product with a factor, in an int, as the build computes it.
Times(n, factor) ==
    LET size == 2 * (IntMax + 1)
    IN  IF n = Null THEN Null ELSE ((n * factor + IntMax + 1) % size) - (IntMax + 1)

parse_duration_ms(arg, fallback) ==
    LET factor == IF arg.unit = "s" THEN 1000 ELSE IF arg.unit = "m" THEN 60000 ELSE 1
    IN  IF arg = Empty THEN fallback ELSE Times(stoi(arg), factor)

parse_memory_mb(arg, fallback) ==
    IF arg = Empty THEN fallback ELSE Times(stoi(arg), IF arg.unit = "Gi" THEN 1024 ELSE 1)

Convert(key, arg) ==
    CASE key = "timeout"      -> parse_duration_ms(arg, 5000)
      [] key = "memory"       -> parse_memory_mb(arg, 256)
      [] key = "cpu"          -> arg.real
      [] key = "concurrency"  -> stoi(arg)
      [] key = "idle-timeout" -> parse_duration_ms(arg, 60000)

-----------------------------------------------------------------------------
\* The commands up to the request: what they send, or how they end without.

Ends(code) == [code |-> code, request |-> Null]

Sends(method, path, body) ==
    [code |-> Null, request |-> [method |-> method, path |-> path, body |-> body]]

cmd_deploy(args) ==
    LET given     == DOMAIN args.flags \cap Settings
        converted == [key \in Settings |->
                        IF key \in given THEN Convert(key, args.flags[key]) ELSE Null]
    IN  IF \/ args.positional = <<>>
           \/ "image" \notin DOMAIN args.flags
           \/ args.flags["image"] = Empty
        THEN Ends(1)
        ELSE IF \E key \in given : converted[key] = Null
        THEN Ends(Abort)
        ELSE Sends("POST", <<"/", "functions">>,
                   [name |-> args.positional[1].text, image |-> args.flags["image"].text,
                    settings |-> converted])

\* The commands that put their first argument into a path.
Named(args, method, before, after, body) ==
    IF args.positional = <<>> THEN Ends(1)
    ELSE Sends(method, before \o args.positional[1].text \o after, body)

Prefix == <<"/", "functions", "/">>

Data(args) == IF "data" \in DOMAIN args.flags THEN args.flags["data"].doc ELSE Null

main(command, argv) ==
    LET args == parse_args(argv)
    IN  CASE command = "deploy"     -> cmd_deploy(args)
          [] command = "describe"   -> Named(args, "GET", Prefix, <<>>, Null)
          [] command = "invoke"     -> Named(args, "POST", Prefix, <<"/", "invoke">>, Data(args))
          [] command = "invocation" -> Named(args, "GET", <<"/", "invocations", "/">>, <<>>, Null)
          [] command = "logs"       -> Ends(IF args.positional = <<>> THEN 1 ELSE 0)
          [] command = "delete"     -> Named(args, "DELETE", Prefix, <<>>, Null)
          [] command = "runtimes"   -> Sends("GET", <<"/", "runtimes">>, Null)
          [] OTHER                  -> Ends(1)

\* make_client throws when FAAS_API has no port.
Start(r, l) ==
    /\ pc[r] = "out"
    /\ line' = [line EXCEPT ![r] = l]
    /\ \E endpoint \in BOOLEAN :
        LET begun == main(l.command, l.argv)
            code  == IF begun.code = Null /\ ~endpoint THEN Abort ELSE begun.code
        IN  IF code # Null
            THEN /\ pc' = [pc EXCEPT ![r] = "exited"]
                 /\ exit' = [exit EXCEPT ![r] = code]
                 /\ UNCHANGED <<request, server>>
            ELSE /\ pc' = [pc EXCEPT ![r] = "waiting"]
                 /\ request' = [request EXCEPT ![r] = begun.request]
                 /\ server' = [server EXCEPT ![r] = "pending"]
                 /\ UNCHANGED exit
    /\ UNCHANGED <<response, effect, functions>>

-----------------------------------------------------------------------------
\* The control plane.

Lines == UNION {CommandLines[r] : r \in Runs}

\* The requests of the instance, and where they go.
Requests == {main(l.command, l.argv).request :
                l \in {l \in Lines : main(l.command, l.argv).code = Null}}

Dispatched == [q \in {<<q.method, q.path>> : q \in Requests} |-> R!Dispatch(q[1], q[2])]

Target(r) == Dispatched[<<request[r].method, request[r].path>>]

\* The name that the request's path gives.
Param(r) == <<Target(r).params[1]>>

At(r, method, pattern) ==
    /\ server[r] = "pending"
    /\ Target(r).route # 0
    /\ R!routes_[Target(r).route] = R!route(method, pattern)

Answer(r, status, outcome) ==
    /\ server' = [server EXCEPT ![r] = "served"]
    /\ response' = [response EXCEPT ![r] = [status |-> status, outcome |-> outcome, parses |-> TRUE]]

Did(r, kind, name, what) ==
    effect' = [effect EXCEPT ![r] = [kind |-> kind, name |-> name, what |-> what]]

default_idle_timeout_ms == IF IdleTimeoutEnv = Null THEN 60000 ELSE IdleTimeoutEnv

Default(key) ==
    CASE key = "timeout"      -> 5000
      [] key = "memory"       -> 256
      [] key = "cpu"          -> 5
      [] key = "concurrency"  -> 1
      [] key = "idle-timeout" -> default_idle_timeout_ms

\* The value of a setting in the spec: a long, a double or an int.
Stored(key, value) == IF key \in {"cpu", "idle-timeout"} THEN value ELSE Times(value, 1)

\* Also the --data of an invocation ends up here, if a "?" cuts its path.  The
\* status field of the 201 is the function's, never "success".
PostFunctions(r) ==
    LET body == request[r].body
        spec == [image |-> body.image,
                 settings |-> [key \in Settings |->
                    IF body.settings[key] # Null THEN Stored(key, body.settings[key])
                    ELSE Default(key)]]
    IN  /\ At(r, "POST", <<"/", "functions">>)
        /\ IF body = Null
           THEN Answer(r, 400, Null) /\ UNCHANGED <<effect, functions>>
           ELSE /\ functions' = [f \in DOMAIN functions \cup {body.name} |->
                                    IF f = body.name THEN spec ELSE functions[f]]
                /\ Did(r, "registered", body.name, spec)
                /\ Answer(r, 201, Null)
        /\ UNCHANGED <<pc, line, request, exit>>

DeleteFunction(r) ==
    /\ At(r, "DELETE", Prefix \o <<R!Param>>)
    /\ IF Param(r) \in DOMAIN functions
       THEN /\ functions' = [f \in DOMAIN functions \ {Param(r)} |-> functions[f]]
            /\ Did(r, "removed", Param(r), Null)
            /\ Answer(r, 204, Null)
       ELSE Answer(r, 404, Null) /\ UNCHANGED <<effect, functions>>
    /\ UNCHANGED <<pc, line, request, exit>>

InvokeFunction(r) ==
    /\ At(r, "POST", Prefix \o <<R!Param, "/", "invoke">>)
    /\ IF Param(r) \in DOMAIN functions
       THEN \E status \in {"success", "error", "timeout", "infra_error"} :
                /\ Did(r, "ran", Param(r), status)
                /\ IF status = "infra_error" THEN Answer(r, 502, "error")
                                             ELSE Answer(r, 200, status)
       ELSE Answer(r, 404, Null) /\ UNCHANGED effect
    /\ UNCHANGED <<pc, line, request, exit, functions>>

GetFunction(r) ==
    /\ At(r, "GET", Prefix \o <<R!Param>>)
    /\ IF Param(r) \in DOMAIN functions
       THEN Did(r, "shown", Param(r), functions[Param(r)]) /\ Answer(r, 200, Null)
       ELSE Answer(r, 404, Null) /\ UNCHANGED effect
    /\ UNCHANGED <<pc, line, request, exit, functions>>

\* The other reads: /runtimes always has an answer, a runtime or an
\* invocation may not be there.
GetOther(r) ==
    /\ \/ At(r, "GET", <<"/", "runtimes">>) /\ Answer(r, 200, Null)
       \/ /\ \/ At(r, "GET", Prefix \o <<R!Param, "/", "runtime">>)
             \/ At(r, "GET", <<"/", "invocations", "/", R!Param>>)
          /\ \E status \in {200, 404} : Answer(r, status, Null)
    /\ UNCHANGED <<pc, line, request, exit, effect, functions>>

NoRoute(r) ==
    /\ server[r] = "pending"
    /\ Target(r).route = 0
    /\ Answer(r, Target(r).status, Null)
    /\ UNCHANGED <<pc, line, request, exit, effect, functions>>

\* The request never gets there, or the control plane dies with it.
RequestLost(r) ==
    /\ server[r] = "pending"
    /\ server' = [server EXCEPT ![r] = "none"]
    /\ UNCHANGED <<pc, line, request, exit, response, effect, functions>>

-----------------------------------------------------------------------------
\* The commands after the request.

\* Only invoke looks into a response before it decides, and only it expects
\* one that does not parse; an answer of 300 or more is never parsed bare.
ExitCode_NoCatch(command, resp) ==
    CASE command \in {"deploy", "delete"} -> IF resp.status >= 300 THEN 1 ELSE 0
      [] command \in {"describe", "invocation", "runtimes"} ->
            IF resp.status >= 300 THEN 1 ELSE IF ~resp.parses THEN Abort ELSE 0
      [] command = "invoke" ->
            IF ~resp.parses THEN Abort
            ELSE IF resp.status >= 300 \/ resp.outcome # "success" THEN 1 ELSE 0

ExitCode_AnyStatus(command, resp) ==
    CASE command \in {"deploy", "delete"} -> 0
      [] command \in {"describe", "invocation", "runtimes"} ->
            IF ~resp.parses THEN Abort ELSE 0
      [] command = "invoke" ->
            IF ~resp.parses \/ resp.outcome # "success" THEN 1 ELSE 0

ExitCode(command, resp) ==
    CASE command \in {"deploy", "delete"} -> IF resp.status >= 300 THEN 1 ELSE 0
      [] command \in {"describe", "invocation", "runtimes"} ->
            IF resp.status >= 300 THEN 1 ELSE IF ~resp.parses THEN Abort ELSE 0
      [] command = "invoke" ->
            IF ~resp.parses \/ resp.status >= 300 \/ resp.outcome # "success" THEN 1 ELSE 0

\* The body breaks off.
Truncate(r) ==
    /\ server[r] = "served"
    /\ pc[r] = "waiting"
    /\ response[r].status # 204
    /\ response[r].parses
    /\ response' = [response EXCEPT ![r].parses = FALSE]
    /\ UNCHANGED <<pc, line, request, exit, server, effect, functions>>

Receive(r) ==
    /\ pc[r] = "waiting"
    /\ server[r] = "served"
    /\ pc' = [pc EXCEPT ![r] = "exited"]
    /\ exit' = [exit EXCEPT ![r] = ExitCode(line[r].command, response[r])]
    /\ UNCHANGED <<line, request, server, response, effect, functions>>

\* The client reports no response: not connected, reset, or cut off in the
\* headers.  The request may yet be served.
NoResponse(r) ==
    /\ pc[r] = "waiting"
    /\ pc' = [pc EXCEPT ![r] = "exited"]
    /\ exit' = [exit EXCEPT ![r] = 1]
    /\ UNCHANGED <<line, request, server, response, effect, functions>>

-----------------------------------------------------------------------------
Next ==
    \E r \in Runs :
        \/ \E l \in CommandLines[r] : Start(r, l)
        \/ PostFunctions(r) \/ DeleteFunction(r) \/ InvokeFunction(r)
        \/ GetFunction(r) \/ GetOther(r) \/ NoRoute(r) \/ RequestLost(r)
        \/ Truncate(r) \/ Receive(r) \/ NoResponse(r)

Spec == Init /\ [][Next]_vars

-----------------------------------------------------------------------------
TypeOK ==
    /\ pc \in [Runs -> {"out", "waiting", "exited"}]
    /\ line \in [Runs -> Lines \cup {Null}]
    /\ request \in [Runs -> Requests \cup {Null}]
    /\ exit \in [Runs -> {0, 1, Abort, Null}]
    /\ server \in [Runs -> {"none", "pending", "served"}]
    /\ response \in [Runs -> Response \cup {Null}]
    /\ effect = [r \in Runs |-> effect[r]]
    /\ \A r \in Runs : /\ pc[r] = "out" <=> line[r] = Null
                       /\ pc[r] = "exited" <=> exit[r] # Null
                       /\ server[r] = "served" <=> response[r] # Null
    /\ \A name \in DOMAIN functions : \A key \in Settings \ {"cpu", "idle-timeout"} :
            functions[name].settings[key] \in Ints

\* The reference: how a command line is meant.

\* An argument is a flag's value if an odd number of flags stand before it.
IsValue(argv, i) ==
    Cardinality({j \in 1..(i - 1) : \A k \in j..(i - 1) : argv[k].key # Null}) % 2 = 1

\* The first argument that is neither a flag nor a value, or Null.
FirstWord(argv) ==
    LET words == {i \in 1..Len(argv) : argv[i].key = Null /\ ~IsValue(argv, i)}
    IN  IF words = {} THEN Null ELSE argv[CHOOSE i \in words : \A j \in words : i <= j]

\* What the last use of a flag gives it; Null if it is not used.
FlagValue(argv, key) ==
    LET uses == {i \in 1..Len(argv) : argv[i].key = key /\ ~IsValue(argv, i)}
        last == CHOOSE i \in uses : \A j \in uses : j <= i
    IN  IF uses = {} THEN Null ELSE IF last = Len(argv) THEN Empty ELSE argv[last + 1]

\* What a unit stands for, in milliseconds or megabytes; 0 if the client does
\* not know it.
Duration(unit) ==
    IF unit = "s" THEN 1000 ELSE IF unit = "m" THEN 60000 ELSE IF unit \in {"", "ms"} THEN 1 ELSE 0

Memory(unit) == IF unit = "Gi" THEN 1024 ELSE IF unit \in {"", "Mi"} THEN 1 ELSE 0

Scale(key, unit) ==
    CASE key \in {"timeout", "idle-timeout"} -> Duration(unit)
      [] key = "memory"                      -> Memory(unit)
      [] key \in {"cpu", "concurrency"}      -> IF unit = "" THEN 1 ELSE 0

\* The number typed for a setting, and what it stands for.
Number(key, arg) == IF key = "cpu" THEN arg.real ELSE arg.num

Value(key, arg) == Number(key, arg) * Scale(key, arg.unit)

\* Units the client does not know, fractions where it wants whole numbers, and
\* values that are no int in milliseconds or megabytes promise nothing.
Understood(key, arg) ==
    /\ Scale(key, arg.unit) # 0
    /\ key = "cpu" \/ (arg.real = 10 * arg.num /\ Value(key, arg) \in Ints)

\* What deploy sends for a flag that has no value.
Fallback == [key \in {"timeout", "memory", "idle-timeout"} |->
                CASE key = "timeout" -> 5000 [] key = "memory" -> 256 [] OTHER -> 60000]

\* A setting as a deploy's arguments have it: the last use of the flag counts,
\* wherever it stands; a flag that is not used leaves it to the control plane.
SettingTyped(argv, key, setting) ==
    LET typed == FlagValue(argv, key)
    IN  /\ typed = Null => setting = Default(key)
        /\ typed = Empty => key \in DOMAIN Fallback /\ setting = Fallback[key]
        /\ typed \notin {Null, Empty} =>
            Number(key, typed) # Null /\ (Understood(key, typed) => setting = Value(key, typed))

\* A setting as a document has it, if it is an int.
SettingSent(doc, key, setting) ==
    IF doc.settings[key] # Null
    THEN doc.settings[key] \in Ints => setting = doc.settings[key]
    ELSE setting = Default(key)

\* A name with "/" or "?" in it is taken apart by the server.
Plain(text) == Len(text) = 1 /\ text[1] \notin {"/", "?"}

\* What the command line of a run names, and whether that was done to it.
Meant(r) == FirstWord(line[r].argv)

\* Deploy registers the function that was typed, with the settings that were
\* typed.  Nothing else registers one, except an invocation whose name cuts the
\* path short, and that one registers just what its --data describes.
DeployedAsTyped ==
    \A r \in Runs : effect[r].kind = "registered" =>
        LET argv == line[r].argv
            spec == effect[r].what
            data == FlagValue(argv, "data")
        IN  \/ /\ line[r].command = "deploy"
               /\ Meant(r) # Null /\ effect[r].name = Meant(r).text
               /\ spec.image = FlagValue(argv, "image").text
               /\ \A key \in Settings : SettingTyped(argv, key, spec.settings[key])
            \/ /\ line[r].command = "invoke"
               /\ ~Plain(Meant(r).text)
               /\ data # Null /\ data.doc # Null
               /\ effect[r].name = data.doc.name /\ spec.image = data.doc.image
               /\ \A key \in Settings : SettingSent(data.doc, key, spec.settings[key])

\* A run whose request was refused has deployed and deleted nothing, although
\* the function may have run.
RefusedIsHarmless ==
    \A r \in Runs : response[r] # Null /\ response[r].status >= 300 =>
        effect[r].kind \in {"none", "ran"}

\* A run that exits with 0 was answered, and not refused; only logs, which has
\* nothing to ask for yet, exits with 0 on its own.
ZeroIsAnswered ==
    \A r \in Runs : exit[r] = 0 /\ line[r].command # "logs" =>
        server[r] = "served" /\ response[r].status < 300

Done(r, kind) == effect[r].kind = kind /\ effect[r].name = Meant(r).text

AsMeant(r) ==
    /\ line[r].command = "deploy" => Done(r, "registered")
    /\ line[r].command = "delete" /\ Plain(Meant(r).text) => Done(r, "removed")
    /\ line[r].command = "describe" /\ Plain(Meant(r).text) => Done(r, "shown")
    /\ line[r].command = "invoke" /\ Plain(Meant(r).text) => Done(r, "ran")

\* A run that exits with 0 has been served, and did what it was told to the
\* function it was told, although its request went through the URL, its
\* response may be cut and other runs come between; one that was refused
\* exits with another code and has changed nothing.
ExitTruthful ==
    /\ RefusedIsHarmless
    /\ ZeroIsAnswered
    /\ \A r \in Runs : exit[r] = 0 =>
        /\ AsMeant(r)
        /\ line[r].command = "invoke" => effect[r].kind = "ran" /\ effect[r].what = "success"

\* A run that dies of an exception has not touched the control plane: what
\* can throw comes before the request, or after one that only reads.
AbortChangesNothing ==
    \A r \in Runs : exit[r] = Abort => request[r] = Null \/ request[r].method = "GET"

-----------------------------------------------------------------------------
\* The inductive invariant.

\* The request on its way is the one the command line asks for, and what it
\* did is known only once it has been served.
RunInv(r) ==
    /\ pc[r] = "out" => request[r] = Null /\ server[r] = "none"
    /\ pc[r] # "out" => line[r] \in CommandLines[r]
    /\ pc[r] = "waiting" \/ server[r] # "none" =>
        /\ main(line[r].command, line[r].argv).code = Null
        /\ request[r] = main(line[r].command, line[r].argv).request
    /\ server[r] # "served" => effect[r] = Nothing

\* A request that was served and not refused did what the command line says,
\* whether or not the run learns of it.
AnswerInv(r) ==
    /\ server[r] = "served" /\ response[r].status < 300 => AsMeant(r)
    /\ server[r] = "served" /\ response[r].outcome = "success" =>
        effect[r].kind = "ran" /\ effect[r].what = "success"
    /\ exit[r] = 0 /\ line[r].command = "invoke" => response[r].outcome = "success"

ClientInv ==
    /\ TypeOK
    /\ \A r \in Runs : RunInv(r)
    /\ AbortChangesNothing
    /\ RefusedIsHarmless
    /\ ZeroIsAnswered

CliInv == ClientInv /\ \A r \in Runs : AnswerInv(r)
=============================================================================
