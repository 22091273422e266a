--------------------------- MODULE MC_HttpServer ---------------------------
(***************************************************************************)
(* Instance of HttpServer for TLC: an invocation with a body, a read of a  *)
(* function whose headers may come in two parts, and a malformed length.   *)
(* With a limit of two units, three that arrive together are refused.      *)
(***************************************************************************)
EXTENDS HttpServer

ApiWords == {"health", "functions", "invoke", "runtime", "invocations", "f"}

Req(method, path, header, length, numeric) ==
    [method |-> method, path |-> path, header |-> header, length |-> length, numeric |-> numeric]

Invocation == Req("POST", <<"/", "functions", "/", "f", "/", "invoke">>, 1, 1, TRUE)
Describe   == Req("GET", <<"/", "functions", "/", "f", "?", "x">>, 2, 0, TRUE)
BadLength  == Req("POST", <<"/", "functions">>, 1, 0, FALSE)

SomeRequests == {Invocation, Describe, BadLength}
=============================================================================
