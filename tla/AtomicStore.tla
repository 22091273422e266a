---------------------------- MODULE AtomicStore ----------------------------
(***************************************************************************)
(* What the function registry and the invocation store promise to request  *)
(* threads that share them (function_registry.hpp, invocation_store.hpp):  *)
(* every operation takes effect at one moment between its call and its     *)
(* return, and returns what was true at that moment.  register_function    *)
(* is two operations, the write and the read of what it returns.           *)
(***************************************************************************)
EXTENDS Naturals, Sequences

CONSTANTS Names, Specs, Rows, Ids, Threads, Null

VARIABLES
    functions, \* name -> spec, Null when there is none
    rows,      \* invocation records; the id of one is its position
    op         \* of each thread: the operation it has called, or what it returned

vars == <<functions, rows, op>>

Calls == ({"register"} \X Specs) \cup ({"get", "remove"} \X Names)
         \cup ({"record"} \X Rows) \cup ({"lookup"} \X Ids)

Init ==
    /\ functions = [f \in Names |-> Null]
    /\ rows = <<>>
    /\ op = [t \in Threads |-> Null]

Call(t) ==
    /\ op[t] = Null \/ op[t][1] \in {"got", "removed", "id", "found"}
    /\ op' = [op EXCEPT ![t] = op'[t]]
    /\ op'[t] \in Calls
    /\ UNCHANGED <<functions, rows>>

Goes(t, what, value) == op' = [op EXCEPT ![t] = <<what, value>>]

register_function(t, s) ==
    /\ op[t] = <<"register", s>>
    /\ functions' = [functions EXCEPT ![s.name] = s]
    /\ Goes(t, "get", s.name)
    /\ UNCHANGED rows

get(t, f) ==
    /\ op[t] = <<"get", f>>
    /\ Goes(t, "got", functions[f])
    /\ UNCHANGED <<functions, rows>>

remove(t, f) ==
    /\ op[t] = <<"remove", f>>
    /\ functions' = [functions EXCEPT ![f] = Null]
    /\ Goes(t, "removed", functions[f] # Null)
    /\ UNCHANGED rows

record(t, row) ==
    /\ op[t] = <<"record", row>>
    /\ rows' = Append(rows, row)
    /\ Goes(t, "id", Len(rows) + 1)
    /\ UNCHANGED functions

lookup(t, id) ==
    /\ op[t] = <<"lookup", id>>
    /\ Goes(t, "found", IF id \in 1..Len(rows) THEN rows[id] ELSE Null)
    /\ UNCHANGED <<functions, rows>>

\* The request is answered.
Forget(t) ==
    /\ op' = [op EXCEPT ![t] = Null]
    /\ UNCHANGED <<functions, rows>>

\* The tables survive the process; an operation under way has happened or not.
Crash ==
    /\ op' = [t \in Threads |-> Null]
    /\ UNCHANGED <<functions, rows>>

Next ==
    \/ \E t \in Threads :
        \/ Call(t) \/ Forget(t)
        \/ \E s \in Specs : register_function(t, s)
        \/ \E f \in Names : get(t, f) \/ remove(t, f)
        \/ \E row \in Rows : record(t, row)
        \/ \E id \in Ids : lookup(t, id)
    \/ Crash

Spec == Init /\ [][Next]_vars
=============================================================================
