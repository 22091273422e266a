-------------------------- MODULE ContainerBackend --------------------------
(***************************************************************************)
(* What the runtime manager relies on when it calls a container backend    *)
(* (control-plane/include/faas/container_backend.hpp): an id that          *)
(* run_container returns names nothing else, and was not returned before   *)
(* by the same process, whose threads may still remember it; what an       *)
(* operation that fails leaves behind is never handed to anyone.           *)
(***************************************************************************)
CONSTANT Ids

VARIABLES
    status, \* "free": nothing runs under the id; "held": run_container returned it
            \* and remove_container has not; "lost": something runs, and nobody
            \* will remove it
    used    \* ids that run_container will not return (again) in this process

vars == <<status, used>>

Init ==
    /\ status = [n \in Ids |-> "free"]
    /\ used = {}

\* Any operation may rule out ids for the future.
RulesOut == used' \in SUBSET Ids /\ used \subseteq used'

\* run_container returns an id.
Run(n) ==
    /\ status[n] = "free"
    /\ n \notin used
    /\ status' = [status EXCEPT ![n] = "held"]
    /\ RulesOut
    /\ n \in used'

\* run_container fails, ...
RunFails ==
    /\ RulesOut
    /\ UNCHANGED status

\* ... or fails and leaves something behind.
RunLeaves(n) ==
    /\ status[n] = "free"
    /\ n \notin used
    /\ status' = [status EXCEPT ![n] = "lost"]
    /\ RulesOut

\* remove_container; the caller forgets the id whatever the result is.
Remove(n) ==
    /\ status[n] = "held"
    /\ \E s \in {"free", "lost"} : status' = [status EXCEPT ![n] = s]
    /\ UNCHANGED used

\* Something that was lost ends by itself or is cleaned up by hand.
Vanish(n) ==
    /\ status[n] = "lost"
    /\ status' = [status EXCEPT ![n] = "free"]
    /\ UNCHANGED used

\* The control plane ends and forgets the ids it held, perhaps during an
\* operation on one more.
Crash ==
    /\ status' \in [Ids -> {"free", "lost"}]
    /\ \A n \in Ids : status[n] = "lost" => status'[n] = "lost"
    /\ \A m, n \in Ids : /\ status[m] = "free" /\ status'[m] = "lost"
                         /\ status[n] = "free" /\ status'[n] = "lost"
                         => m = n
    /\ used' = {}

Next ==
    \/ \E n \in Ids : Run(n) \/ RunLeaves(n) \/ Remove(n) \/ Vanish(n)
    \/ RunFails
    \/ Crash

Spec == Init /\ [][Next]_vars
=============================================================================
