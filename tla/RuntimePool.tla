---------------------------- MODULE RuntimePool ----------------------------
(***************************************************************************)
(* What the runtime manager promises: at any time a function holds a lease *)
(* on at most one container, a container is leased at most once in its     *)
(* life, to one function, and a lease ends for good.  The state of the     *)
(* runtimes, the calls that use them, the lock, the timeouts and the       *)
(* failures are all below this level.                                      *)
(***************************************************************************)
CONSTANTS Names, ContainerIds, Null

VARIABLES lease,  \* function name -> its container, or Null
          spent   \* containers that can no longer be leased to anyone

vars == <<lease, spent>>

Init ==
    /\ lease = [f \in Names |-> Null]
    /\ spent = {}

\* A container that was never used becomes the runtime of a function.
Grant(f, c) ==
    /\ lease[f] = Null
    /\ c \notin spent
    /\ lease' = [lease EXCEPT ![f] = c]
    /\ spent' = spent \cup {c}

\* A container is used up without ever serving a function.
Waste(c) ==
    /\ spent' = spent \cup {c}
    /\ UNCHANGED lease

\* The leases of the functions of F end together.
End(F) ==
    /\ lease' = [f \in Names |-> IF f \in F THEN Null ELSE lease[f]]
    /\ UNCHANGED spent

\* The control plane restarts: all leases end, and so does a start under way.
Crash ==
    /\ lease' = [f \in Names |-> Null]
    /\ spent' \in SUBSET ContainerIds
    /\ spent \subseteq spent'

Next ==
    \/ \E f \in Names, c \in ContainerIds : Grant(f, c)
    \/ \E c \in ContainerIds : Waste(c)
    \/ \E F \in SUBSET Names : End(F)
    \/ Crash

Spec == Init /\ [][Next]_vars
=============================================================================
