------------------------- MODULE MC_RuntimeManager -------------------------
(***************************************************************************)
(* Instances of RuntimeManager for TLC.  Function f has a timeout and is   *)
(* idle for one tick before it expires; g has neither a receive timeout    *)
(* nor an idle period, the two values the code treats specially.           *)
(***************************************************************************)
EXTENDS RuntimeManager, TLC

FSpec == [name |-> "f", image |-> "f:v1", timeout_ms |-> 1, idle_timeout_ms |-> 1]
GSpec == [name |-> "g", image |-> "g:v1", timeout_ms |-> 0, idle_timeout_ms |-> 0]

OneFunction  == {"f"}
TwoFunctions == {"f", "g"}
OneSpec      == {FSpec}
TwoSpecs     == {FSpec, GSpec}

\* Threads, container ids and ports are interchangeable in Spec and in every
\* invariant.
Symmetry == Permutations(Threads) \cup Permutations(ContainerIds) \cup Permutations(Ports)
=============================================================================
