-------------------------- MODULE MC_ControlPlane --------------------------
(***************************************************************************)
(* Instances of ControlPlane for TLC: one function with two versions, so   *)
(* that a deploy can replace another.  The second has no timeout.          *)
(***************************************************************************)
EXTENDS ControlPlane

FV1 == [name |-> "f", image |-> "f:v1", timeout_ms |-> 1]
FV2 == [name |-> "f", image |-> "f:v2", timeout_ms |-> 0]

OneFunction  == {"f"}
TwoVersions  == {FV1, FV2}
=============================================================================
