--------------------------- MODULE MC_Kubernetes ---------------------------
(***************************************************************************)
(* An instance of KubernetesBackend for TLC: the empty image, one that is  *)
(* safe and one with a character the shell could take for something else.  *)
(***************************************************************************)
EXTENDS KubernetesBackend

SomeImages == {<<>>, <<"a">>, <<"a", ";">>}
=============================================================================
