----------------------------- MODULE MC_Metrics -----------------------------
(***************************************************************************)
(* An instance of Metrics for TLC: two buckets, and durations on a bound,  *)
(* between the bounds and beyond the last.                                 *)
(***************************************************************************)
EXTENDS Metrics, TLC

TwoBuckets == <<1, 3>>
SomeDurations == {1, 2, 4}

Symmetry == Permutations(Threads) \cup Permutations(Names)
=============================================================================
