---------------------------- MODULE MCNetworkRuntime ----------------------------
(* Small instances of NetworkRuntime for TLC. *)
EXTENDS NetworkRuntime, TLC

\* Calls and identities are only compared for equality.
Symmetry == Permutations(Call) \cup Permutations(Caller)
================================================================================
