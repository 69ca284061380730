---------------------------- MODULE MCClientRegistry ----------------------------
(* Small instances of ClientRegistry for TLC. *)
EXTENDS ClientRegistry, TLC

\* Calls, digests and keys are only compared for equality.
Symmetry == Permutations(Call) \cup Permutations(Digest)
================================================================================
