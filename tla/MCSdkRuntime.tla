----------------------------- MODULE MCSdkRuntime -----------------------------
(* SdkRuntime on small instances. *)
EXTENDS SdkRuntime, TLC

Symmetry == Permutations(Callers) \cup Permutations(Streams) \cup Permutations(Requests)
==============================================================================
