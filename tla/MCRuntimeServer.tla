---------------------------- MODULE MCRuntimeServer ----------------------------
(* RuntimeServer on small instances. *)
EXTENDS RuntimeServer, TLC

Symmetry == Permutations(Handlers) \cup Permutations(Runtimes)
==============================================================================
