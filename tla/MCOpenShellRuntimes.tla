-------------------------- MODULE MCOpenShellRuntimes --------------------------
(* OpenShellRuntimes on small instances. *)
EXTENDS OpenShellRuntimes, TLC

Symmetry == Permutations(Threads) \cup Permutations(Runtimes) \cup Permutations(Workers)
================================================================================
