-------------------------- MODULE MCOpenShellProvider --------------------------
(* OpenShellProvider on small instances. *)
EXTENDS OpenShellProvider, TLC

Symmetry == Permutations(Environments) \cup Permutations(Sandboxes)
================================================================================
