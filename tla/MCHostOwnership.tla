---------------------------- MODULE MCHostOwnership ----------------------------
(* HostOwnership on small instances. *)
EXTENDS HostOwnership, TLC

Symmetry == Permutations(Servers)
==============================================================================
