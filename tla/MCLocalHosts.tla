---------------------------- MODULE MCLocalHosts -----------------------------
(* Small instances of LocalHosts for TLC. *)
EXTENDS LocalHosts, TLC

\* Threads and runtimes are interchangeable in the safety runs.
Symmetry == Permutations(Threads) \cup Permutations(Runtimes)

\* Bound of the safety run: three threads meet on one runtime, two on two.
Contention ==
  \/ Cardinality({t \in Threads : pc[t] # "idle"}) < 3
  \/ Cardinality({r \in Runtimes : service[r] # Unborn}) < 2
==============================================================================
