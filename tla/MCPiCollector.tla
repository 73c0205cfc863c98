---------------------------- MODULE MCPiCollector ----------------------------
(* PiCollector on a small instance: the second call reuses the first's id. *)
EXTENDS PiCollector

MCRequest == [c \in Calls |-> "a"]
MCStreaming == [c \in Calls |-> IF c = 1 THEN BOOLEAN ELSE {TRUE}]
=============================================================================
