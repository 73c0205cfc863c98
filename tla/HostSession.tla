----------------------------- MODULE HostSession -----------------------------
(****************************************************************************)
(* What NeMo Fabric promises to an adapter host process: the lifecycle      *)
(* order of the adapter contract, one successful start, then ordered        *)
(* invocations that never overlap, then at most one stop, then nothing.     *)
(* LocalHosts implements it (see LocalHosts!Session).                       *)
(****************************************************************************)
CONSTANT Hosts      \* ids of adapter hosts (of runtimes and of services)

VARIABLE session    \* session[h]: how far host h is in its lifecycle

Stages == {"none", "starting", "rejected", "ready", "busy", "stopping", "closed"}

Init == session = [h \in Hosts |-> "none"]

Move(h, from, to) ==
  /\ session[h] \in from
  /\ session' = [session EXCEPT ![h] = to]

\* The host is spawned and asked to start.
Start(h) == Move(h, {"none"}, "starting")

\* The host accepted its start and owns its target runtime.
Started(h) == Move(h, {"starting"}, "ready")

\* The host answered its start with an error and may run on: it is asked for
\* nothing any more.
Rejected(h) == Move(h, {"starting"}, "rejected")

\* One invocation is handed to the host, which has no other request.
Invoke(h) == Move(h, {"ready"}, "busy")

\* The host answered the invocation.
Answer(h) == Move(h, {"busy"}, "ready")

\* The host is asked to stop, only between invocations.
Stop(h) == Move(h, {"ready"}, "stopping")

\* The session ends: by the stop, by a failed start, by a crash or a kill.
Close(h) == Move(h, Stages \ {"none", "closed"}, "closed")

Next ==
  \E h \in Hosts :
    \/ Start(h) \/ Started(h) \/ Rejected(h)
    \/ Invoke(h) \/ Answer(h) \/ Stop(h) \/ Close(h)

Spec == Init /\ [][Next]_session
==============================================================================
