--------------------------- MODULE LocalHostsProofs ---------------------------
(****************************************************************************)
(* Proofs about LocalHosts, for any threads, runtimes, services and any     *)
(* number of failed kills: its types, and that a runtime that can be        *)
(* invoked holds its service.                                               *)
(****************************************************************************)
EXTENDS LocalHosts, TLAPS

\* Labels of a start that has drawn its runtime id.
StartPCs == {"start_recv", "start_kill", "start_table", "start_publish",
             "start_register"}

\* Labels of a stop that has taken the runtime out of LOCAL_HOSTS.
StopPCs == {"stop_lock", "stop_recv", "stop_kill", "stop_services", "stop_record"}
LeavePCs == {"stop_services", "stop_record"}

PreparePCs == {"prepare_recv", "prepare_kill", "prepare_insert"}
HeldReleasePCs == {"release_recv", "release_kill"}
ServicePCs == PreparePCs \cup HeldReleasePCs
                \cup {"start_record", "release_record", "release_remove"}
\* Labels of a call that has looked up a service record.
RecordPCs == HeldReleasePCs \cup {"start_record", "release_record", "release_remove"}
KnownPCs == StopPCs \cup {"invoke_lock", "invoke_recv", "invoke_evict",
                          "invoke_kill", "stop_remove"}

\* What each call is about.
Targets ==
  \A t \in Threads :
    /\ pc[t] \in ServicePCs => target[t] \in Services
    /\ pc[t] \in KnownPCs => target[t] \in known
    /\ pc[t] \in LeavePCs => service[target[t]] \in Services

\* Runtime ids in use have been drawn.
Drawn == \A r \in hosts \cup known : service[r] # Unborn

\* A start owns its fresh id and, on a service, the lock of an active record.
Starters ==
  \A t \in Threads : pc[t] \in StartPCs =>
    /\ target[t] \in Runtimes \ known
    /\ service[target[t]] # Unborn
    /\ service[target[t]] # None =>
         /\ recordLock[service[target[t]]] = t
         /\ state[service[target[t]]] = "Active"

\* No id is drawn twice.
Disjoint ==
  \A t, u \in Threads : t # u =>
    /\ pc[t] \in StartPCs /\ pc[u] \in StartPCs => target[t] # target[u]
    /\ pc[t] \in PreparePCs /\ pc[u] \in PreparePCs => target[t] # target[u]

Preparers ==
  \A t \in Threads : pc[t] \in PreparePCs => state[target[t]] = "preparing"

\* A release that changes the record's state holds its lock.
Releasers ==
  \A t \in Threads : pc[t] \in HeldReleasePCs =>
    recordLock[target[t]] = t /\ state[target[t]] = "Releasing"

\* A service that is or was in the map has a record.
Records ==
  /\ \A s \in services : state[s] \in Recorded
  /\ \A t \in Threads : pc[t] \in RecordPCs => state[target[t]] \in Recorded

\* A runtime that is being stopped has left the map for good.
Stoppers ==
  \A t \in Threads : pc[t] \in StopPCs => target[t] \notin hosts

\* A runtime in the map is a user of its service, or its start still holds
\* the record.
Registered ==
  \A r \in hosts : service[r] # None =>
    \/ r \in users[service[r]]
    \/ \E t \in Threads : pc[t] = "start_register" /\ target[t] = r

IInv ==
  /\ TypeOK /\ Targets /\ Drawn /\ Starters /\ Disjoint /\ Preparers
  /\ Releasers /\ Records /\ Stoppers /\ Registered
  /\ ReachableRuntimeHoldsService
-------------------------------------------------------------------------------
(* What one exchange does to the processes and their pipes. *)

\* The conjuncts of TypeOK about the host processes.
HostTypes ==
  /\ proc \in [Hosts -> ProcStates]
  /\ inbox \in [Hosts -> Seq(Request)]
  /\ outbox \in [Hosts -> Seq(Reply)]
  /\ killFailures \in 0..MaxKillFailures

LEMMA SpawnType ==
  ASSUME TypeOK, NEW t \in Threads, NEW h \in Hosts, Spawn(t, h)
  PROVE  HostTypes'
<1> DEFINE m == [by |-> t, op |-> "start"]
<1>1. m \in Request
  BY DEF Request, Ops
<1>2. <<m>> \in Seq(Request)
  BY <1>1
<1>3. inbox' = [inbox EXCEPT ![h] = <<m>>]
  BY DEF Spawn
<1> HIDE DEF m
<1>4. inbox' \in [Hosts -> Seq(Request)]
  BY <1>2, <1>3 DEF TypeOK
<1>5. proc' \in [Hosts -> ProcStates]
  BY DEF Spawn, TypeOK, ProcStates
<1>6. QED
  BY <1>4, <1>5 DEF Spawn, TypeOK, HostTypes

LEMMA SendType ==
  ASSUME TypeOK, NEW t \in Threads, NEW h \in Hosts, NEW op \in Ops, Send(t, h, op)
  PROVE  HostTypes'
<1> DEFINE m == [by |-> t, op |-> op]
<1>1. m \in Request
  BY DEF Request
<1>2. inbox' = [inbox EXCEPT ![h] = Append(inbox[h], m)]
  BY DEF Send
<1>3. inbox[h] \in Seq(Request)
  BY DEF TypeOK
<1> HIDE DEF m
<1>4. Append(inbox[h], m) \in Seq(Request)
  BY <1>1, <1>3
<1>5. QED
  BY <1>2, <1>4 DEF Send, TypeOK, HostTypes

LEMMA ReceiveType ==
  ASSUME TypeOK, NEW t \in Threads, target[t] \in Hosts, NEW op \in Ops,
         NEW result \in Results, Receive(t, op, result)
  PROVE  HostTypes'
<1>1. outbox[target[t]] \in Seq(Reply)
  BY DEF TypeOK
<1>2. outbox[target[t]] # <<>> => Tail(outbox[target[t]]) \in Seq(Reply)
  BY <1>1
<1>3. QED
  BY <1>2 DEF Receive, TypeOK, HostTypes

LEMMA TerminateType ==
  ASSUME TypeOK, NEW h \in Hosts, NEW done \in BOOLEAN, Terminate(h, done)
  PROVE  HostTypes'
<1>1. CASE done
  <2>1. <<>> \in Seq(Request) /\ <<>> \in Seq(Reply)
    OBVIOUS
  <2>2. "gone" \in ProcStates
    BY DEF ProcStates
  <2>3. QED
    BY <1>1, <2>1, <2>2 DEF Terminate, TypeOK, HostTypes
<1>2. CASE ~done
  BY <1>2, IdsAreDistinct DEF Terminate, TypeOK, HostTypes, hostVars
<1>3. QED
  BY <1>1, <1>2
-------------------------------------------------------------------------------
(* Most steps only move one call and leave services, handles and records     *)
(* alone: one lemma shows that such a step preserves the invariant.          *)

\* The types of the maps and locks, which such a step may change.
MapTypes ==
  /\ hosts \subseteq Runtimes
  /\ processes \subseteq Runtimes
  /\ hostLock \in [Runtimes -> Threads \cup {None}]
  /\ services \subseteq Services
  /\ servicesLock \in Threads \cup {None}
  /\ answer \in [Threads -> {"none", "clean", "failed"}]

\* Thread t may go on to label l about h.
Quiet(t, l, h) ==
  /\ pc[t] # "start_register"
  /\ l \in PCs \ {"start_register"}
  /\ h \in Hosts \cup {None}
  /\ l \in ServicePCs => h \in Services
  /\ l \in KnownPCs => h \in known
  /\ l \in LeavePCs => service[h] \in Services
  /\ l \in StartPCs => pc[t] \in StartPCs /\ h = target[t]
  /\ l \in PreparePCs => pc[t] \in PreparePCs /\ h = target[t]
  /\ l \in HeldReleasePCs => pc[t] \in HeldReleasePCs /\ h = target[t]
  /\ l \in RecordPCs => state[h] \in Recorded
  /\ l \in StopPCs => h \notin hosts'

LEMMA QuietStep ==
  ASSUME IInv, NEW t \in Threads, NEW l, NEW h, Quiet(t, l, h), GoTo(t, l, h),
         HostTypes', MapTypes', hosts' \subseteq hosts, services' \subseteq services,
         UNCHANGED <<recordLock, state, users, handles>>
  PROVE  IInv'
<1> USE DEF IInv, Quiet, GoTo, handles
<1>1. TypeOK'
  BY DEF TypeOK, HostTypes, MapTypes
<1>2. /\ pc' = [u \in Threads |-> IF u = t THEN l ELSE pc[u]]
      /\ target' = [u \in Threads |-> IF u = t THEN h ELSE target[u]]
  BY DEF TypeOK
<1> HIDE DEF GoTo
<1>3. Targets'
  BY <1>2 DEF Targets
<1>4. Drawn'
  BY DEF Drawn
<1>5. Starters'
  BY <1>2 DEF Starters
<1>6. Disjoint'
  BY <1>2 DEF Disjoint
<1>7. Preparers'
  BY <1>2 DEF Preparers
<1>8. Releasers'
  BY <1>2 DEF Releasers
<1>9. Stoppers'
  BY <1>2 DEF Stoppers
<1>10. Registered'
  <2> SUFFICES ASSUME NEW r \in hosts', service[r] # None, r \notin users[service[r]]
               PROVE  \E u \in Threads : pc'[u] = "start_register" /\ target'[u] = r
    BY DEF Registered
  <2>1. PICK u \in Threads : pc[u] = "start_register" /\ target[u] = r
    BY DEF Registered
  <2>2. QED
    BY <1>2, <2>1
<1>11. ReachableRuntimeHoldsService'
  BY DEF ReachableRuntimeHoldsService
<1>12. Records'
  BY <1>2 DEF Records
<1>13. QED
  BY <1>1, <1>3, <1>4, <1>5, <1>6, <1>7, <1>8, <1>9, <1>10, <1>11, <1>12
-------------------------------------------------------------------------------
(* The quiet steps, one lemma for each. *)

USE DEF StartPCs, StopPCs, LeavePCs, PreparePCs, HeldReleasePCs, RecordPCs, ServicePCs,
        KnownPCs, Waiting, Killing, PCs, Hosts

\* What the frame conditions of a quiet step leave to its QED.
LEMMA SameHosts == ASSUME TypeOK, UNCHANGED hostVars PROVE HostTypes'
  BY DEF TypeOK, HostTypes, hostVars

LEMMA SameMaps ==
  ASSUME TypeOK, UNCHANGED <<hosts, processes, hostLock, services, servicesLock, answer>>
  PROVE  MapTypes'
  BY DEF TypeOK, MapTypes

LEMMA StartWithServiceStep == ASSUME IInv, NEW t \in Threads, StartWithService(t) PROVE IInv'
<1> USE IdsAreDistinct DEF IInv
<1>1. PICK s \in services : GoTo(t, "start_record", s)
  BY DEF StartWithService
<1>2. Quiet(t, "start_record", s)
  BY <1>1 DEF Quiet, Records, StartWithService, TypeOK
<1>3. QED
  BY <1>1, <1>2, QuietStep, SameHosts, SameMaps DEF StartWithService, hostVars, registry, serviceVars, handles

LEMMA InvokeRuntimeStep == ASSUME IInv, NEW t \in Threads, InvokeRuntime(t) PROVE IInv'
<1> USE IdsAreDistinct DEF IInv
<1>1. PICK r \in known \cap hosts : GoTo(t, "invoke_lock", r)
  BY DEF InvokeRuntime
<1>2. Quiet(t, "invoke_lock", r)
  BY <1>1 DEF Quiet, InvokeRuntime, TypeOK
<1>3. QED
  BY <1>1, <1>2, QuietStep, SameHosts, SameMaps DEF InvokeRuntime, hostVars, registry, serviceVars, handles

LEMMA ReleaseServiceStep == ASSUME IInv, NEW t \in Threads, ReleaseService(t) PROVE IInv'
<1> USE IdsAreDistinct DEF IInv
<1>1. PICK s \in services : GoTo(t, "release_record", s)
  BY DEF ReleaseService
<1>2. Quiet(t, "release_record", s)
  BY <1>1 DEF Quiet, Records, ReleaseService, TypeOK
<1>3. QED
  BY <1>1, <1>2, QuietStep, SameHosts, SameMaps DEF ReleaseService, hostVars, registry, serviceVars, handles

LEMMA StopRuntimeStep == ASSUME IInv, NEW t \in Threads, StopRuntime(t) PROVE IInv'
<1> USE IdsAreDistinct DEF IInv
<1>1. PICK r \in known : processes' = processes \ {r} /\ GoTo(t, "stop_remove", r)
  BY DEF StopRuntime
<1>2. Quiet(t, "stop_remove", r)
  BY <1>1 DEF Quiet, StopRuntime, TypeOK
<1>3. MapTypes'
  BY <1>1 DEF StopRuntime, MapTypes, TypeOK, hostVars, registry, serviceVars, handles
<1>4. QED
  BY <1>1, <1>2, <1>3, QuietStep, SameHosts DEF StopRuntime, hostVars, registry, serviceVars, handles

LEMMA StartReceiveStep == ASSUME IInv, NEW t \in Threads, StartReceive(t) PROVE IInv'
<1> USE IdsAreDistinct DEF IInv
<1> DEFINE l(result) == IF result = "ok" THEN "start_table" ELSE "start_kill"
<1>1. PICK result \in Results : Receive(t, "start", result) /\ GoTo(t, l(result), target[t])
  BY DEF StartReceive
<1>2. target[t] \in Runtimes
  BY DEF StartReceive, Starters
<1>3. Quiet(t, l(result), target[t])
  BY <1>1, <1>2 DEF Quiet, StartReceive
<1>4. HostTypes'
  BY <1>1, <1>2, ReceiveType DEF Ops
<1> HIDE DEF l
<1>5. QED
  BY <1>1, <1>3, <1>4, QuietStep, SameMaps DEF StartReceive, hostVars, registry, serviceVars, handles

LEMMA StartTableStep == ASSUME IInv, NEW t \in Threads, StartTable(t) PROVE IInv'
<1> USE IdsAreDistinct DEF IInv
<1>1. target[t] \in Runtimes
  BY DEF StartTable, Starters
<1>2. Quiet(t, "start_publish", target[t])
  BY <1>1 DEF Quiet, StartTable
<1>3. MapTypes'
  BY <1>1 DEF StartTable, MapTypes, TypeOK, hostVars, registry, serviceVars, handles
<1>4. QED
  BY <1>2, <1>3, QuietStep, SameHosts DEF StartTable, hostVars, registry, serviceVars, handles

LEMMA InvokeLockedStep == ASSUME IInv, NEW t \in Threads, InvokeLocked(t) PROVE IInv'
<1> USE IdsAreDistinct DEF IInv
<1>1. target[t] \in known /\ target[t] \in Runtimes
  BY DEF InvokeLocked, Targets, TypeOK
<1>2. CASE /\ Send(t, target[t], "invoke")
           /\ hostLock' = [hostLock EXCEPT ![target[t]] = t]
           /\ GoTo(t, "invoke_recv", target[t])
           /\ UNCHANGED answer
  <2>1. HostTypes'
    BY <1>1, <1>2, SendType DEF Ops
  <2>2. MapTypes'
    BY <1>2 DEF InvokeLocked, MapTypes, TypeOK, hostVars, registry, serviceVars, handles
  <2>3. Quiet(t, "invoke_recv", target[t])
    BY <1>1 DEF Quiet, InvokeLocked
  <2>4. QED
    BY <1>2, <2>1, <2>2, <2>3, QuietStep DEF InvokeLocked, hostVars, registry, serviceVars, handles
<1>3. CASE Return(t) /\ UNCHANGED <<hostVars, hostLock>>
  <2>1. MapTypes'
    BY <1>3 DEF InvokeLocked, MapTypes, TypeOK, Return, hostVars, registry, serviceVars, handles
  <2>2. Quiet(t, "idle", None)
    BY DEF Quiet, InvokeLocked
  <2>3. QED
    BY <1>3, <2>1, <2>2, QuietStep, SameHosts DEF InvokeLocked, Return, hostVars, registry, serviceVars, handles
<1>4. QED
  BY <1>2, <1>3 DEF InvokeLocked

LEMMA InvokeReceiveStep == ASSUME IInv, NEW t \in Threads, InvokeReceive(t) PROVE IInv'
<1> USE IdsAreDistinct DEF IInv
<1>1. target[t] \in known /\ target[t] \in Runtimes
  BY DEF InvokeReceive, Targets, TypeOK
<1>2. PICK result \in Results :
        /\ Receive(t, "invoke", result)
        /\ IF result = "timeout"
             THEN GoTo(t, "invoke_evict", target[t]) /\ UNCHANGED <<hostLock, answer>>
             ELSE Return(t) /\ hostLock' = [hostLock EXCEPT ![target[t]] = None]
  BY DEF InvokeReceive
<1>3. HostTypes'
  BY <1>1, <1>2, ReceiveType DEF Ops
<1>4. CASE result = "timeout"
  <2>1. Quiet(t, "invoke_evict", target[t])
    BY <1>1 DEF Quiet, InvokeReceive
  <2>2. QED
    BY <1>2, <1>3, <1>4, <2>1, QuietStep, SameMaps DEF InvokeReceive, hostVars, registry, serviceVars, handles
<1>5. CASE result # "timeout"
  <2>1. Quiet(t, "idle", None)
    BY DEF Quiet, InvokeReceive
  <2>2. MapTypes'
    BY <1>2, <1>5 DEF InvokeReceive, MapTypes, TypeOK, Return, hostVars, registry, serviceVars, handles
  <2>3. QED
    BY <1>2, <1>3, <1>5, <2>1, <2>2, QuietStep DEF InvokeReceive, Return, hostVars, registry, serviceVars, handles
<1>6. QED
  BY <1>4, <1>5

LEMMA InvokeEvictStep == ASSUME IInv, NEW t \in Threads, InvokeEvict(t) PROVE IInv'
<1> USE IdsAreDistinct DEF IInv
<1>1. target[t] \in known /\ target[t] \in Runtimes
  BY DEF InvokeEvict, Targets, TypeOK
<1>2. Quiet(t, "invoke_kill", target[t])
  BY <1>1 DEF Quiet, InvokeEvict
<1>3. MapTypes'
  BY DEF InvokeEvict, MapTypes, TypeOK, hostVars, registry, serviceVars, handles
<1>4. QED
  BY <1>2, <1>3, QuietStep, SameHosts DEF InvokeEvict, hostVars, registry, serviceVars, handles

LEMMA InvokeKillStep == ASSUME IInv, NEW t \in Threads, InvokeKill(t) PROVE IInv'
<1> USE IdsAreDistinct DEF IInv
<1>1. target[t] \in Runtimes
  BY DEF InvokeKill, Targets, TypeOK
<1>2. PICK done \in BOOLEAN : Terminate(target[t], done)
  BY DEF InvokeKill
<1>3. HostTypes'
  BY <1>1, <1>2, TerminateType
<1>4. Quiet(t, "idle", None)
  BY DEF Quiet, InvokeKill
<1>5. MapTypes'
  BY DEF InvokeKill, MapTypes, TypeOK, Return, hostVars, registry, serviceVars, handles
<1>6. QED
  BY <1>3, <1>4, <1>5, QuietStep DEF InvokeKill, Return, hostVars, registry, serviceVars, handles

\* Where a successful LocalHostAdapter.stop leads.
LEMMA AfterStopQuiet ==
  ASSUME IInv, NEW t \in Threads, target[t] \in known, target[t] \notin hosts',
         pc[t] \in {"stop_remove", "stop_kill"}, AfterStop(t, target[t])
  PROVE  /\ answer' \in [Threads -> {"none", "clean", "failed"}]
         /\ \E l, h : Quiet(t, l, h) /\ GoTo(t, l, h)
<1> USE IdsAreDistinct DEF IInv
<1>1. target[t] \in Runtimes /\ service[target[t]] # Unborn
  BY DEF TypeOK, Drawn
<1>2. CASE service[target[t]] = None
  <2>1. Quiet(t, "idle", None)
    BY DEF Quiet
  <2>2. QED
    BY <1>2, <2>1 DEF AfterStop, Return, TypeOK
<1>3. CASE service[target[t]] # None
  <2>1. service[target[t]] \in Services
    BY <1>1, <1>3 DEF TypeOK
  <2>2. Quiet(t, "stop_services", target[t])
    BY <1>1, <2>1 DEF Quiet
  <2>3. QED
    BY <1>3, <2>2 DEF AfterStop, TypeOK
<1>4. QED
  BY <1>2, <1>3

LEMMA StopRemoveStep == ASSUME IInv, NEW t \in Threads, StopRemove(t) PROVE IInv'
<1> USE IdsAreDistinct DEF IInv
<1>1. target[t] \in known /\ target[t] \in Runtimes
  BY DEF StopRemove, Targets, TypeOK
<1>2. target[t] \notin hosts' /\ hosts' \subseteq hosts
  BY DEF StopRemove
<1>3. CASE target[t] \in hosts
  <2>1. Quiet(t, "stop_lock", target[t])
    BY <1>1, <1>2 DEF Quiet, StopRemove
  <2>2. MapTypes'
    BY <1>3 DEF StopRemove, MapTypes, TypeOK, hostVars, registry, serviceVars, handles
  <2>3. QED
    BY <1>2, <1>3, <2>1, <2>2, QuietStep, SameHosts DEF StopRemove, hostVars, registry, serviceVars, handles
<1>4. CASE target[t] \notin hosts
  <2>1. AfterStop(t, target[t]) /\ pc[t] = "stop_remove"
    BY <1>4 DEF StopRemove
  <2>2. answer' \in [Threads -> {"none", "clean", "failed"}]
    BY <1>1, <1>2, <2>1, AfterStopQuiet
  <2>3. PICK l, h : Quiet(t, l, h) /\ GoTo(t, l, h)
    BY <1>1, <1>2, <2>1, AfterStopQuiet
  <2>4. MapTypes'
    BY <2>2 DEF StopRemove, MapTypes, TypeOK, hostVars, registry, serviceVars, handles
  <2>5. QED
    BY <1>2, <2>3, <2>4, QuietStep, SameHosts DEF StopRemove, hostVars, registry, serviceVars, handles
<1>5. QED
  BY <1>3, <1>4

LEMMA StopLockedStep == ASSUME IInv, NEW t \in Threads, StopLocked(t) PROVE IInv'
<1> USE IdsAreDistinct DEF IInv
<1>1. /\ target[t] \in known /\ target[t] \in Runtimes
      /\ target[t] \notin hosts'
  BY DEF StopLocked, Targets, Stoppers, TypeOK
<1>2. MapTypes'
  BY <1>1 DEF StopLocked, MapTypes, TypeOK, hostVars, registry, serviceVars, handles
<1>3. CASE Send(t, target[t], "stop") /\ GoTo(t, "stop_recv", target[t])
  <2>1. HostTypes'
    BY <1>1, <1>3, SendType DEF Ops
  <2>2. Quiet(t, "stop_recv", target[t])
    BY <1>1 DEF Quiet, StopLocked
  <2>3. QED
    BY <1>2, <1>3, <2>1, <2>2, QuietStep DEF StopLocked, hostVars, registry, serviceVars, handles
<1>4. CASE Refused(target[t]) /\ GoTo(t, "stop_kill", target[t])
  <2>1. Quiet(t, "stop_kill", target[t])
    BY <1>1 DEF Quiet, StopLocked
  <2>2. QED
    BY <1>2, <1>4, <2>1, QuietStep, SameHosts DEF StopLocked, Refused, hostVars, registry, serviceVars, handles
<1>5. QED
  BY <1>3, <1>4 DEF StopLocked

LEMMA StopReceiveStep == ASSUME IInv, NEW t \in Threads, StopReceive(t) PROVE IInv'
<1> USE IdsAreDistinct DEF IInv
<1>1. target[t] \in Hosts
  BY DEF StopReceive, Targets, TypeOK
<1>2. PICK result \in Results :
        Receive(t, "stop", result) /\ answer' = [answer EXCEPT ![t] = Ending(result)]
  BY DEF StopReceive
<1>3. HostTypes'
  BY <1>1, <1>2, ReceiveType DEF Ops
<1>4. MapTypes'
  BY <1>2 DEF StopReceive, MapTypes, TypeOK, Ending, hostVars, registry, serviceVars, handles
<1>5. Quiet(t, "stop_kill", target[t])
  BY <1>1 DEF Quiet, StopReceive, Targets, Stoppers, registry
<1>6. QED
  BY <1>3, <1>4, <1>5, QuietStep DEF StopReceive, hostVars, registry, serviceVars, handles

LEMMA StopKillStep == ASSUME IInv, NEW t \in Threads, StopKill(t) PROVE IInv'
<1> USE IdsAreDistinct DEF IInv
<1>1. /\ target[t] \in known /\ target[t] \in Runtimes
      /\ target[t] \notin hosts' /\ pc[t] = "stop_kill"
  BY DEF StopKill, Targets, Stoppers, TypeOK
<1>2. PICK done \in BOOLEAN, removed \in BOOLEAN :
        /\ Terminate(target[t], done)
        /\ IF answer[t] = "clean" /\ done /\ removed
             THEN AfterStop(t, target[t])
             ELSE Return(t)
  BY DEF StopKill
<1>3. HostTypes'
  BY <1>1, <1>2, TerminateType
<1>4. CASE AfterStop(t, target[t])
  <2>1. answer' \in [Threads -> {"none", "clean", "failed"}]
    BY <1>1, <1>4, AfterStopQuiet
  <2>2. PICK l, h : Quiet(t, l, h) /\ GoTo(t, l, h)
    BY <1>1, <1>4, AfterStopQuiet
  <2>3. MapTypes'
    BY <2>1 DEF StopKill, MapTypes, TypeOK, hostVars, registry, serviceVars, handles
  <2>4. QED
    BY <1>3, <2>2, <2>3, QuietStep DEF StopKill, hostVars, registry, serviceVars, handles
<1>5. CASE Return(t)
  <2>1. Quiet(t, "idle", None)
    BY <1>1 DEF Quiet
  <2>2. MapTypes'
    BY <1>5 DEF StopKill, MapTypes, TypeOK, Return, hostVars, registry, serviceVars, handles
  <2>3. QED
    BY <1>3, <1>5, <2>1, <2>2, QuietStep DEF StopKill, Return, hostVars, registry, serviceVars, handles
<1>6. QED
  BY <1>2, <1>4, <1>5

LEMMA StopServicesStep == ASSUME IInv, NEW t \in Threads, StopServices(t) PROVE IInv'
<1> USE IdsAreDistinct DEF IInv
<1>1. /\ target[t] \in known /\ target[t] \in Runtimes
      /\ target[t] \notin hosts' /\ service[target[t]] \in Services
  BY DEF StopServices, Targets, Stoppers, TypeOK, registry
<1>2. CASE service[target[t]] \in services
  <2>1. Quiet(t, "stop_record", target[t])
    BY <1>1 DEF Quiet, StopServices
  <2>2. MapTypes'
    BY <1>2 DEF StopServices, MapTypes, TypeOK, hostVars, registry, serviceVars, handles
  <2>3. QED
    BY <1>2, <2>1, <2>2, QuietStep, SameHosts DEF StopServices, hostVars, registry, serviceVars, handles
<1>3. CASE service[target[t]] \notin services
  <2>1. Quiet(t, "idle", None)
    BY DEF Quiet, StopServices
  <2>2. MapTypes'
    BY <1>3 DEF StopServices, MapTypes, TypeOK, Return, hostVars, registry, serviceVars, handles
  <2>3. QED
    BY <1>3, <2>1, <2>2, QuietStep, SameHosts DEF StopServices, Return, hostVars, registry, serviceVars, handles
<1>4. QED
  BY <1>2, <1>3

LEMMA PrepareReceiveStep == ASSUME IInv, NEW t \in Threads, PrepareReceive(t) PROVE IInv'
<1> USE IdsAreDistinct DEF IInv
<1>1. target[t] \in Services
  BY DEF PrepareReceive, Targets
<1>2. PICK result \in Results, l \in {"prepare_insert", "prepare_kill"} :
        Receive(t, "start", result) /\ GoTo(t, l, target[t])
  BY DEF PrepareReceive
<1>3. HostTypes'
  BY <1>1, <1>2, ReceiveType DEF Ops
<1>4. Quiet(t, l, target[t])
  BY <1>1, <1>2 DEF Quiet, PrepareReceive
<1>5. QED
  BY <1>2, <1>3, <1>4, QuietStep, SameMaps DEF PrepareReceive, hostVars, registry, serviceVars, handles

LEMMA ReleaseReceiveStep == ASSUME IInv, NEW t \in Threads, ReleaseReceive(t) PROVE IInv'
<1> USE IdsAreDistinct DEF IInv
<1>1. target[t] \in Hosts
  BY DEF ReleaseReceive, Targets, TypeOK
<1>2. PICK result \in Results :
        Receive(t, "stop", result) /\ answer' = [answer EXCEPT ![t] = Ending(result)]
  BY DEF ReleaseReceive
<1>3. HostTypes'
  BY <1>1, <1>2, ReceiveType DEF Ops
<1>4. MapTypes'
  BY <1>2 DEF ReleaseReceive, MapTypes, TypeOK, Ending, hostVars, registry, serviceVars, handles
<1>5. Quiet(t, "release_kill", target[t])
  BY <1>1 DEF Quiet, Records, ReleaseReceive, Targets
<1>6. QED
  BY <1>3, <1>4, <1>5, QuietStep DEF ReleaseReceive, hostVars, registry, serviceVars, handles

LEMMA ReleaseRemoveStep == ASSUME IInv, NEW t \in Threads, ReleaseRemove(t) PROVE IInv'
<1> USE IdsAreDistinct DEF IInv
<1>1. Quiet(t, "idle", None)
  BY DEF Quiet, ReleaseRemove
<1>2. MapTypes'
  BY DEF ReleaseRemove, MapTypes, TypeOK, Return, hostVars, registry, serviceVars, handles
<1>3. QED
  BY <1>1, <1>2, QuietStep, SameHosts DEF ReleaseRemove, Return, hostVars, registry, serviceVars, handles
-------------------------------------------------------------------------------
(* The steps that draw ids, hold records or change users and states. *)

LEMMA GoToIs ==
  ASSUME TypeOK, NEW t, NEW l, NEW h, GoTo(t, l, h)
  PROVE  /\ pc' = [u \in Threads |-> IF u = t THEN l ELSE pc[u]]
         /\ target' = [u \in Threads |-> IF u = t THEN h ELSE target[u]]
  BY DEF TypeOK, GoTo

\* A call that begins with a fresh id: of a runtime, under the record's lock
\* if it has a service s.
LEMMA DrawRuntime ==
  ASSUME IInv, NEW t \in Threads, NEW r \in Runtimes, NEW s \in Services \cup {None},
         service[r] = Unborn, pc[t] \in {"idle", "start_record"},
         service' = [service EXCEPT ![r] = s],
         s # None => state[s] = "Active" /\ recordLock[s] = None,
         recordLock' = IF s = None THEN recordLock ELSE [recordLock EXCEPT ![s] = t],
         Spawn(t, r), GoTo(t, "start_recv", r),
         UNCHANGED <<registry, services, servicesLock, state, users, known, answer>>
  PROVE  IInv'
<1> USE IdsAreDistinct DEF IInv
<1>1. /\ pc' = [u \in Threads |-> IF u = t THEN "start_recv" ELSE pc[u]]
      /\ target' = [u \in Threads |-> IF u = t THEN r ELSE target[u]]
  BY GoToIs
<1>2. /\ \A q \in Runtimes : service'[q] = IF q = r THEN s ELSE service[q]
      /\ \A z \in Services : recordLock'[z] = IF z = s THEN t ELSE recordLock[z]
  BY DEF TypeOK
<1>3. r \notin known /\ r \notin hosts
  BY DEF Drawn, Unborn
<1>4. HostTypes'
  BY SpawnType
<1>5. service' \in [Runtimes -> Services \cup {None, Unborn}]
      /\ recordLock' \in [Services -> Threads \cup {None}]
  BY DEF TypeOK
<1>6. TypeOK'
  BY <1>1, <1>4, <1>5 DEF TypeOK, HostTypes, registry
<1> HIDE DEF GoTo
<1>7. Targets'
  BY <1>1, <1>2, <1>3 DEF Targets, TypeOK
<1>8. Drawn'
  BY <1>2, <1>3 DEF Drawn, TypeOK, registry
<1>9. Starters'
  <2> SUFFICES ASSUME NEW u \in Threads, pc'[u] \in StartPCs
               PROVE  /\ target'[u] \in Runtimes \ known
                      /\ service'[target'[u]] # Unborn
                      /\ service'[target'[u]] # None =>
                           /\ recordLock'[service'[target'[u]]] = u
                           /\ state[service'[target'[u]]] = "Active"
    BY DEF Starters
  <2>0. s # Unborn
    OBVIOUS
  <2>1. CASE u = t
    BY <1>1, <1>2, <1>3, <2>0, <2>1 DEF TypeOK
  <2>2. CASE u # t
    <3>1. pc[u] \in StartPCs /\ target'[u] = target[u] /\ target[u] # r
      BY <1>1, <2>2 DEF Starters
    <3>2. service'[target[u]] = service[target[u]]
      BY <1>2, <3>1 DEF Starters
    <3>3. ASSUME service[target[u]] # None
          PROVE  /\ service[target[u]] \in Services
                 /\ recordLock[service[target[u]]] = u
                 /\ service[target[u]] # s
      BY <3>1, <3>3 DEF Starters, TypeOK
    <3>4. QED
      BY <1>2, <3>1, <3>2, <3>3 DEF Starters
  <2>3. QED
    BY <2>1, <2>2
<1>10. Disjoint'
  BY <1>1 DEF Disjoint, Starters
<1>11. Preparers'
  BY <1>1 DEF Preparers
<1>12. Releasers'
  BY <1>1, <1>2 DEF Releasers, Targets
<1>13. Stoppers'
  BY <1>1 DEF Stoppers, registry
<1>14. Registered'
  <2> SUFFICES ASSUME NEW q \in hosts, service'[q] # None, q \notin users[service'[q]]
               PROVE  \E u \in Threads : pc'[u] = "start_register" /\ target'[u] = q
    BY DEF Registered, registry
  <2>1. service'[q] = service[q]
    BY <1>2, <1>3 DEF TypeOK
  <2>2. PICK u \in Threads : pc[u] = "start_register" /\ target[u] = q
    BY <2>1 DEF Registered
  <2>3. QED
    BY <1>1, <2>2
<1>15. ReachableRuntimeHoldsService'
  BY <1>2, <1>3 DEF ReachableRuntimeHoldsService, TypeOK, registry
<1>16. Records'
  BY <1>1 DEF Records, registry
<1>17. QED
  BY <1>6, <1>7, <1>8, <1>9, <1>10, <1>11, <1>12, <1>13, <1>14, <1>15, <1>16


LEMMA StartRuntimeStep == ASSUME IInv, NEW t \in Threads, StartRuntime(t) PROVE IInv'
<1> USE IdsAreDistinct DEF IInv
<1>1. PICK r \in Runtimes :
        /\ service[r] = Unborn /\ service' = [service EXCEPT ![r] = None]
        /\ Spawn(t, r) /\ GoTo(t, "start_recv", r)
  BY DEF StartRuntime
<1>2. QED
  BY <1>1, DrawRuntime DEF StartRuntime, hostVars, registry, serviceVars, handles

LEMMA StartLockedStep == ASSUME IInv, NEW t \in Threads, StartLocked(t) PROVE IInv'
<1> USE IdsAreDistinct DEF IInv
<1>1. target[t] \in Services /\ pc[t] = "start_record"
  BY DEF StartLocked, Targets
<1>2. CASE Return(t) /\ UNCHANGED <<hostVars, service, recordLock>>
  <2>1. Quiet(t, "idle", None)
    BY <1>1 DEF Quiet
  <2>2. MapTypes'
    BY <1>2 DEF StartLocked, MapTypes, TypeOK, Return, hostVars, registry, serviceVars, handles
  <2>3. QED
    BY <1>2, <2>1, <2>2, QuietStep, SameHosts DEF StartLocked, Return, hostVars, registry, serviceVars, handles
<1>3. CASE ~(Return(t) /\ UNCHANGED <<hostVars, service, recordLock>>)
  <2>1. PICK r \in Runtimes :
          /\ service[r] = Unborn /\ service' = [service EXCEPT ![r] = target[t]]
          /\ Spawn(t, r) /\ GoTo(t, "start_recv", r)
    BY <1>3 DEF StartLocked
  <2>2. /\ Startable(target[t]) /\ recordLock[target[t]] = None
        /\ recordLock' = [recordLock EXCEPT ![target[t]] = t]
        /\ UNCHANGED answer
    BY <1>3 DEF StartLocked
  <2>3. QED
    BY <1>1, <2>1, <2>2, DrawRuntime DEF StartLocked, Startable, hostVars, registry, serviceVars, handles
<1>4. QED
  BY <1>2, <1>3

LEMMA StartKillStep == ASSUME IInv, NEW t \in Threads, StartKill(t) PROVE IInv'
<1> USE IdsAreDistinct DEF IInv
<1>1. /\ pc' = [u \in Threads |-> IF u = t THEN "idle" ELSE pc[u]]
      /\ target' = [u \in Threads |-> IF u = t THEN None ELSE target[u]]
  BY GoToIs DEF StartKill, Return
<1>2. pc[t] = "start_kill" /\ target[t] \in Runtimes
  BY DEF StartKill, Starters
<1>3. PICK done \in BOOLEAN : Terminate(target[t], done)
  BY DEF StartKill
<1>4. HostTypes'
  BY <1>2, <1>3, TerminateType
<1>5. \A s \in Services :
        recordLock'[s] = IF s = service[target[t]] THEN None ELSE recordLock[s]
  BY DEF StartKill, UnlockRecord
<1>6. TypeOK'
  BY <1>1, <1>4 DEF StartKill, UnlockRecord, Return, TypeOK, HostTypes, hostVars, registry, serviceVars, handles
<1>7. Targets'
  BY <1>1 DEF Targets, StartKill, handles
<1>8. Drawn'
  BY DEF Drawn, StartKill, registry, handles
<1>9. Starters'
  <2> SUFFICES ASSUME NEW u \in Threads, u # t, pc[u] \in StartPCs,
                      service[target[u]] # None
               PROVE  recordLock'[service[target[u]]] = u
    BY <1>1 DEF Starters, StartKill, handles
  <2>1. service[target[u]] \in Services /\ recordLock[service[target[u]]] = u
    BY DEF Starters, TypeOK
  <2>2. service[target[u]] # service[target[t]]
    BY <1>2, <2>1 DEF Starters
  <2>3. QED
    BY <1>5, <2>1, <2>2
<1>10. Disjoint'
  BY <1>1 DEF Disjoint
<1>11. Preparers'
  BY <1>1 DEF Preparers, StartKill
<1>12. Releasers'
  <2> SUFFICES ASSUME NEW u \in Threads, pc[u] \in HeldReleasePCs, u # t
               PROVE  recordLock'[target[u]] = u
    BY <1>1 DEF Releasers, StartKill, StartRegister
  <2>1. target[u] \in Services /\ recordLock[target[u]] = u
    BY DEF Releasers, Targets
  <2>2. target[u] # service[target[t]]
    BY <1>2, <2>1 DEF Starters
  <2>3. QED
    BY <1>5, <2>1, <2>2
<1>13. Stoppers'
  BY <1>1 DEF Stoppers, StartKill, registry
<1>14. Registered'
  <2> SUFFICES ASSUME NEW r \in hosts', service'[r] # None, r \notin users'[service'[r]]
               PROVE  \E u \in Threads : pc'[u] = "start_register" /\ target'[u] = r
    BY DEF Registered
  <2>1. PICK u \in Threads : pc[u] = "start_register" /\ target[u] = r
    BY DEF Registered, StartKill, registry, handles
  <2>2. QED
    BY <1>1, <1>2, <2>1
<1>15. ReachableRuntimeHoldsService'
  BY DEF ReachableRuntimeHoldsService, StartKill, registry, handles
<1>16. Records'
  BY <1>1 DEF Records, StartKill, serviceVars
<1>17. QED
  BY <1>6, <1>7, <1>8, <1>9, <1>10, <1>11, <1>12, <1>13, <1>14, <1>15, <1>16

LEMMA StartPublishStep == ASSUME IInv, NEW t \in Threads, StartPublish(t) PROVE IInv'
<1> USE IdsAreDistinct DEF IInv
<1>1. /\ pc' = [u \in Threads |-> IF u = t THEN "start_register" ELSE pc[u]]
      /\ target' = [u \in Threads |-> IF u = t THEN target[t] ELSE target[u]]
  BY GoToIs DEF StartPublish
<1>2. /\ pc[t] = "start_publish" /\ target[t] \in Runtimes \ known
      /\ hosts' = hosts \cup {target[t]}
  BY DEF StartPublish, Starters
<1>3. TypeOK'
  BY <1>1, <1>2 DEF StartPublish, TypeOK, hostVars, registry, serviceVars, handles
<1>4. Targets'
  BY <1>1 DEF Targets, StartPublish, handles
<1>5. Drawn'
  BY <1>2 DEF Drawn, Starters, StartPublish, handles
<1>6. Starters'
  BY <1>1 DEF Starters, StartPublish, serviceVars, handles
<1>7. Disjoint'
  BY <1>1, <1>2 DEF Disjoint
<1>8. Preparers'
  BY <1>1 DEF Preparers, StartPublish, serviceVars
<1>9. Releasers'
  BY <1>1 DEF Releasers, StartPublish, serviceVars
<1>10. Stoppers'
  BY <1>1, <1>2 DEF Stoppers, Targets
<1>11. Registered'
  <2> SUFFICES ASSUME NEW r \in hosts', service'[r] # None, r \notin users'[service'[r]]
               PROVE  \E u \in Threads : pc'[u] = "start_register" /\ target'[u] = r
    BY DEF Registered
  <2>1. CASE r = target[t]
    BY <1>1, <2>1
  <2>2. CASE r # target[t]
    <3>1. PICK u \in Threads : pc[u] = "start_register" /\ target[u] = r
      BY <1>2, <2>2 DEF Registered, StartPublish, serviceVars, handles
    <3>2. QED
      BY <1>1, <1>2, <3>1
  <2>3. QED
    BY <2>1, <2>2
<1>12. ReachableRuntimeHoldsService'
  BY <1>2 DEF ReachableRuntimeHoldsService, Starters, StartPublish, serviceVars, handles
<1>13. Records'
  BY <1>1 DEF Records, StartPublish, serviceVars
<1>14. QED
  BY <1>3, <1>4, <1>5, <1>6, <1>7, <1>8, <1>9, <1>10, <1>11, <1>12, <1>13

LEMMA StartRegisterStep == ASSUME IInv, NEW t \in Threads, StartRegister(t) PROVE IInv'
<1> USE IdsAreDistinct DEF IInv
<1>1. /\ pc' = [u \in Threads |-> IF u = t THEN "idle" ELSE pc[u]]
      /\ target' = [u \in Threads |-> IF u = t THEN None ELSE target[u]]
  BY GoToIs DEF StartRegister, Return
<1>2. pc[t] = "start_register" /\ target[t] \in Runtimes \ known
  BY DEF StartRegister, Starters
<1>3. \A s \in Services :
        /\ recordLock'[s] = IF s = service[target[t]] THEN None ELSE recordLock[s]
        /\ users'[s] = IF s = service[target[t]] THEN users[s] \cup {target[t]} ELSE users[s]
  BY DEF StartRegister, UnlockRecord
<1>4. known' = known \cup {target[t]}
  BY DEF StartRegister
<1>5. users' \in [Services -> SUBSET Runtimes]
      /\ recordLock' \in [Services -> Threads \cup {None}]
  BY <1>2 DEF StartRegister, UnlockRecord, TypeOK
<1>6. TypeOK'
  BY <1>1, <1>2, <1>4, <1>5, SameHosts DEF StartRegister, Return, TypeOK, hostVars, registry, serviceVars, handles
<1>7. Targets'
  BY <1>1, <1>4 DEF Targets, StartRegister
<1>8. Drawn'
  BY <1>2, <1>4 DEF Drawn, Starters, StartRegister, registry
<1>9. Starters'
  <2> SUFFICES ASSUME NEW u \in Threads, u # t, pc[u] \in StartPCs
               PROVE  /\ target[u] \notin known'
                      /\ service[target[u]] # None =>
                           recordLock'[service[target[u]]] = u
    BY <1>1 DEF Starters, StartRegister
  <2>1. target[u] \notin known'
    BY <1>2, <1>4 DEF Starters, Disjoint
  <2>2. ASSUME service[target[u]] # None
        PROVE  recordLock'[service[target[u]]] = u
    <3>1. service[target[u]] \in Services /\ recordLock[service[target[u]]] = u
      BY <2>2 DEF Starters, TypeOK
    <3>2. service[target[u]] # service[target[t]]
      BY <1>2, <2>2, <3>1 DEF Starters
    <3>3. QED
      BY <1>3, <3>1, <3>2
  <2>3. QED
    BY <2>1, <2>2
<1>10. Disjoint'
  BY <1>1 DEF Disjoint
<1>11. Preparers'
  BY <1>1 DEF Preparers, StartRegister
<1>12. Releasers'
  <2> SUFFICES ASSUME NEW u \in Threads, pc[u] \in HeldReleasePCs, u # t
               PROVE  recordLock'[target[u]] = u
    BY <1>1 DEF Releasers, StartKill, StartRegister
  <2>1. target[u] \in Services /\ recordLock[target[u]] = u
    BY DEF Releasers, Targets
  <2>2. target[u] # service[target[t]]
    BY <1>2, <2>1 DEF Starters
  <2>3. QED
    BY <1>3, <2>1, <2>2
<1>13. Stoppers'
  BY <1>1 DEF Stoppers, StartRegister, registry
<1>14. Registered'
  <2> SUFFICES ASSUME NEW r \in hosts', service'[r] # None, r \notin users'[service'[r]]
               PROVE  \E u \in Threads : pc'[u] = "start_register" /\ target'[u] = r
    BY DEF Registered
  <2>1. service[r] \in Services /\ r \in hosts /\ service'[r] = service[r]
    BY DEF StartRegister, registry, Drawn, TypeOK
  <2>2. r # target[t] /\ r \notin users[service[r]]
    BY <1>3, <2>1
  <2>3. PICK u \in Threads : pc[u] = "start_register" /\ target[u] = r
    BY <2>1, <2>2 DEF Registered
  <2>4. QED
    BY <1>1, <2>2, <2>3
<1>15. ReachableRuntimeHoldsService'
  BY DEF ReachableRuntimeHoldsService, StartRegister, registry
<1>16. Records'
  BY <1>1 DEF Records, StartRegister, serviceVars
<1>17. QED
  BY <1>6, <1>7, <1>8, <1>9, <1>10, <1>11, <1>12, <1>13, <1>14, <1>15, <1>16

LEMMA StopRecordStep == ASSUME IInv, NEW t \in Threads, StopRecord(t) PROVE IInv'
<1> USE IdsAreDistinct DEF IInv
<1>1. /\ pc' = [u \in Threads |-> IF u = t THEN "idle" ELSE pc[u]]
      /\ target' = [u \in Threads |-> IF u = t THEN None ELSE target[u]]
  BY GoToIs DEF StopRecord, Return
<1>2. /\ pc[t] = "stop_record" /\ target[t] \in known /\ target[t] \notin hosts
      /\ service[target[t]] \in Services
  BY DEF StopRecord, Targets, Stoppers
<1>3. \A s \in Services :
        users'[s] = IF s = service[target[t]] THEN users[s] \ {target[t]} ELSE users[s]
  BY DEF StopRecord, TypeOK
<1>4. TypeOK'
  BY <1>1, SameHosts DEF StopRecord, Return, TypeOK, hostVars, registry, serviceVars, handles
<1>5. Targets'
  BY <1>1 DEF Targets, StopRecord, handles
<1>6. Drawn'
  BY DEF Drawn, StopRecord, registry, handles
<1>7. Starters'
  BY <1>1 DEF Starters, StopRecord, handles
<1>8. Disjoint'
  BY <1>1 DEF Disjoint
<1>9. Preparers'
  BY <1>1 DEF Preparers, StopRecord
<1>10. Releasers'
  BY <1>1 DEF Releasers, StopRecord
<1>11. Stoppers'
  BY <1>1 DEF Stoppers, StopRecord, registry
<1>12. Registered'
  <2> SUFFICES ASSUME NEW r \in hosts', service'[r] # None, r \notin users'[service'[r]]
               PROVE  \E u \in Threads : pc'[u] = "start_register" /\ target'[u] = r
    BY DEF Registered
  <2>1. service[r] \in Services /\ r \in hosts /\ service'[r] = service[r]
    BY DEF StopRecord, registry, handles, Drawn, TypeOK
  <2>2. r \notin users[service[r]]
    BY <1>2, <1>3, <2>1
  <2>3. PICK u \in Threads : pc[u] = "start_register" /\ target[u] = r
    BY <2>1, <2>2 DEF Registered
  <2>4. QED
    BY <1>1, <1>2, <2>3
<1>13. ReachableRuntimeHoldsService'
  BY DEF ReachableRuntimeHoldsService, StopRecord, registry, handles
<1>14. Records'
  BY <1>1 DEF Records, StopRecord, serviceVars
<1>15. QED
  BY <1>4, <1>5, <1>6, <1>7, <1>8, <1>9, <1>10, <1>11, <1>12, <1>13, <1>14

\* Thread t may give record s the state v and go on to l, with the record's
\* lock held by t or free: no runtime and no start depends on s.
Settled(t, s, v, l) ==
  /\ v \in Recorded \cup {"preparing", "abandoned"}
  /\ l \in {"idle", "prepare_recv", "release_recv", "release_kill", "release_remove"}
  /\ l = "prepare_recv" => v = "preparing"
  /\ l \in HeldReleasePCs => v = "Releasing" /\ recordLock'[s] = t
  /\ l = "release_remove" \/ state[s] \in Recorded \/ s \in services' => v \in Recorded
  /\ services' \subseteq services \cup {s}
  /\ recordLock' \in [Services -> Threads \cup {None}]
  /\ \A z \in Services \ {s} : recordLock'[z] = recordLock[z]
  /\ pc[t] \notin StartPCs
  /\ \A r \in hosts : service[r] # s
  /\ \A u \in Threads : pc[u] \in StartPCs => service[target[u]] # s
  /\ \A u \in Threads \ {t} : pc[u] \in PreparePCs \cup HeldReleasePCs => target[u] # s

LEMMA RecordStep ==
  ASSUME IInv, NEW t \in Threads, NEW s \in Services, NEW v, NEW l, NEW h,
         Settled(t, s, v, l), h = IF l = "idle" THEN None ELSE s,
         GoTo(t, l, h), HostTypes', MapTypes',
         state' = [state EXCEPT ![s] = v],
         UNCHANGED <<hosts, users, handles>>
  PROVE  IInv'
<1> USE IdsAreDistinct DEF IInv, handles, Settled
<1>1. /\ pc' = [u \in Threads |-> IF u = t THEN l ELSE pc[u]]
      /\ target' = [u \in Threads |-> IF u = t THEN h ELSE target[u]]
  BY GoToIs
<1>2. \A z \in Services : state'[z] = IF z = s THEN v ELSE state[z]
  BY DEF TypeOK
<1> HIDE DEF GoTo
<1>3. TypeOK'
  <2>1. pc' \in [Threads -> PCs] /\ target' \in [Threads -> Hosts \cup {None}]
    BY <1>1 DEF TypeOK
  <2>2. state' \in [Services -> Recorded \cup {Unborn, "preparing", "abandoned"}]
    BY DEF TypeOK
  <2>3. QED
    BY <2>1, <2>2 DEF TypeOK, HostTypes, MapTypes
<1>4. Targets'
  BY <1>1 DEF Targets
<1>5. Drawn'
  BY DEF Drawn
<1>6. Starters'
  <2> SUFFICES ASSUME NEW u \in Threads, u # t, pc[u] \in StartPCs,
                      service[target[u]] # None
               PROVE  /\ recordLock'[service[target[u]]] = u
                      /\ state'[service[target[u]]] = "Active"
    BY <1>1 DEF Starters
  <2>1. service[target[u]] \in Services \ {s}
    BY DEF Starters, TypeOK
  <2>2. QED
    BY <1>2, <2>1 DEF Starters
<1>7. Disjoint'
  BY <1>1 DEF Disjoint
<1>8. Preparers'
  <2> SUFFICES ASSUME NEW u \in Threads, pc'[u] \in PreparePCs
               PROVE  state'[target'[u]] = "preparing"
    BY DEF Preparers
  <2>1. CASE u = t
    BY <1>1, <1>2, <2>1
  <2>2. CASE u # t
    BY <1>1, <1>2, <2>2 DEF Preparers, Targets
  <2>3. QED
    BY <2>1, <2>2
<1>9. Releasers'
  <2> SUFFICES ASSUME NEW u \in Threads, pc'[u] \in HeldReleasePCs
               PROVE  recordLock'[target'[u]] = u /\ state'[target'[u]] = "Releasing"
    BY DEF Releasers
  <2>1. CASE u = t
    BY <1>1, <1>2, <2>1
  <2>2. CASE u # t
    BY <1>1, <1>2, <2>2 DEF Releasers, Targets
  <2>3. QED
    BY <2>1, <2>2
<1>10. Records'
  <2>1. \A z \in services' : state'[z] \in Recorded
    BY <1>2, <1>3 DEF Records, TypeOK
  <2> SUFFICES ASSUME NEW u \in Threads, pc'[u] \in RecordPCs
               PROVE  state'[target'[u]] \in Recorded
    BY <2>1 DEF Records
  <2>2. CASE u = t
    BY <1>1, <1>2, <2>2 DEF Recorded
  <2>3. CASE u # t
    BY <1>1, <1>2, <2>3 DEF Records, Targets
  <2>4. QED
    BY <2>2, <2>3
<1>11. Stoppers'
  BY <1>1 DEF Stoppers
<1>12. Registered'
  <2> SUFFICES ASSUME NEW r \in hosts, service[r] # None, r \notin users[service[r]]
               PROVE  \E u \in Threads : pc'[u] = "start_register" /\ target'[u] = r
    BY DEF Registered
  <2>1. PICK u \in Threads : pc[u] = "start_register" /\ target[u] = r
    BY DEF Registered
  <2>2. QED
    BY <1>1, <2>1
<1>13. ReachableRuntimeHoldsService'
  <2> SUFFICES ASSUME NEW r \in hosts, service[r] # None
               PROVE  state'[service[r]] = "Active"
    BY DEF ReachableRuntimeHoldsService
  <2>1. service[r] \in Services \ {s}
    BY DEF Drawn, TypeOK
  <2>2. QED
    BY <1>2, <2>1 DEF ReachableRuntimeHoldsService
<1>14. QED
  BY <1>3, <1>4, <1>5, <1>6, <1>7, <1>8, <1>9, <1>10, <1>11, <1>12, <1>13

\* While the state of a record is not Active, no runtime and no start is on it.
LEMMA InactiveIsFree ==
  ASSUME IInv, NEW s \in Services, state[s] # "Active"
  PROVE  /\ \A r \in hosts : service[r] # s
         /\ \A u \in Threads : pc[u] \in StartPCs => service[target[u]] # s
  BY IdsAreDistinct DEF IInv, ReachableRuntimeHoldsService, Starters

LEMMA PrepareServiceStep == ASSUME IInv, NEW t \in Threads, PrepareService(t) PROVE IInv'
<1> USE IdsAreDistinct DEF IInv
<1>1. PICK s \in Services :
        /\ state[s] = Unborn /\ state' = [state EXCEPT ![s] = "preparing"]
        /\ Spawn(t, s) /\ GoTo(t, "prepare_recv", s)
  BY DEF PrepareService
<1>2. pc[t] = "idle"
  BY DEF PrepareService
<1>3. HostTypes'
  BY <1>1, SpawnType
<1>4. MapTypes'
  BY SameMaps DEF PrepareService, registry, handles
<1>5. state[s] \notin Recorded /\ s \notin services
  BY <1>1 DEF Records, Recorded, Unborn
<1>6. /\ \A r \in hosts : service[r] # s
      /\ \A u \in Threads : pc[u] \in StartPCs => service[target[u]] # s
  BY <1>5, InactiveIsFree DEF Recorded
<1>7. \A u \in Threads : pc[u] \in PreparePCs \cup HeldReleasePCs => target[u] # s
  BY <1>1 DEF Preparers, Releasers, Unborn
<1>8. recordLock' \in [Services -> Threads \cup {None}]
  BY DEF PrepareService, TypeOK
<1>9. UNCHANGED <<hosts, users, handles, services, recordLock>>
  BY DEF PrepareService, registry
<1>10. Settled(t, s, "preparing", "prepare_recv")
  BY <1>2, <1>5, <1>6, <1>7, <1>8, <1>9 DEF Settled
<1>11. QED
  BY <1>1, <1>3, <1>4, <1>9, <1>10, RecordStep

LEMMA PrepareKillStep == ASSUME IInv, NEW t \in Threads, PrepareKill(t) PROVE IInv'
<1> USE IdsAreDistinct DEF IInv
<1>1. /\ pc[t] = "prepare_kill" /\ target[t] \in Services
      /\ state[target[t]] = "preparing"
  BY DEF PrepareKill, Targets, Preparers
<1>2. PICK done \in BOOLEAN : Terminate(target[t], done)
  BY DEF PrepareKill
<1>3. HostTypes'
  BY <1>1, <1>2, TerminateType
<1>4. MapTypes'
  BY DEF PrepareKill, Return, MapTypes, TypeOK, registry
<1>5. state[target[t]] \notin Recorded /\ target[t] \notin services
  BY <1>1 DEF Records, Recorded
<1>6. /\ \A r \in hosts : service[r] # target[t]
      /\ \A u \in Threads : pc[u] \in StartPCs => service[target[u]] # target[t]
  BY <1>1, InactiveIsFree
<1>7. \A u \in Threads \ {t} : pc[u] \in PreparePCs \cup HeldReleasePCs => target[u] # target[t]
  BY <1>1 DEF Disjoint, Releasers
<1>8. /\ GoTo(t, "idle", None) /\ state' = [state EXCEPT ![target[t]] = "abandoned"]
      /\ recordLock' \in [Services -> Threads \cup {None}]
      /\ UNCHANGED <<hosts, users, handles, services, recordLock>>
  BY DEF PrepareKill, Return, TypeOK, registry
<1>9. Settled(t, target[t], "abandoned", "idle")
  BY <1>1, <1>5, <1>6, <1>7, <1>8 DEF Settled
<1>10. QED
  BY <1>1, <1>3, <1>4, <1>8, <1>9, RecordStep

LEMMA PrepareInsertStep == ASSUME IInv, NEW t \in Threads, PrepareInsert(t) PROVE IInv'
<1> USE IdsAreDistinct DEF IInv
<1>1. /\ pc[t] = "prepare_insert" /\ target[t] \in Services
      /\ state[target[t]] = "preparing"
  BY DEF PrepareInsert, Targets, Preparers
<1>2. HostTypes'
  BY SameHosts DEF PrepareInsert
<1>3. MapTypes'
  BY <1>1 DEF PrepareInsert, Return, MapTypes, TypeOK, registry
<1>4. /\ \A r \in hosts : service[r] # target[t]
      /\ \A u \in Threads : pc[u] \in StartPCs => service[target[u]] # target[t]
  BY <1>1, InactiveIsFree
<1>5. \A u \in Threads \ {t} : pc[u] \in PreparePCs \cup HeldReleasePCs => target[u] # target[t]
  BY <1>1 DEF Disjoint, Releasers
<1>6. /\ GoTo(t, "idle", None) /\ state' = [state EXCEPT ![target[t]] = "Active"]
      /\ recordLock' \in [Services -> Threads \cup {None}]
      /\ services' = services \cup {target[t]}
      /\ UNCHANGED <<hosts, users, handles, recordLock>>
  BY DEF PrepareInsert, Return, TypeOK, registry
<1>7. "Active" \in Recorded
  BY DEF Recorded
<1>8. Settled(t, target[t], "Active", "idle")
  BY <1>1, <1>4, <1>5, <1>6, <1>7 DEF Settled
<1>9. QED
  BY <1>1, <1>2, <1>3, <1>6, <1>8, RecordStep

LEMMA ReleaseLockedStep == ASSUME IInv, NEW t \in Threads, ReleaseLocked(t) PROVE IInv'
<1> USE IdsAreDistinct DEF IInv
<1> DEFINE s == target[t]
<1>1. /\ pc[t] = "release_record" /\ s \in Services /\ recordLock[s] = None
      /\ state[s] \in Recorded
  BY DEF ReleaseLocked, Targets, Records
<1>2. CASE state[s] = "Released" \/ users[s] # {}
  <2>1. Return(t) /\ UNCHANGED <<hostVars, state, recordLock>>
    BY <1>2 DEF ReleaseLocked
  <2>2. Quiet(t, "idle", None)
    BY <1>1 DEF Quiet
  <2>3. MapTypes'
    BY <2>1 DEF ReleaseLocked, MapTypes, TypeOK, Return, registry
  <2>4. QED
    BY <2>1, <2>2, <2>3, QuietStep, SameHosts DEF ReleaseLocked, Return, registry
<1>3. CASE ~(state[s] = "Released" \/ users[s] # {})
  <2>1. /\ state' = [state EXCEPT ![s] = "Releasing"]
        /\ recordLock' = [recordLock EXCEPT ![s] = t]
        /\ users[s] = {}
        /\ UNCHANGED <<hosts, services, users, handles>>
    BY <1>3 DEF ReleaseLocked, registry
  <2>2. \A u \in Threads : pc[u] \in StartPCs => service[target[u]] # s
    BY <1>1 DEF Starters
  <2>3. \A r \in hosts : service[r] # s
    BY <1>1, <2>1, <2>2 DEF Registered
  <2>4. \A u \in Threads \ {t} : pc[u] \in PreparePCs \cup HeldReleasePCs => target[u] # s
    BY <1>1 DEF Preparers, Releasers, Recorded
  <2>5. /\ recordLock' \in [Services -> Threads \cup {None}] /\ recordLock'[s] = t
        /\ \A z \in Services \ {s} : recordLock'[z] = recordLock[z]
    BY <1>1, <2>1 DEF TypeOK
  <2>6. PICK l \in {"release_recv", "release_kill"} :
          /\ GoTo(t, l, s) /\ HostTypes' /\ answer' \in [Threads -> {"none", "clean", "failed"}]
    <3>1. CASE Send(t, s, "stop") /\ GoTo(t, "release_recv", s) /\ UNCHANGED answer
      BY <1>1, <3>1, SendType DEF Ops, TypeOK
    <3>2. CASE /\ Refused(s) /\ GoTo(t, "release_kill", s)
               /\ answer' = [answer EXCEPT ![t] = "clean"]
      BY <3>2, SameHosts DEF Refused, TypeOK
    <3>3. QED
      BY <1>3, <3>1, <3>2 DEF ReleaseLocked
  <2>7. MapTypes'
    BY <2>6 DEF ReleaseLocked, MapTypes, TypeOK, registry
  <2>8. "Releasing" \in Recorded
    BY DEF Recorded
  <2> HIDE DEF s
  <2>9. Settled(t, s, "Releasing", l)
    BY <1>1, <2>1, <2>2, <2>3, <2>4, <2>5, <2>6, <2>8 DEF Settled
  <2>10. l # "idle"
    OBVIOUS
  <2>11. QED
    BY <1>1, <2>1, <2>6, <2>7, <2>9, <2>10, RecordStep
<1>4. QED
  BY <1>2, <1>3

LEMMA ReleaseKillStep == ASSUME IInv, NEW t \in Threads, ReleaseKill(t) PROVE IInv'
<1> USE IdsAreDistinct DEF IInv
<1> DEFINE s == target[t]
<1>1. /\ pc[t] = "release_kill" /\ s \in Services /\ recordLock[s] = t
      /\ state[s] = "Releasing"
  BY DEF ReleaseKill, Targets, Releasers
<1>2. PICK done \in BOOLEAN, removed \in BOOLEAN :
        /\ Terminate(s, done)
        /\ IF answer[t] = "clean" /\ done /\ removed
             THEN /\ state' = [state EXCEPT ![s] = "Released"]
                  /\ GoTo(t, "release_remove", s)
                  /\ UNCHANGED answer
             ELSE state' = [state EXCEPT ![s] = "ReleaseFailed"] /\ Return(t)
  BY DEF ReleaseKill
<1>3. HostTypes'
  BY <1>1, <1>2, TerminateType
<1>4. MapTypes'
  BY <1>2 DEF ReleaseKill, MapTypes, TypeOK, Return, registry
<1>5. /\ \A r \in hosts : service[r] # s
      /\ \A u \in Threads : pc[u] \in StartPCs => service[target[u]] # s
  BY <1>1, InactiveIsFree
<1>6. \A u \in Threads \ {t} : pc[u] \in PreparePCs \cup HeldReleasePCs => target[u] # s
  BY <1>1 DEF Preparers, Releasers
<1>7. /\ recordLock' \in [Services -> Threads \cup {None}]
      /\ \A z \in Services \ {s} : recordLock'[z] = recordLock[z]
      /\ UNCHANGED <<hosts, services, users, handles>>
  BY <1>1 DEF ReleaseKill, TypeOK, registry
<1>8. {"Released", "ReleaseFailed"} \subseteq Recorded
  BY DEF Recorded
<1> HIDE DEF s
<1>9. CASE answer[t] = "clean" /\ done /\ removed
  <2>1. Settled(t, s, "Released", "release_remove")
    BY <1>1, <1>5, <1>6, <1>7, <1>8 DEF Settled
  <2>2. QED
    BY <1>1, <1>2, <1>3, <1>4, <1>7, <1>9, <2>1, RecordStep
<1>10. CASE ~(answer[t] = "clean" /\ done /\ removed)
  <2>1. Settled(t, s, "ReleaseFailed", "idle")
    BY <1>1, <1>5, <1>6, <1>7, <1>8 DEF Settled
  <2>2. QED
    BY <1>1, <1>2, <1>3, <1>4, <1>7, <1>10, <2>1, RecordStep DEF Return
<1>11. QED
  BY <1>9, <1>10
-------------------------------------------------------------------------------
(* Steps of the host processes, and the theorems. *)

\* A step that changes only the processes and pipes, within their types.
LEMMA HostStep ==
  ASSUME IInv, HostTypes', UNCHANGED <<registry, serviceVars, handles, callVars>>
  PROVE  IInv'
<1> USE DEF IInv, registry, serviceVars, handles, callVars
<1>1. TypeOK'
  BY DEF TypeOK, HostTypes
<1>2. Targets' /\ Drawn' /\ Disjoint' /\ Stoppers'
  BY DEF Targets, Drawn, Disjoint, Stoppers
<1>3. Starters' /\ Preparers' /\ Releasers' /\ Records'
  BY DEF Starters, Preparers, Releasers, Records
<1>4. Registered' /\ ReachableRuntimeHoldsService'
  BY DEF Registered, ReachableRuntimeHoldsService
<1>5. QED
  BY <1>1, <1>2, <1>3, <1>4

LEMMA HostServesStep == ASSUME IInv, NEW h \in Hosts, HostServes(h) PROVE IInv'
<1> USE DEF IInv
<1>1. inbox[h] \in Seq(Request) /\ inbox[h] # <<>> /\ outbox[h] \in Seq(Reply)
  BY DEF HostServes, TypeOK
<1> DEFINE req == Head(inbox[h])
<1>2. req \in Request /\ Tail(inbox[h]) \in Seq(Request)
  BY <1>1
<1>3. PICK kind \in Kinds :
        /\ \E p \in Became(h, req.op, kind) : proc' = [proc EXCEPT ![h] = p]
        /\ outbox' = [outbox EXCEPT ![h] =
                        Append(@, [by |-> req.by, op |-> req.op, kind |-> kind])]
  BY DEF HostServes
<1>4. req.op \in Ops /\ req.by \in Threads
  BY <1>2 DEF Request
<1> DEFINE a == [by |-> req.by, op |-> req.op, kind |-> kind]
<1>5. a \in Reply
  BY <1>4 DEF Reply
<1>6. Became(h, req.op, kind) \subseteq ProcStates
  BY <1>4 DEF Became, Ops, ProcStates, TypeOK
<1>7. proc' \in [Hosts -> ProcStates]
  <2> HIDE DEF req
  <2>1. QED
    BY <1>3, <1>6 DEF TypeOK
<1>8. outbox' \in [Hosts -> Seq(Reply)]
  <2>1. outbox' = [outbox EXCEPT ![h] = Append(outbox[h], a)]
    BY <1>3
  <2> HIDE DEF a
  <2>2. Append(outbox[h], a) \in Seq(Reply)
    BY <1>1, <1>5
  <2>3. QED
    BY <2>1, <2>2 DEF TypeOK
<1>9. inbox' \in [Hosts -> Seq(Request)]
  BY <1>2 DEF HostServes, TypeOK
<1>10. HostTypes'
  BY <1>7, <1>8, <1>9 DEF HostTypes, HostServes, TypeOK
<1>11. QED
  BY <1>10, HostStep DEF HostServes

LEMMA HostFailsStep == ASSUME IInv, NEW h \in Hosts, HostFails(h) PROVE IInv'
<1>1. inbox' = [inbox EXCEPT ![h] = <<>>] /\ <<>> \in Seq(Request)
  BY DEF HostFails
<1>2. inbox' \in [Hosts -> Seq(Request)]
  BY <1>1 DEF IInv, TypeOK
<1>3. HostTypes'
  BY <1>2 DEF IInv, HostTypes, HostFails, TypeOK, ProcStates
<1>4. QED
  BY <1>3, HostStep DEF HostFails

LEMMA InitInvariant == Init => IInv
<1> SUFFICES ASSUME Init PROVE IInv
  OBVIOUS
<1> USE DEF Init
<1>1. <<>> \in Seq(Request) /\ <<>> \in Seq(Reply)
  OBVIOUS
<1>2. TypeOK
  BY <1>1, IdsAreDistinct DEF TypeOK, ProcStates
<1>3. Targets /\ Drawn /\ Starters /\ Disjoint /\ Preparers
  BY DEF Targets, Drawn, Starters, Disjoint, Preparers
<1>4. Releasers /\ Records /\ Stoppers /\ Registered /\ ReachableRuntimeHoldsService
  BY DEF Releasers, Records, Stoppers, Registered, ReachableRuntimeHoldsService
<1>5. QED
  BY <1>2, <1>3, <1>4 DEF IInv

LEMMA BeginStep == ASSUME IInv, NEW t \in Threads, Begin(t) PROVE IInv'
  BY StartRuntimeStep, StartWithServiceStep, InvokeRuntimeStep, StopRuntimeStep,
     PrepareServiceStep, ReleaseServiceStep DEF Begin

LEMMA CallStep == ASSUME IInv, NEW t \in Threads, Step(t) PROVE IInv'
  BY StartLockedStep, StartReceiveStep, StartKillStep, StartTableStep,
     StartPublishStep, StartRegisterStep, InvokeLockedStep, InvokeReceiveStep,
     InvokeEvictStep, InvokeKillStep, StopRemoveStep, StopLockedStep,
     StopReceiveStep, StopKillStep, StopServicesStep, StopRecordStep,
     PrepareReceiveStep, PrepareKillStep, PrepareInsertStep, ReleaseLockedStep,
     ReleaseReceiveStep, ReleaseKillStep, ReleaseRemoveStep DEF Step

LEMMA StutterStep == ASSUME IInv, UNCHANGED vars PROVE IInv'
<1>1. HostTypes'
  BY SameHosts DEF vars, IInv
<1>2. QED
  BY <1>1, HostStep DEF vars

\* IInv is an inductive invariant of every step of calls and hosts.
THEOREM Invariance == Spec => []IInv
<1>1. Init => IInv
  BY InitInvariant
<1>2. IInv /\ [Next]_vars => IInv'
  <2> SUFFICES ASSUME IInv, [Next]_vars PROVE IInv'
    OBVIOUS
  <2>1. CASE \E t \in Threads : Begin(t) \/ Step(t)
    BY <2>1, BeginStep, CallStep
  <2>2. CASE \E h \in Hosts : HostServes(h) \/ HostFails(h)
    BY <2>2, HostServesStep, HostFailsStep
  <2>3. CASE Rest \/ UNCHANGED vars
    BY <2>3, StutterStep DEF Rest
  <2>4. QED
    BY <2>1, <2>2, <2>3 DEF Next
<1>3. QED
  BY <1>1, <1>2, PTL DEF Spec

\* Every variable keeps its type, whatever the number of threads and ids.
THEOREM TypeCorrect == Spec => []TypeOK
<1>1. IInv => TypeOK
  BY DEF IInv
<1>2. QED
  BY <1>1, Invariance, PTL

\* A runtime that can still be invoked holds its service in the Active state,
\* for any number of threads, runtimes, services and failed kills: neither a
\* concurrent release_service nor a stop in progress takes it away.
THEOREM ServiceHeld == Spec => []ReachableRuntimeHoldsService
<1>1. IInv => ReachableRuntimeHoldsService
  BY DEF IInv
<1>2. QED
  BY <1>1, Invariance, PTL
===============================================================================
