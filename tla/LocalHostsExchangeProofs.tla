------------------------ MODULE LocalHostsExchangeProofs ------------------------
(****************************************************************************)
(* More proofs about LocalHosts: the two maps of hosts agree, a service     *)
(* that left its map is over, and, as long as no kill has failed, no answer *)
(* meets another caller, no host process is lost, and every host process    *)
(* gets its requests in the order of the adapter contract (HostSession).    *)
(****************************************************************************)
EXTENDS LocalHostsProofs

\* What a start has put into the maps; what is there has been drawn.
TableOf(t) ==
  /\ pc[t] \in StartPCs \ {"start_register"} => target[t] \notin hosts
  /\ pc[t] \in {"start_recv", "start_kill", "start_table"} => target[t] \notin processes
  /\ pc[t] \in {"start_publish", "start_register"} => target[t] \in processes
  /\ pc[t] = "stop_remove" => target[t] \notin processes
Tables ==
  /\ \A t \in Threads : TableOf(t)
  /\ \A r \in processes : service[r] # Unborn

\* A release that succeeded has ended its process.
OverFor(t) ==
  pc[t] = "release_remove" => state[target[t]] = "Released" /\ proc[target[t]] = "gone"
Over == \A t \in Threads : OverFor(t)

\* The process of a host is spawned when its id is drawn.
Born ==
  /\ \A r \in Runtimes : service[r] = Unborn <=> proc[r] = "none"
  /\ \A s \in Services : state[s] = Unborn <=> proc[s] = "none"
  /\ \A h \in Hosts : proc[h] = "none" => inbox[h] = <<>> /\ outbox[h] = <<>>

MapsInv == Tables /\ Over /\ Born /\ SnapshotTableAgrees /\ DroppedServiceIsOver

\* Every thread but t stays where it is.
Moves(t) == \A u \in Threads \ {t} : pc'[u] = pc[u] /\ target'[u] = target[u]

\* No process is spawned, and none comes back.
Ages ==
  \A h \in Hosts :
    /\ proc[h] = "gone" => proc'[h] = "gone"
    /\ proc'[h] = "none" <=> proc[h] = "none"
    /\ proc[h] = "none" => inbox'[h] = inbox[h] /\ outbox'[h] = outbox[h]
-------------------------------------------------------------------------------
(* What steps do to calls and processes *)

LEMMA GoToMoves ==
  ASSUME TypeOK, NEW t \in Threads, NEW l, NEW h, GoTo(t, l, h)
  PROVE  Moves(t) /\ pc'[t] = l /\ target'[t] = h
  BY DEF TypeOK, GoTo, Moves

LEMMA SameAges == ASSUME UNCHANGED hostVars PROVE Ages
  BY DEF Ages, hostVars

LEMMA SendAges ==
  ASSUME TypeOK, NEW t \in Threads, NEW h \in Hosts, NEW op, Send(t, h, op)
  PROVE  Ages
  BY DEF TypeOK, Ages, Send, Writable

LEMMA ReceiveAges ==
  ASSUME TypeOK, NEW t \in Threads, target[t] \in Hosts, proc[target[t]] # "none",
         NEW op, NEW result, Receive(t, op, result)
  PROVE  Ages
  BY DEF TypeOK, Ages, Receive

LEMMA TerminateAges ==
  ASSUME TypeOK, NEW h \in Hosts, proc[h] # "none", NEW done, Terminate(h, done)
  PROVE  Ages
  BY DEF TypeOK, Ages, Terminate

LEMMA ServesTo ==
  ASSUME TypeOK, NEW h \in Hosts, HostServes(h)
  PROVE  /\ Writable(h) /\ inbox[h] # <<>>
         /\ inbox' = [inbox EXCEPT ![h] = Tail(inbox[h])]
         /\ Head(inbox[h]) \in Request
         /\ \E kind \in Kinds :
              /\ \E p \in Became(h, Head(inbox[h]).op, kind) : proc' = [proc EXCEPT ![h] = p]
              /\ outbox' = [outbox EXCEPT ![h] =
                   Append(outbox[h], [by |-> Head(inbox[h]).by, op |-> Head(inbox[h]).op, kind |-> kind])]
<1>1. inbox[h] \in Seq(Request) /\ inbox[h] # <<>>
  BY DEF TypeOK, HostServes
<1>2. Head(inbox[h]) \in Request
  BY <1>1
<1>3. QED
  BY <1>2 DEF HostServes

LEMMA ServesAges == ASSUME TypeOK, NEW h \in Hosts, HostServes(h) PROVE Ages
<1>1. Head(inbox[h]).op \in Ops /\ Writable(h)
  BY ServesTo DEF Request
<1>2. PICK kind, p : p \in Became(h, Head(inbox[h]).op, kind) /\ proc' = [proc EXCEPT ![h] = p]
  BY ServesTo
<1>3. proc[h] # "none" /\ proc[h] # "gone" /\ p # "none"
  BY <1>1, <1>2 DEF Became, Ops, Writable
<1>4. \A g \in Hosts \ {h} : inbox'[g] = inbox[g] /\ outbox'[g] = outbox[g]
  BY ServesTo DEF TypeOK
<1>5. QED
  BY <1>2, <1>3, <1>4 DEF TypeOK, Ages

LEMMA FailsAges == ASSUME TypeOK, NEW h \in Hosts, HostFails(h) PROVE Ages
  BY DEF TypeOK, Ages, HostFails, Writable

\* A call that has drawn or looked up an id is about a host that was spawned.
LEMMA TargetIsBorn ==
  ASSUME IInv, Born, NEW t \in Threads,
         pc[t] \in StartPCs \cup KnownPCs \cup ServicePCs
  PROVE  target[t] \in Hosts /\ proc[target[t]] # "none"
<1>1. CASE pc[t] \in StartPCs
  BY <1>1 DEF IInv, Starters, Born, Hosts
<1>2. CASE pc[t] \in KnownPCs
  BY <1>2 DEF IInv, TypeOK, Targets, Drawn, Born, Hosts
<1>3. CASE pc[t] \in ServicePCs
  <2>1. target[t] \in Services
    BY <1>3 DEF IInv, Targets
  <2>2. state[target[t]] # Unborn
    BY <1>3, IdsAreDistinct DEF IInv, Preparers, Records, Recorded, ServicePCs, RecordPCs, HeldReleasePCs, PreparePCs, Unborn
  <2>3. QED
    BY <2>1, <2>2 DEF Born, Hosts
<1>4. QED
  BY <1>1, <1>2, <1>3
-------------------------------------------------------------------------------
(* The maps *)

\* A step of a call that leaves the maps and the states of the services alone.
LEMMA MapsKept ==
  ASSUME IInv, MapsInv, NEW t \in Threads, Moves(t), Ages,
         UNCHANGED <<hosts, processes, services, state, service>>,
         pc[t] \notin {"stop_remove", "start_publish"}, TableOf(t)', OverFor(t)'
  PROVE  MapsInv'
<1>1. Tables'
  BY DEF MapsInv, Tables, TableOf, Moves
<1>2. Over'
  <2>1. ASSUME NEW u \in Threads, pc[u] = "release_remove" PROVE target[u] \in Hosts
    BY <2>1 DEF IInv, Targets, ServicePCs, Hosts
  <2>2. QED
    BY <2>1 DEF MapsInv, Over, OverFor, Moves, Ages
<1>3. Born'
  BY DEF MapsInv, Born, Ages, Hosts
<1>4. SnapshotTableAgrees'
  <2>1. ASSUME NEW r \in Runtimes, (r \in hosts) # (r \in processes)
        PROVE  \E u \in Threads : /\ target'[u] = r
                                  /\ pc'[u] = IF r \in hosts THEN "stop_remove" ELSE "start_publish"
    <3>1. PICK u \in Threads : /\ target[u] = r
                               /\ pc[u] = IF r \in hosts THEN "stop_remove" ELSE "start_publish"
      BY <2>1 DEF MapsInv, SnapshotTableAgrees
    <3>2. u # t
      BY <3>1
    <3>3. QED
      BY <3>1, <3>2 DEF Moves
  <2>2. QED
    BY <2>1 DEF SnapshotTableAgrees
<1>5. DroppedServiceIsOver'
  BY DEF MapsInv, DroppedServiceIsOver, Ages, Hosts
<1>6. QED
  BY <1>1, <1>2, <1>3, <1>4, <1>5 DEF MapsInv

-------------------------------------------------------------------------------
(* The maps: one lemma for each kind of step *)

USE DEF Moves, StartPCs, StopPCs, LeavePCs, PreparePCs, HeldReleasePCs, RecordPCs, ServicePCs,
        KnownPCs, Hosts

\* The frame of the steps that MapsKept is about.
Frame == UNCHANGED <<hosts, processes, services, state, service>>

\* A step that leaves the maps and takes its call to no label of the maps.
LEMMA MapsQuiet ==
  ASSUME IInv, MapsInv, NEW t \in Threads, NEW l, NEW h, GoTo(t, l, h), Ages, Frame,
         pc[t] \notin {"stop_remove", "start_publish"},
         l \in {"idle", "start_record", "start_recv", "start_kill", "start_table"}
           \cup KnownPCs \cup PreparePCs \cup HeldReleasePCs \cup {"release_record"},
         l # "stop_remove",
         l \in StartPCs => pc[t] = "start_recv" /\ h = target[t]
  PROVE  MapsInv'
<1>1. Moves(t) /\ pc'[t] = l /\ target'[t] = h
  BY GoToMoves DEF IInv
<1>2. TableOf(t)'
  BY <1>1 DEF MapsInv, Tables, TableOf, Frame
<1>3. OverFor(t)'
  BY <1>1 DEF OverFor
<1>4. QED
  BY <1>1, <1>2, <1>3, MapsKept DEF Frame

\* A call of a known runtime, a start or a release has a process to speak to.
LEMMA AgesBy ==
  ASSUME IInv, MapsInv, NEW t \in Threads,
         pc[t] \in StartPCs \cup KnownPCs \cup ServicePCs,
         \/ UNCHANGED hostVars
         \/ \E op : Send(t, target[t], op)
         \/ \E op, result : Receive(t, op, result)
         \/ \E done : Terminate(target[t], done)
  PROVE  Ages
<1>1. TypeOK /\ target[t] \in Hosts /\ proc[target[t]] # "none"
  BY TargetIsBorn DEF IInv, MapsInv
<1>2. QED
  BY <1>1, SameAges, SendAges, ReceiveAges, TerminateAges

LEMMA MapsBegin ==
  ASSUME IInv, MapsInv, NEW t \in Threads,
         StartWithService(t) \/ InvokeRuntime(t) \/ ReleaseService(t)
  PROVE  MapsInv'
<1>1. Ages /\ Frame /\ pc[t] = "idle"
  BY SameAges DEF StartWithService, InvokeRuntime, ReleaseService, Frame, registry, serviceVars, handles
<1>2. PICK l, h : l \in {"start_record", "invoke_lock", "release_record"} /\ GoTo(t, l, h)
  BY DEF StartWithService, InvokeRuntime, ReleaseService
<1>3. QED
  BY <1>1, <1>2, MapsQuiet

LEMMA MapsStart ==
  ASSUME IInv, MapsInv, NEW t \in Threads, StartReceive(t) \/ StartKill(t) \/ StartRegister(t)
  PROVE  MapsInv'
<1>1. Frame /\ pc[t] \in {"start_recv", "start_kill", "start_register"}
  BY DEF StartReceive, StartKill, StartRegister, Frame, registry, serviceVars, handles
<1>2. Ages
  BY <1>1, AgesBy DEF StartReceive, StartKill, StartRegister
<1>3. CASE StartReceive(t)
  <2>1. PICK l \in {"start_table", "start_kill"} : GoTo(t, l, target[t])
    BY <1>3 DEF StartReceive
  <2>2. QED
    BY <1>2, <1>3, <2>1, <1>1, MapsQuiet DEF StartReceive
<1>4. CASE StartKill(t) \/ StartRegister(t)
  BY <1>1, <1>2, <1>4, MapsQuiet DEF StartKill, StartRegister, Return
<1>5. QED
  BY <1>3, <1>4

LEMMA MapsInvoke ==
  ASSUME IInv, MapsInv, NEW t \in Threads, InvokeLocked(t) \/ InvokeReceive(t) \/ InvokeKill(t)
  PROVE  MapsInv'
<1>1. Frame /\ pc[t] \in {"invoke_lock", "invoke_recv", "invoke_kill"}
  BY DEF InvokeLocked, InvokeReceive, InvokeKill, Frame, serviceVars, handles
<1>2. Ages
  BY <1>1, AgesBy DEF InvokeLocked, InvokeReceive, InvokeKill
<1>3. PICK l, h : l \in {"idle", "invoke_recv", "invoke_evict"} /\ GoTo(t, l, h)
  BY DEF InvokeLocked, InvokeReceive, InvokeKill, Return
<1>4. QED
  BY <1>1, <1>2, <1>3, MapsQuiet

LEMMA MapsStop ==
  ASSUME IInv, MapsInv, NEW t \in Threads,
         \/ StopLocked(t) \/ StopReceive(t) \/ StopKill(t) \/ StopServices(t) \/ StopRecord(t)
  PROVE  MapsInv'
<1>1. Frame /\ pc[t] \in StopPCs
  BY DEF StopLocked, StopReceive, StopKill, StopServices, StopRecord, Frame, registry, serviceVars, handles
<1>2. Ages
  BY <1>1, AgesBy DEF StopLocked, StopReceive, StopKill, StopServices, StopRecord, Refused
<1>3. PICK l, h : l \in {"idle"} \cup StopPCs /\ GoTo(t, l, h)
  BY DEF StopLocked, StopReceive, StopKill, StopServices, StopRecord, Return, AfterStop
<1>4. QED
  BY <1>1, <1>2, <1>3, MapsQuiet

LEMMA MapsService ==
  ASSUME IInv, MapsInv, NEW t \in Threads, PrepareReceive(t) \/ ReleaseReceive(t)
  PROVE  MapsInv'
<1>1. Frame /\ pc[t] \in {"prepare_recv", "release_recv"}
  BY DEF PrepareReceive, ReleaseReceive, Frame, registry, serviceVars, handles
<1>2. Ages
  BY <1>1, AgesBy DEF PrepareReceive, ReleaseReceive
<1>3. PICK l, h : l \in {"prepare_insert", "prepare_kill", "release_kill"} /\ GoTo(t, l, h)
  BY DEF PrepareReceive, ReleaseReceive
<1>4. QED
  BY <1>1, <1>2, <1>3, MapsQuiet

\* A fresh runtime id is drawn and its process spawned.
LEMMA MapsDrawn ==
  ASSUME IInv, MapsInv, NEW t \in Threads, pc[t] \in {"idle", "start_record"},
         NEW r \in Runtimes, service[r] = Unborn, NEW v, v # Unborn,
         service' = [service EXCEPT ![r] = v], Spawn(t, r), GoTo(t, "start_recv", r),
         UNCHANGED <<hosts, processes, services, state>>
  PROVE  MapsInv'
<1>1. Moves(t) /\ pc'[t] = "start_recv" /\ target'[t] = r
  BY GoToMoves DEF IInv
<1>2. r \notin hosts /\ r \notin processes
  BY DEF IInv, Drawn, MapsInv, Tables
<1>3. \A q \in Runtimes : service'[q] = IF q = r THEN v ELSE service[q]
  BY DEF IInv, TypeOK
<1>4. \A h \in Hosts : /\ proc'[h] = IF h = r THEN "spawned" ELSE proc[h]
                       /\ h # r => inbox'[h] = inbox[h] /\ outbox'[h] = outbox[h]
  BY DEF Spawn, IInv, TypeOK
<1>5. Tables'
  BY <1>1, <1>2, <1>3 DEF MapsInv, Tables, TableOf, IInv, TypeOK
<1>6. Over'
  BY <1>1, <1>4, IdsAreDistinct DEF MapsInv, Over, OverFor, IInv, Targets
<1>7. Born'
  BY <1>3, <1>4, IdsAreDistinct DEF MapsInv, Born
<1>8. SnapshotTableAgrees'
  BY <1>1 DEF MapsInv, SnapshotTableAgrees
<1>9. DroppedServiceIsOver'
  BY <1>4, IdsAreDistinct DEF MapsInv, DroppedServiceIsOver
<1>10. QED
  BY <1>5, <1>6, <1>7, <1>8, <1>9 DEF MapsInv

LEMMA MapsStartRuntime == ASSUME IInv, MapsInv, NEW t \in Threads, StartRuntime(t) PROVE MapsInv'
<1>1. PICK r \in Runtimes :
        /\ service[r] = Unborn /\ service' = [service EXCEPT ![r] = None]
        /\ Spawn(t, r) /\ GoTo(t, "start_recv", r)
  BY DEF StartRuntime
<1>2. None # Unborn
  BY IdsAreDistinct
<1>3. QED
  BY <1>1, <1>2, MapsDrawn DEF StartRuntime, registry, serviceVars

LEMMA MapsStartLocked == ASSUME IInv, MapsInv, NEW t \in Threads, StartLocked(t) PROVE MapsInv'
<1>1. CASE Return(t) /\ UNCHANGED <<hostVars, service, recordLock>>
  BY <1>1, SameAges, MapsQuiet DEF StartLocked, Return, Frame, registry
<1>2. CASE ~(Return(t) /\ UNCHANGED <<hostVars, service, recordLock>>)
  <2>1. PICK r \in Runtimes :
          /\ service[r] = Unborn /\ service' = [service EXCEPT ![r] = target[t]]
          /\ Spawn(t, r) /\ GoTo(t, "start_recv", r)
    BY <1>2 DEF StartLocked
  <2>2. target[t] # Unborn
    BY IdsAreDistinct DEF StartLocked, IInv, Targets
  <2>3. QED
    BY <2>1, <2>2, MapsDrawn DEF StartLocked, registry
<1>3. QED
  BY <1>1, <1>2

\* A step that changes the maps of runtimes only, at the entry of its target.
Elsewhere(r) ==
  \A q \in Runtimes \ {r} : (q \in hosts' <=> q \in hosts) /\ (q \in processes' <=> q \in processes)

LEMMA MapsAtTarget ==
  ASSUME IInv, MapsInv, NEW t \in Threads, NEW l, NEW r \in Runtimes, NEW h, GoTo(t, l, h),
         pc[t] = "idle" \/ target[t] = r, l # "release_remove",
         UNCHANGED <<hostVars, services, state, service>>, processes' \subseteq Runtimes,
         Elsewhere(r), service[r] # Unborn, \A u \in Threads \ {t} : TableOf(u)', TableOf(t)',
         \/ (r \in hosts' <=> r \in processes')
         \/ (h = r /\ l = IF r \in hosts' THEN "stop_remove" ELSE "start_publish")
         \/ \E u \in Threads \ {t} :
              target[u] = r /\ pc[u] = IF r \in hosts' THEN "stop_remove" ELSE "start_publish"
  PROVE  MapsInv'
<1>1. /\ \A u \in Threads \ {t} : pc'[u] = pc[u] /\ target'[u] = target[u]
      /\ pc'[t] = l /\ target'[t] = h
  BY GoToMoves DEF IInv
<1>2. UNCHANGED proc /\ UNCHANGED inbox /\ UNCHANGED outbox
  BY DEF hostVars
<1>3. Tables'
  BY DEF MapsInv, Tables, Elsewhere
<1>4. Over'
  BY <1>1, <1>2 DEF MapsInv, Over, OverFor
<1>5. Born'
  BY <1>2 DEF MapsInv, Born
<1>6. SnapshotTableAgrees'
  <2> SUFFICES ASSUME NEW q \in Runtimes, (q \in hosts') # (q \in processes')
               PROVE  \E u \in Threads :
                        /\ target'[u] = q
                        /\ pc'[u] = IF q \in hosts' THEN "stop_remove" ELSE "start_publish"
    BY DEF SnapshotTableAgrees
  <2>1. CASE q = r
    BY <1>1, <2>1
  <2>2. CASE q # r
    <3>1. (q \in hosts) # (q \in processes) /\ (q \in hosts' <=> q \in hosts)
      BY <2>2 DEF Elsewhere
    <3>2. PICK u \in Threads :
            /\ target[u] = q
            /\ pc[u] = IF q \in hosts THEN "stop_remove" ELSE "start_publish"
      BY <3>1 DEF MapsInv, SnapshotTableAgrees
    <3>3. u # t
      BY <2>2, <3>2
    <3>4. QED
      BY <1>1, <3>1, <3>2, <3>3
  <2>3. QED
    BY <2>1, <2>2
<1>7. DroppedServiceIsOver'
  BY <1>2 DEF MapsInv, DroppedServiceIsOver
<1>8. QED
  BY <1>3, <1>4, <1>5, <1>6, <1>7 DEF MapsInv

LEMMA MapsStartTable == ASSUME IInv, MapsInv, NEW t \in Threads, StartTable(t) PROVE MapsInv'
<1>1. /\ pc[t] = "start_table" /\ target[t] \in Runtimes /\ target[t] \notin known
      /\ service[target[t]] # Unborn /\ processes' = processes \cup {target[t]}
      /\ GoTo(t, "start_publish", target[t])
      /\ UNCHANGED <<hostVars, hosts, services, state, service>>
  BY DEF StartTable, IInv, Starters, serviceVars, handles
<1>2. TableOf(t) /\ \A u \in Threads \ {t} : TableOf(u)
  BY DEF MapsInv, Tables
<1>3. Moves(t) /\ pc'[t] = "start_publish" /\ target'[t] = target[t]
  BY <1>1, GoToMoves DEF IInv
<1>4. \A u \in Threads \ {t} : TableOf(u)'
  BY <1>1, <1>2, <1>3 DEF TableOf, IInv, Disjoint, Targets
<1>5. TableOf(t)'
  BY <1>1, <1>2, <1>3 DEF TableOf
<1>6. Elsewhere(target[t]) /\ processes' \subseteq Runtimes /\ target[t] \notin hosts
  BY <1>1, <1>2 DEF Elsewhere, TableOf, IInv, TypeOK
<1>7. QED
  BY <1>1, <1>4, <1>5, <1>6, MapsAtTarget

LEMMA MapsStartPublish == ASSUME IInv, MapsInv, NEW t \in Threads, StartPublish(t) PROVE MapsInv'
<1>1. /\ pc[t] = "start_publish" /\ target[t] \in Runtimes /\ target[t] \notin known
      /\ service[target[t]] # Unborn /\ hosts' = hosts \cup {target[t]}
      /\ GoTo(t, "start_register", target[t])
      /\ UNCHANGED <<hostVars, processes, services, state, service>>
  BY DEF StartPublish, IInv, Starters, serviceVars, handles
<1>2. TableOf(t) /\ \A u \in Threads \ {t} : TableOf(u)
  BY DEF MapsInv, Tables
<1>3. Moves(t) /\ pc'[t] = "start_register" /\ target'[t] = target[t]
  BY <1>1, GoToMoves DEF IInv
<1>4. \A u \in Threads \ {t} : TableOf(u)'
  BY <1>1, <1>2, <1>3 DEF TableOf, IInv, Disjoint
<1>5. TableOf(t)'
  BY <1>1, <1>2, <1>3 DEF TableOf
<1>6. Elsewhere(target[t]) /\ processes' \subseteq Runtimes /\ target[t] \in processes
  BY <1>1, <1>2 DEF Elsewhere, TableOf, IInv, TypeOK
<1>7. QED
  BY <1>1, <1>4, <1>5, <1>6, MapsAtTarget

\* Steps that drop entries of a known runtime, which no start has a hand in.
LEMMA DropsKnown ==
  ASSUME IInv, MapsInv, NEW t \in Threads, NEW l, NEW r \in known, GoTo(t, l, r),
         hosts' \subseteq hosts, processes' \subseteq processes, Elsewhere(r)
  PROVE  \A u \in Threads \ {t} : TableOf(u)'
<1>1. \A u \in Threads \ {t} : pc'[u] = pc[u] /\ target'[u] = target[u]
  BY GoToMoves DEF IInv
<1>2. \A u \in Threads : pc[u] \in StartPCs => target[u] \in Runtimes \ {r}
  BY DEF IInv, Starters
<1>3. QED
  BY <1>1, <1>2 DEF MapsInv, Tables, TableOf, Elsewhere

LEMMA MapsInvokeEvict == ASSUME IInv, MapsInv, NEW t \in Threads, InvokeEvict(t) PROVE MapsInv'
<1> DEFINE r == target[t]
<1>1. /\ pc[t] = "invoke_evict" /\ r \in known /\ r \in Runtimes /\ service[r] # Unborn
      /\ hosts' = hosts \ {r} /\ processes' = IF r \in hosts THEN processes \ {r} ELSE processes
      /\ GoTo(t, "invoke_kill", r)
      /\ UNCHANGED <<hostVars, services, state, service>>
  BY DEF InvokeEvict, IInv, Targets, Drawn, TypeOK, serviceVars, handles
<1> HIDE DEF r
<1>2. Elsewhere(r) /\ processes' \subseteq Runtimes
  BY <1>1 DEF Elsewhere, IInv, TypeOK
<1>3. \A u \in Threads \ {t} : TableOf(u)'
  BY <1>1, <1>2, DropsKnown
<1>4. TableOf(t)'
  BY <1>1, GoToMoves DEF TableOf, IInv
<1>5. (r \in hosts' <=> r \in processes')
        \/ \E u \in Threads \ {t} :
             target[u] = r /\ pc[u] = IF r \in hosts' THEN "stop_remove" ELSE "start_publish"
  <2>1. CASE r \in hosts \/ r \notin processes
    BY <1>1, <2>1
  <2>2. CASE r \notin hosts /\ r \in processes
    <3>1. PICK u \in Threads : target[u] = r /\ pc[u] = "start_publish"
      BY <1>1, <2>2 DEF MapsInv, SnapshotTableAgrees
    <3>2. u # t /\ r \notin hosts'
      BY <1>1, <3>1
    <3>3. QED
      BY <3>1, <3>2
  <2>3. QED
    BY <2>1, <2>2
<1>6. target[t] = r
  BY DEF r
<1>7. QED
  BY <1>1, <1>2, <1>3, <1>4, <1>5, <1>6, MapsAtTarget

LEMMA MapsStopRuntime == ASSUME IInv, MapsInv, NEW t \in Threads, StopRuntime(t) PROVE MapsInv'
<1>1. PICK r \in known : processes' = processes \ {r} /\ GoTo(t, "stop_remove", r)
  BY DEF StopRuntime
<1>2. /\ pc[t] = "idle" /\ r \in Runtimes /\ service[r] # Unborn
      /\ UNCHANGED <<hostVars, hosts, services, state, service>>
  BY DEF StopRuntime, IInv, Drawn, TypeOK, serviceVars, handles
<1>3. Elsewhere(r) /\ processes' \subseteq Runtimes
  BY <1>1, <1>2 DEF Elsewhere, IInv, TypeOK
<1>4. \A u \in Threads \ {t} : TableOf(u)'
  BY <1>1, <1>2, <1>3, DropsKnown
<1>5. TableOf(t)'
  BY <1>1, GoToMoves DEF TableOf, IInv
<1>6. QED
  BY <1>1, <1>2, <1>3, <1>4, <1>5, MapsAtTarget

LEMMA MapsStopRemove == ASSUME IInv, MapsInv, NEW t \in Threads, StopRemove(t) PROVE MapsInv'
<1>1. /\ pc[t] = "stop_remove" /\ target[t] \in known /\ target[t] \in Runtimes
      /\ service[target[t]] # Unborn
      /\ hosts' = hosts \ {target[t]}
      /\ UNCHANGED <<hostVars, processes, services, state, service>>
  BY DEF StopRemove, IInv, Targets, Drawn, TypeOK, serviceVars, handles
<1>2. target[t] \notin processes
  BY <1>1 DEF MapsInv, Tables, TableOf
<1>3. PICK l, h : l \in {"idle", "stop_lock", "stop_services"} /\ GoTo(t, l, h)
  BY DEF StopRemove, AfterStop, Return
<1>4. Elsewhere(target[t]) /\ processes' \subseteq Runtimes
  BY <1>1 DEF Elsewhere, IInv, TypeOK
<1>5. \A u \in Threads \ {t} : TableOf(u)'
  <2>1. \A u \in Threads \ {t} : pc'[u] = pc[u] /\ target'[u] = target[u]
    BY <1>3, GoToMoves DEF IInv
  <2>2. QED
    BY <1>1, <2>1 DEF MapsInv, Tables, TableOf
<1>6. TableOf(t)'
  BY <1>3, GoToMoves DEF TableOf, IInv
<1>7. QED
  BY <1>1, <1>2, <1>3, <1>4, <1>5, <1>6, MapsAtTarget

\* A step that changes the state of one service record, or whether it is in
\* LOCAL_SERVICES.
LEMMA MapsAtService ==
  ASSUME IInv, MapsInv, NEW t \in Threads, NEW l, NEW h, NEW s \in Services, GoTo(t, l, h),
         pc[t] \notin {"stop_remove", "start_publish"}, Ages,
         UNCHANGED <<hosts, processes, service>>,
         l \in {"idle", "release_recv", "release_kill", "release_remove"},
         l = "release_remove" => h = s /\ state'[s] = "Released" /\ proc'[s] = "gone",
         \A z \in Services \ {s} : state'[z] = state[z] /\ (z \in services' <=> z \in services),
         state[s] # Unborn /\ state'[s] # Unborn,
         state'[s] # "Released" => state[s] # "Released",
         s \notin services' /\ state'[s] \in Recorded => state'[s] = "Released" /\ proc'[s] = "gone"
  PROVE  MapsInv'
<1>1. Moves(t) /\ pc'[t] = l /\ target'[t] = h
  BY GoToMoves DEF IInv
<1>2. Tables'
  BY <1>1 DEF MapsInv, Tables, TableOf
<1>3. Over'
  <2> SUFFICES ASSUME NEW u \in Threads, pc'[u] = "release_remove"
               PROVE  state'[target'[u]] = "Released" /\ proc'[target'[u]] = "gone"
    BY DEF Over, OverFor
  <2>1. CASE u = t
    BY <1>1, <2>1
  <2>2. CASE u # t
    BY <1>1, <2>2 DEF MapsInv, Over, OverFor, IInv, Targets, Ages
  <2>3. QED
    BY <2>1, <2>2
<1>4. Born'
  BY DEF MapsInv, Born, Ages
<1>5. SnapshotTableAgrees'
  BY <1>1 DEF MapsInv, SnapshotTableAgrees
<1>6. DroppedServiceIsOver'
  BY DEF MapsInv, DroppedServiceIsOver, Ages
<1>7. QED
  BY <1>2, <1>3, <1>4, <1>5, <1>6 DEF MapsInv

LEMMA MapsPrepareService == ASSUME IInv, MapsInv, NEW t \in Threads, PrepareService(t) PROVE MapsInv'
<1>1. PICK s \in Services :
        /\ state[s] = Unborn /\ state' = [state EXCEPT ![s] = "preparing"]
        /\ Spawn(t, s) /\ GoTo(t, "prepare_recv", s)
  BY DEF PrepareService
<1>2. pc[t] = "idle" /\ UNCHANGED <<hosts, processes, services, service>>
  BY DEF PrepareService, registry, handles
<1>3. Moves(t) /\ pc'[t] = "prepare_recv" /\ target'[t] = s
  BY <1>1, GoToMoves DEF IInv
<1>4. \A z \in Services : state'[z] = IF z = s THEN "preparing" ELSE state[z]
  BY <1>1 DEF IInv, TypeOK
<1>5. \A h \in Hosts : /\ proc'[h] = IF h = s THEN "spawned" ELSE proc[h]
                       /\ h # s => inbox'[h] = inbox[h] /\ outbox'[h] = outbox[h]
  BY <1>1 DEF Spawn, IInv, TypeOK
<1>6. Tables'
  BY <1>2, <1>3 DEF MapsInv, Tables, TableOf
<1>7. \A u \in Threads : pc[u] = "release_remove" => target[u] \in Services \ {s}
  BY <1>1 DEF IInv, Targets, Records, Recorded, Unborn
<1>8. Over'
  BY <1>3, <1>4, <1>5, <1>7 DEF MapsInv, Over, OverFor
<1>9. Born'
  BY <1>2, <1>4, <1>5, IdsAreDistinct DEF MapsInv, Born, Unborn
<1>10. SnapshotTableAgrees'
  BY <1>2, <1>3 DEF MapsInv, SnapshotTableAgrees
<1>11. DroppedServiceIsOver'
  BY <1>2, <1>4, <1>5 DEF MapsInv, DroppedServiceIsOver, Recorded
<1>12. QED
  BY <1>6, <1>8, <1>9, <1>10, <1>11 DEF MapsInv

LEMMA MapsPrepareKill == ASSUME IInv, MapsInv, NEW t \in Threads, PrepareKill(t) PROVE MapsInv'
<1>1. /\ pc[t] = "prepare_kill" /\ target[t] \in Services /\ state[target[t]] = "preparing"
      /\ state' = [state EXCEPT ![target[t]] = "abandoned"] /\ GoTo(t, "idle", None)
      /\ UNCHANGED <<hosts, processes, services, service>>
  BY DEF PrepareKill, IInv, Targets, Preparers, Return, registry, handles
<1>2. Ages
  BY <1>1, AgesBy DEF PrepareKill
<1>3. /\ state'[target[t]] = "abandoned"
      /\ \A z \in Services \ {target[t]} : state'[z] = state[z]
  BY <1>1 DEF IInv, TypeOK
<1>4. QED
  BY <1>1, <1>2, <1>3, MapsAtService DEF Recorded, Unborn

LEMMA MapsPrepareInsert == ASSUME IInv, MapsInv, NEW t \in Threads, PrepareInsert(t) PROVE MapsInv'
<1>1. /\ pc[t] = "prepare_insert" /\ target[t] \in Services /\ state[target[t]] = "preparing"
      /\ state' = [state EXCEPT ![target[t]] = "Active"] /\ GoTo(t, "idle", None)
      /\ services' = services \cup {target[t]}
      /\ UNCHANGED <<hosts, processes, service>>
  BY DEF PrepareInsert, IInv, Targets, Preparers, Return, registry, handles
<1>2. Ages
  BY SameAges DEF PrepareInsert
<1>3. /\ state'[target[t]] = "Active"
      /\ \A z \in Services \ {target[t]} : state'[z] = state[z]
  BY <1>1 DEF IInv, TypeOK
<1>4. QED
  BY <1>1, <1>2, <1>3, MapsAtService DEF Unborn

LEMMA MapsReleaseLocked == ASSUME IInv, MapsInv, NEW t \in Threads, ReleaseLocked(t) PROVE MapsInv'
<1> DEFINE s == target[t]
<1>1. /\ pc[t] = "release_record" /\ s \in Services /\ state[s] \in Recorded
      /\ UNCHANGED <<hosts, processes, services, service>>
  BY DEF ReleaseLocked, IInv, Targets, Records, registry, handles
<1>2. CASE state[s] = "Released" \/ users[s] # {}
  <2>1. GoTo(t, "idle", None) /\ UNCHANGED hostVars /\ Frame
    BY <1>1, <1>2 DEF ReleaseLocked, Return, Frame
  <2>2. QED
    BY <1>1, <2>1, SameAges, MapsQuiet
<1>3. CASE ~(state[s] = "Released" \/ users[s] # {})
  <2>1. state' = [state EXCEPT ![s] = "Releasing"]
    BY <1>3 DEF ReleaseLocked
  <2>2. PICK l \in {"release_recv", "release_kill"} : GoTo(t, l, s)
    BY <1>3 DEF ReleaseLocked
  <2>3. Ages
    BY <1>1, <1>3, AgesBy DEF ReleaseLocked, Refused
  <2>4. state'[s] = "Releasing" /\ \A z \in Services \ {s} : state'[z] = state[z]
    BY <1>1, <2>1 DEF IInv, TypeOK
  <2>5. s \in services
    BY <1>1, <1>3 DEF MapsInv, DroppedServiceIsOver
  <2>6. state[s] # Unborn /\ "Releasing" # Unborn
    BY <1>1 DEF Recorded, Unborn
  <2> HIDE DEF s
  <2>7. QED
    BY <1>1, <1>3, <2>2, <2>3, <2>4, <2>5, <2>6, MapsAtService
<1>4. QED
  BY <1>2, <1>3

LEMMA MapsReleaseKill == ASSUME IInv, MapsInv, NEW t \in Threads, ReleaseKill(t) PROVE MapsInv'
<1> DEFINE s == target[t]
<1>1. /\ pc[t] = "release_kill" /\ s \in Services /\ state[s] = "Releasing"
      /\ UNCHANGED <<hosts, processes, services, service>>
  BY DEF ReleaseKill, IInv, Targets, Releasers, registry, handles
<1>2. PICK done \in BOOLEAN, removed \in BOOLEAN :
        /\ Terminate(s, done)
        /\ IF answer[t] = "clean" /\ done /\ removed
             THEN state' = [state EXCEPT ![s] = "Released"] /\ GoTo(t, "release_remove", s)
             ELSE state' = [state EXCEPT ![s] = "ReleaseFailed"] /\ GoTo(t, "idle", None)
  BY DEF ReleaseKill, Return
<1>3. Ages
  BY <1>1, <1>2, AgesBy
<1>4. s \in services
  BY <1>1 DEF MapsInv, DroppedServiceIsOver, Recorded
<1>5. \A z \in Services \ {s} : state'[z] = state[z]
  BY <1>1, <1>2 DEF IInv, TypeOK
<1>6. state[s] # Unborn /\ "Released" # Unborn /\ "ReleaseFailed" # Unborn
  BY <1>1 DEF Unborn
<1>7. CASE answer[t] = "clean" /\ done /\ removed
  <2>1. state'[s] = "Released" /\ GoTo(t, "release_remove", s) /\ proc'[s] = "gone"
    BY <1>1, <1>2, <1>7 DEF IInv, TypeOK, Terminate
  <2> HIDE DEF s
  <2>2. QED
    BY <1>1, <1>3, <1>4, <1>5, <1>6, <2>1, MapsAtService
<1>8. CASE ~(answer[t] = "clean" /\ done /\ removed)
  <2>1. state'[s] = "ReleaseFailed" /\ GoTo(t, "idle", None)
    BY <1>1, <1>2, <1>8 DEF IInv, TypeOK
  <2> HIDE DEF s
  <2>2. QED
    BY <1>1, <1>3, <1>4, <1>5, <1>6, <2>1, MapsAtService
<1>9. QED
  BY <1>7, <1>8

LEMMA MapsReleaseRemove == ASSUME IInv, MapsInv, NEW t \in Threads, ReleaseRemove(t) PROVE MapsInv'
<1>1. /\ pc[t] = "release_remove" /\ target[t] \in Services
      /\ services' = services \ {target[t]} /\ GoTo(t, "idle", None)
      /\ UNCHANGED <<hostVars, hosts, processes, state, service>>
  BY DEF ReleaseRemove, IInv, Targets, Return, registry, handles
<1>2. state[target[t]] = "Released" /\ proc[target[t]] = "gone"
  BY <1>1 DEF MapsInv, Over, OverFor
<1>3. QED
  BY <1>1, <1>2, SameAges, MapsAtService DEF Unborn, hostVars

LEMMA MapsHosts ==
  ASSUME IInv, MapsInv, NEW h \in Hosts, HostServes(h) \/ HostFails(h)
  PROVE  MapsInv'
<1>1. /\ UNCHANGED <<registry, serviceVars, handles, callVars>>
      /\ Ages
  BY ServesAges, FailsAges DEF HostServes, HostFails, IInv
<1> USE <1>1 DEF registry, serviceVars, handles, callVars, MapsInv
<1>2. Tables'
  BY DEF Tables, TableOf
<1>3. Over'
  BY DEF Over, OverFor, Ages, IInv, Targets
<1>4. Born'
  BY DEF Born, Ages
<1>5. SnapshotTableAgrees' /\ DroppedServiceIsOver'
  BY DEF SnapshotTableAgrees, DroppedServiceIsOver, Ages
<1>6. QED
  BY <1>2, <1>3, <1>4, <1>5

LEMMA MapsStutter == ASSUME MapsInv, UNCHANGED vars PROVE MapsInv'
  BY DEF MapsInv, Tables, TableOf, Over, OverFor, Born, SnapshotTableAgrees, DroppedServiceIsOver,
         vars, hostVars, registry, serviceVars, handles, callVars

LEMMA MapsInit == Init => MapsInv
  BY DEF Init, MapsInv, Tables, TableOf, Over, OverFor, Born, SnapshotTableAgrees,
         DroppedServiceIsOver, Recorded, Unborn

LEMMA MapsStep == ASSUME IInv, MapsInv, [Next]_vars PROVE MapsInv'
<1>1. ASSUME NEW t \in Threads, Begin(t) PROVE MapsInv'
  BY <1>1, MapsStartRuntime, MapsBegin, MapsStopRuntime, MapsPrepareService DEF Begin
<1>2. ASSUME NEW t \in Threads, Step(t) PROVE MapsInv'
  BY <1>2, MapsStartLocked, MapsStart, MapsStartTable, MapsStartPublish, MapsInvoke,
     MapsInvokeEvict, MapsStopRemove, MapsStop, MapsService, MapsPrepareKill,
     MapsPrepareInsert, MapsReleaseLocked, MapsReleaseKill, MapsReleaseRemove DEF Step
<1>3. ASSUME NEW h \in Hosts, HostServes(h) \/ HostFails(h) PROVE MapsInv'
  BY <1>3, MapsHosts
<1>4. QED
  BY <1>1, <1>2, <1>3, MapsStutter DEF Next, Rest

\* MapsInv holds with IInv in every reachable state, whatever kills fail.
THEOREM MapsInvariance == Spec => [](IInv /\ MapsInv)
<1>1. Init => MapsInv
  BY MapsInit
<1>2. IInv /\ MapsInv /\ [Next]_vars => MapsInv'
  BY MapsStep
<1>3. QED
  BY <1>1, <1>2, Invariance, PTL DEF Spec

\* LOCAL_HOST_PROCESSES and LOCAL_HOSTS have the same entries, except for a
\* runtime whose start or stop is between the two, for any number of calls.
THEOREM SnapshotsAgree == Spec => []SnapshotTableAgrees
<1>1. MapsInv => SnapshotTableAgrees
  BY DEF MapsInv
<1>2. QED
  BY <1>1, MapsInvariance, PTL

\* A service record leaves LOCAL_SERVICES only after its process is gone, also
\* when kills fail.
THEOREM DroppedServicesAreOver == Spec => []DroppedServiceIsOver
<1>1. MapsInv => DroppedServiceIsOver
  BY DEF MapsInv
<1>2. QED
  BY <1>1, MapsInvariance, PTL
-------------------------------------------------------------------------------
(* The pipes, where no kill fails: one exchange at a time.                  *)

\* Labels of a call that holds the mutex of a runtime's host.
HeldPCs == {"invoke_recv", "invoke_evict", "invoke_kill", "stop_recv", "stop_kill"}
HeldFor(t) == pc[t] \in HeldPCs => hostLock[target[t]] = t
Held == \A t \in Threads : HeldFor(t)

Exchanging(t, h) == target[t] = h /\ pc[t] \in Waiting \cup Killing
Free(h) == \A t \in Threads : ~Exchanging(t, h)

\* Nothing is in the pipes of a host nobody exchanges with, and one request at
\* a time in those of the others: the start, until the host has served it.
OneRequest(h) ==
  Writable(h) =>
    /\ Free(h) => inbox[h] = <<>> /\ outbox[h] = <<>>
    /\ Len(inbox[h]) <= 1
    /\ proc[h] = "spawned" => inbox[h] # <<>> /\ Head(inbox[h]).op = "start"
    /\ proc[h] # "spawned" /\ inbox[h] # <<>> => Head(inbox[h]).op # "start"
    /\ proc[h] = "rejected" => inbox[h] = <<>>

\* What is in the pipes of a host is of the thread that waits for it.
Own(t, h) ==
  pc[t] \in Waiting /\ target[t] = h =>
    /\ Len(inbox[h]) + Len(outbox[h]) <= 1
    /\ inbox[h] # <<>> => Head(inbox[h]).by = t
    /\ outbox[h] # <<>> => Head(outbox[h]).by = t

PipeOf(h) == OneRequest(h) /\ \A t \in Threads : Own(t, h)
Pipes == \A h \in Hosts : PipeOf(h)

PipesInv == Held /\ Pipes /\ NoOrphanHost

\* A host that has not accepted a start is known to its start alone: no handle
\* was returned, no record was made, and the start does not take it for ready.
FreshStates == {"spawned", "rejected"}
ReadyPCs == {"start_table", "start_publish", "start_register", "prepare_insert"}
FreshFor(h) ==
  proc[h] \in FreshStates =>
    /\ h \notin known
    /\ h \in Services => state[h] \notin Recorded
    /\ \A t \in Threads : target[t] = h => pc[t] \notin ReadyPCs
    /\ outbox[h] # <<>> => Head(outbox[h]).kind = "error"
Fresh == \A h \in Hosts : FreshFor(h)

USE DEF Waiting, Killing

LEMMA TailOfOne ==
  ASSUME NEW S, NEW s \in Seq(S), s # <<>>, Len(s) <= 1
  PROVE  Len(s) = 1 /\ Tail(s) = <<>> /\ Head(s) = s[1]
<1>1. Len(s) # 0 /\ Len(s) \in Nat
  OBVIOUS
<1>2. Tail(s) \in Seq(S) /\ Len(Tail(s)) = Len(s) - 1
  OBVIOUS
<1>3. Tail(s) = <<>>
  BY <1>1, <1>2
<1>4. Len(s) = 1
  BY <1>1
<1>5. Head(s) = s[1]
  OBVIOUS
<1>6. QED
  BY <1>3, <1>4, <1>5

LEMMA OnePut ==
  ASSUME NEW S, NEW m \in S
  PROVE  /\ Append(<<>>, m) # <<>> /\ Len(Append(<<>>, m)) = 1 /\ Head(Append(<<>>, m)) = m
         /\ <<m>> # <<>> /\ Len(<<m>>) = 1 /\ Head(<<m>>) = m
  OBVIOUS

\* A host whose mutex, or whose record, nobody holds is in no exchange.
LEMMA FreeRuntime ==
  ASSUME IInv, Held, NEW r \in known, hostLock[r] = None
  PROVE  Free(r)
<1> SUFFICES ASSUME NEW u \in Threads, Exchanging(u, r) PROVE FALSE
  BY DEF Free
<1>1. r \in Runtimes
  BY DEF IInv, TypeOK
<1>2. CASE pc[u] \in HeldPCs
  BY <1>2, IdsAreDistinct DEF Held, HeldFor, Exchanging
<1>3. CASE pc[u] \in {"start_recv", "start_kill"}
  BY <1>3 DEF IInv, Starters, Exchanging
<1>4. CASE pc[u] \in PreparePCs \cup HeldReleasePCs
  BY <1>1, <1>4, IdsAreDistinct DEF IInv, Targets, Exchanging
<1>5. QED
  BY <1>2, <1>3, <1>4 DEF Exchanging, HeldPCs

LEMMA FreeService ==
  ASSUME IInv, NEW s \in Services, recordLock[s] = None, state[s] \in Recorded
  PROVE  Free(s)
<1> SUFFICES ASSUME NEW u \in Threads, Exchanging(u, s) PROVE FALSE
  BY DEF Free
<1>1. CASE pc[u] \in KnownPCs
  BY <1>1, IdsAreDistinct DEF IInv, Targets, TypeOK, Exchanging
<1>2. CASE pc[u] \in {"start_recv", "start_kill"}
  BY <1>2, IdsAreDistinct DEF IInv, Starters, Exchanging
<1>3. CASE pc[u] \in PreparePCs
  BY <1>3 DEF IInv, Preparers, Exchanging, Recorded
<1>4. CASE pc[u] \in HeldReleasePCs
  BY <1>4, IdsAreDistinct DEF IInv, Releasers, Exchanging
<1>5. QED
  BY <1>1, <1>2, <1>3, <1>4 DEF Exchanging

\* A host whose pipes a step of t leaves alone.
LEMMA PipeFrame ==
  ASSUME NEW t \in Threads, Moves(t), NEW h \in Hosts, PipeOf(h),
         proc'[h] = proc[h], inbox'[h] = inbox[h], outbox'[h] = outbox[h],
         Exchanging(t, h) => Exchanging(t, h)' \/ ~Writable(h),
         pc'[t] \in Waiting /\ target'[t] = h => pc[t] \in Waiting /\ target[t] = h
  PROVE  PipeOf(h)'
<1>1. \A u \in Threads \ {t} : Exchanging(u, h)' <=> Exchanging(u, h)
  BY DEF Exchanging
<1>2. Free(h)' /\ Writable(h) => Free(h)
  BY <1>1 DEF Free
<1>3. Writable(h)' <=> Writable(h)
  BY DEF Writable
<1>4. OneRequest(h)'
  BY <1>2, <1>3 DEF PipeOf, OneRequest
<1>5. \A u \in Threads : Own(u, h)'
  BY DEF PipeOf, Own
<1>6. QED
  BY <1>4, <1>5 DEF PipeOf

\* A step that leaves all pipes alone: the call was in no exchange, or goes on
\* to end the process, or the process takes no requests any more.
LEMMA PipesKept ==
  ASSUME IInv, Pipes, NEW t \in Threads, NEW l, NEW h, GoTo(t, l, h), UNCHANGED hostVars,
         l \notin Waiting,
         pc[t] \in Waiting \cup Killing =>
           (l \in Killing /\ h = target[t]) \/ ~Writable(target[t])
  PROVE  Pipes'
<1>1. Moves(t) /\ pc'[t] = l /\ target'[t] = h
  BY GoToMoves DEF IInv
<1>2. QED
  BY <1>1, PipeFrame DEF Pipes, Exchanging, hostVars

LEMMA PipesSpawn ==
  ASSUME IInv, Born, Pipes, NEW t \in Threads, pc[t] \in {"idle", "start_record"},
         NEW h \in Hosts, proc[h] = "none",
         NEW l \in {"start_recv", "prepare_recv"}, Spawn(t, h), GoTo(t, l, h)
  PROVE  Pipes'
<1>1. Moves(t) /\ pc'[t] = l /\ target'[t] = h
  BY GoToMoves DEF IInv
<1> DEFINE m == [by |-> t, op |-> "start"]
<1>2. /\ proc'[h] = "spawned" /\ inbox'[h] = <<m>> /\ outbox'[h] = <<>>
      /\ \A g \in Hosts \ {h} :
           proc'[g] = proc[g] /\ inbox'[g] = inbox[g] /\ outbox'[g] = outbox[g]
  BY DEF Spawn, IInv, TypeOK, Born
<1>3. m \in Request
  BY DEF Request, Ops
<1>4. \A u \in Threads : pc[u] \in Waiting => target[u] # h
  BY TargetIsBorn
<1>5. inbox'[h] # <<>> /\ Len(inbox'[h]) = 1 /\ Head(inbox'[h]) = m /\ Len(outbox'[h]) = 0
  <2> HIDE DEF m
  <2>1. QED
    BY <1>2, <1>3, OnePut
<1>6. PipeOf(h)'
  <2>1. OneRequest(h)'
    <3>1. ~Free(h)'
      BY <1>1 DEF Free, Exchanging
    <3>2. QED
      BY <1>2, <1>5, <3>1 DEF OneRequest
  <2>2. \A u \in Threads : Own(u, h)'
    <3> TAKE u \in Threads
    <3>1. CASE u = t
      BY <1>2, <1>5, <3>1 DEF Own
    <3>2. CASE u # t
      BY <1>1, <1>4, <3>2 DEF Own
    <3>3. QED
      BY <3>1, <3>2
  <2>3. QED
    BY <2>1, <2>2 DEF PipeOf
<1>7. \A g \in Hosts \ {h} : PipeOf(g)'
  BY <1>1, <1>2, PipeFrame DEF Pipes, Exchanging
<1>8. QED
  BY <1>6, <1>7 DEF Pipes

LEMMA PipesSend ==
  ASSUME IInv, Pipes, NEW t \in Threads, pc[t] \notin Waiting \cup Killing,
         NEW h \in Hosts, Free(h), proc[h] # "rejected",
         NEW op \in {"invoke", "stop"}, Send(t, h, op),
         NEW l \in Waiting, GoTo(t, l, h)
  PROVE  Pipes'
<1>1. Moves(t) /\ pc'[t] = l /\ target'[t] = h
  BY GoToMoves DEF IInv
<1> DEFINE m == [by |-> t, op |-> op]
<1>2. Writable(h) /\ inbox[h] = <<>> /\ outbox[h] = <<>> /\ proc[h] # "spawned"
  BY DEF Send, Pipes, PipeOf, OneRequest
<1>3. /\ inbox'[h] = Append(<<>>, m) /\ outbox'[h] = <<>> /\ proc'[h] = proc[h]
      /\ \A g \in Hosts \ {h} :
           proc'[g] = proc[g] /\ inbox'[g] = inbox[g] /\ outbox'[g] = outbox[g]
  BY <1>2 DEF Send, IInv, TypeOK
<1>4. m \in Request /\ m.op = op /\ m.by = t
  BY DEF Request, Ops
<1>5. inbox'[h] # <<>> /\ Len(inbox'[h]) = 1 /\ Head(inbox'[h]) = m /\ Len(outbox'[h]) = 0
  <2> HIDE DEF m
  <2>1. QED
    BY <1>3, <1>4, OnePut
<1> HIDE DEF m
<1>6. OneRequest(h)'
  <2>1. ~Free(h)'
    BY <1>1 DEF Free, Exchanging
  <2>2. QED
    BY <1>2, <1>3, <1>4, <1>5, <2>1 DEF OneRequest
<1>7. \A u \in Threads : Own(u, h)'
  <2> TAKE u \in Threads
  <2>1. CASE u = t
    BY <1>3, <1>4, <1>5, <2>1 DEF Own
  <2>2. CASE u # t
    BY <1>1, <2>2 DEF Own, Free, Exchanging
  <2>3. QED
    BY <2>1, <2>2
<1>8. \A g \in Hosts \ {h} : PipeOf(g)'
  BY <1>1, <1>3, PipeFrame DEF Pipes, Exchanging
<1>9. QED
  BY <1>6, <1>7, <1>8 DEF Pipes, PipeOf

LEMMA OneOfTwo ==
  ASSUME NEW a \in Nat, NEW b \in Nat, a + b <= 1
  PROVE  a <= 1 /\ b <= 1 /\ 0 + b <= 1 /\ (b # 0 => a = 0)
  OBVIOUS

LEMMA PipesReceive ==
  ASSUME IInv, Pipes, NEW t \in Threads, pc[t] \in Waiting, NEW g \in Hosts, target[t] = g,
         NEW op, NEW result, Receive(t, op, result), NEW l, NEW h, GoTo(t, l, h),
         l \notin Waiting, result = "timeout" => l \in Killing /\ h = g
  PROVE  Pipes'
<1>1. Moves(t) /\ pc'[t] = l /\ target'[t] = h
  BY GoToMoves DEF IInv
<1>2. CASE outbox[g] = <<>>
  <2>1. UNCHANGED <<proc, inbox, outbox>> /\ (result = "timeout" \/ ~Writable(g))
    BY <1>2 DEF Receive, Writable
  <2>2. QED
    BY <1>1, <2>1, PipeFrame DEF Pipes, Exchanging
<1>3. CASE outbox[g] # <<>>
  <2>1. outbox' = [outbox EXCEPT ![g] = Tail(outbox[g])] /\ UNCHANGED <<proc, inbox>>
    BY <1>3 DEF Receive
  <2>2. inbox[g] \in Seq(Request) /\ outbox[g] \in Seq(Reply)
    BY DEF IInv, TypeOK
  <2>3. Len(inbox[g]) + Len(outbox[g]) <= 1
    BY DEF Pipes, PipeOf, Own
  <2>4. Len(inbox[g]) \in Nat /\ Len(outbox[g]) \in Nat /\ Len(outbox[g]) # 0
    BY <1>3, <2>2
  <2>5. Len(inbox[g]) = 0 /\ Len(outbox[g]) <= 1
    BY <2>3, <2>4, OneOfTwo
  <2>6. inbox[g] = <<>> /\ Tail(outbox[g]) = <<>>
    BY <1>3, <2>2, <2>5, TailOfOne
  <2>7. inbox'[g] = <<>> /\ outbox'[g] = <<>> /\ proc'[g] = proc[g]
    BY <2>1, <2>6 DEF IInv, TypeOK
  <2>8. \A f \in Hosts \ {g} :
          proc'[f] = proc[f] /\ inbox'[f] = inbox[f] /\ outbox'[f] = outbox[f]
    BY <2>1 DEF IInv, TypeOK
  <2>9. PipeOf(g)'
    <3>1. OneRequest(g)'
      BY <2>6, <2>7 DEF Pipes, PipeOf, OneRequest, Writable
    <3>2. Len(inbox'[g]) + Len(outbox'[g]) <= 1
      BY <2>7
    <3>3. \A u \in Threads : Own(u, g)'
      BY <2>7, <3>2 DEF Own
    <3>4. QED
      BY <3>1, <3>3 DEF PipeOf
  <2>10. \A f \in Hosts \ {g} : PipeOf(f)'
    BY <1>1, <2>8, PipeFrame DEF Pipes, Exchanging
  <2>11. QED
    BY <2>9, <2>10 DEF Pipes
<1>4. QED
  BY <1>2, <1>3

LEMMA PipesEnd ==
  ASSUME IInv, Pipes, NEW t \in Threads, NEW g \in Hosts, target[t] = g, Terminate(g, TRUE),
         NEW l, NEW h, GoTo(t, l, h), l \notin Waiting
  PROVE  Pipes'
<1>1. Moves(t) /\ pc'[t] = l /\ target'[t] = h
  BY GoToMoves DEF IInv
<1>2. inbox'[g] = <<>> /\ outbox'[g] = <<>> /\ proc'[g] = "gone"
  BY DEF Terminate, IInv, TypeOK
<1>3. \A f \in Hosts \ {g} :
        proc'[f] = proc[f] /\ inbox'[f] = inbox[f] /\ outbox'[f] = outbox[f]
  BY DEF Terminate, IInv, TypeOK
<1>4. PipeOf(g)'
  <2>1. Len(inbox'[g]) + Len(outbox'[g]) <= 1
    BY <1>2
  <2>2. QED
    BY <1>2, <2>1 DEF PipeOf, OneRequest, Own, Writable
<1>5. \A f \in Hosts \ {g} : PipeOf(f)'
  BY <1>1, <1>3, PipeFrame DEF Pipes, Exchanging
<1>6. QED
  BY <1>4, <1>5 DEF Pipes

\* A host whose pipes a step of another host leaves alone.
LEMMA PipeStays ==
  ASSUME UNCHANGED <<pc, target>>, NEW h, PipeOf(h),
         proc'[h] = proc[h], inbox'[h] = inbox[h], outbox'[h] = outbox[h]
  PROVE  PipeOf(h)'
<1>1. Free(h)' <=> Free(h)
  BY DEF Free, Exchanging
<1>2. \A u \in Threads : Own(u, h)'
  BY DEF PipeOf, Own
<1>3. QED
  BY <1>1, <1>2 DEF PipeOf, OneRequest, Writable

LEMMA PipesServe == ASSUME IInv, Pipes, NEW h \in Hosts, HostServes(h) PROVE Pipes'
<1> DEFINE req == Head(inbox[h])
           a(kind) == [by |-> req.by, op |-> req.op, kind |-> kind]
<1>1. /\ Writable(h) /\ inbox[h] # <<>> /\ req \in Request
      /\ inbox' = [inbox EXCEPT ![h] = Tail(inbox[h])]
      /\ UNCHANGED <<pc, target>>
  BY ServesTo DEF IInv, HostServes, callVars
<1>2. PICK kind, p :
        /\ kind \in Kinds /\ p \in Became(h, req.op, kind)
        /\ proc' = [proc EXCEPT ![h] = p]
        /\ outbox' = [outbox EXCEPT ![h] = Append(outbox[h], a(kind))]
  BY ServesTo DEF IInv
<1>3. OneRequest(h)
  BY DEF Pipes, PipeOf
<1>4. inbox[h] \in Seq(Request) /\ outbox[h] \in Seq(Reply)
  BY DEF IInv, TypeOK
<1>5. Len(inbox[h]) = 1 /\ Tail(inbox[h]) = <<>>
  BY <1>1, <1>3, <1>4, TailOfOne DEF OneRequest
<1>6. req.op \in Ops /\ a(kind) \in Reply /\ a(kind).by = req.by
  BY <1>1, <1>2 DEF Request, Reply
<1>7. p \in {"active", "failed", "rejected", "gone"}
  BY <1>1, <1>2, <1>3, <1>6 DEF Became, Ops, OneRequest, Writable
<1>8. inbox'[h] = <<>> /\ outbox'[h] = Append(outbox[h], a(kind)) /\ proc'[h] = p
  BY <1>1, <1>2, <1>5 DEF IInv, TypeOK
<1>9. \A g \in Hosts \ {h} :
        proc'[g] = proc[g] /\ inbox'[g] = inbox[g] /\ outbox'[g] = outbox[g]
  BY <1>1, <1>2 DEF IInv, TypeOK
<1>10. OneRequest(h)'
  <2>1. ~Free(h)'
    BY <1>1, <1>3 DEF OneRequest, Free, Exchanging
  <2>2. QED
    BY <1>7, <1>8, <2>1 DEF OneRequest
<1>11. ASSUME NEW u \in Threads, pc[u] \in Waiting, target[u] = h PROVE Own(u, h)'
  <2>1. Own(u, h)
    BY DEF Pipes, PipeOf
  <2>2. Len(inbox[h]) + Len(outbox[h]) <= 1 /\ req.by = u
    BY <1>1, <1>11, <2>1 DEF Own
  <2>3. Len(outbox[h]) = 0
    BY <1>4, <1>5, <2>2
  <2>4. outbox[h] = <<>>
    BY <1>4, <2>3
  <2> HIDE DEF a
  <2>5. Len(outbox'[h]) = 1 /\ Head(outbox'[h]) = a(kind)
    BY <1>6, <1>8, <2>4, OnePut
  <2>6. QED
    BY <1>6, <1>8, <2>2, <2>5 DEF Own
<1>12. \A u \in Threads : Own(u, h)'
  BY <1>1, <1>11 DEF Own
<1>13. \A g \in Hosts \ {h} : PipeOf(g)'
  BY <1>1, <1>9, PipeStays DEF Pipes
<1>14. QED
  BY <1>10, <1>12, <1>13 DEF Pipes, PipeOf

LEMMA PipesFail == ASSUME IInv, Pipes, NEW h \in Hosts, HostFails(h) PROVE Pipes'
<1>1. /\ proc'[h] \in {"deaf", "gone"} /\ inbox'[h] = <<>>
      /\ UNCHANGED <<outbox, pc, target>>
  BY DEF HostFails, IInv, TypeOK, callVars
<1>2. \A g \in Hosts \ {h} : proc'[g] = proc[g] /\ inbox'[g] = inbox[g]
  BY DEF HostFails, IInv, TypeOK
<1>3. Len(inbox[h]) \in Nat /\ Len(outbox[h]) \in Nat
  BY DEF IInv, TypeOK
<1>4. ASSUME NEW u \in Threads, pc[u] \in Waiting, target[u] = h PROVE Own(u, h)'
  <2>1. Own(u, h) /\ Len(inbox'[h]) = 0
    BY <1>1 DEF Pipes, PipeOf
  <2>2. Len(inbox[h]) + Len(outbox[h]) <= 1 /\ UNCHANGED outbox
    BY <1>1, <1>4, <2>1 DEF Own
  <2>3. Len(inbox'[h]) + Len(outbox'[h]) <= 1
    BY <1>3, <2>1, <2>2, OneOfTwo
  <2>4. QED
    BY <1>1, <1>4, <2>1, <2>3 DEF Own
<1>5. OneRequest(h)'
  BY <1>1 DEF OneRequest, Writable
<1>6. \A g \in Hosts \ {h} : PipeOf(g)'
  BY <1>1, <1>2, PipeStays DEF Pipes
<1>7. \A u \in Threads : Own(u, h)'
  BY <1>1, <1>4 DEF Own
<1>8. QED
  BY <1>5, <1>6, <1>7 DEF Pipes, PipeOf
-------------------------------------------------------------------------------
(* Every step keeps the pipes in order. *)

USE DEF HeldPCs

\* No kill of a host process has failed so far.
KillsSucceed == killFailures = 0

LEMMA KillEnds ==
  ASSUME TypeOK, KillsSucceed', NEW h, NEW done \in BOOLEAN, Terminate(h, done)
  PROVE  Terminate(h, TRUE)
<1>1. killFailures' # killFailures + 1
  BY DEF TypeOK, KillsSucceed
<1>2. QED
  BY <1>1 DEF Terminate

LEMMA KillsAreCounted ==
  ASSUME TypeOK, NEW h, NEW done \in BOOLEAN, Terminate(h, done), KillsSucceed'
  PROVE  KillsSucceed
<1>1. killFailures' = killFailures
  BY KillEnds DEF Terminate
<1>2. QED
  BY <1>1 DEF KillsSucceed

\* A kill that failed is not forgotten.
LEMMA KillsSucceeded ==
  ASSUME TypeOK, [Next]_vars, KillsSucceed'
  PROVE  KillsSucceed
<1>1. ASSUME NEW t \in Threads, Begin(t) PROVE KillsSucceed
  BY <1>1 DEF Begin, StartRuntime, StartWithService, InvokeRuntime, StopRuntime,
     PrepareService, ReleaseService, Spawn, hostVars, KillsSucceed
<1>2. ASSUME NEW t \in Threads,
             StartKill(t) \/ InvokeKill(t) \/ StopKill(t) \/ PrepareKill(t) \/ ReleaseKill(t)
      PROVE  KillsSucceed
  <2>1. PICK done \in BOOLEAN : Terminate(target[t], done)
    BY <1>2 DEF StartKill, InvokeKill, StopKill, PrepareKill, ReleaseKill
  <2>2. QED
    BY <2>1, KillsAreCounted
<1>3. ASSUME NEW t \in Threads, Step(t),
             ~(StartKill(t) \/ InvokeKill(t) \/ StopKill(t) \/ PrepareKill(t) \/ ReleaseKill(t))
      PROVE  KillsSucceed
  <2>1. CASE \/ StartReceive(t) \/ InvokeReceive(t) \/ StopReceive(t)
             \/ PrepareReceive(t) \/ ReleaseReceive(t)
    BY <2>1 DEF StartReceive, InvokeReceive, StopReceive, PrepareReceive, ReleaseReceive,
       Receive, KillsSucceed
  <2>2. CASE StartLocked(t) \/ InvokeLocked(t) \/ StopLocked(t) \/ ReleaseLocked(t)
    BY <2>2 DEF StartLocked, InvokeLocked, StopLocked, ReleaseLocked, Spawn, Send, Refused,
       hostVars, KillsSucceed
  <2>3. CASE \/ StartTable(t) \/ StartPublish(t) \/ StartRegister(t) \/ InvokeEvict(t)
             \/ StopRemove(t) \/ StopServices(t) \/ StopRecord(t)
             \/ PrepareInsert(t) \/ ReleaseRemove(t)
    BY <2>3 DEF StartTable, StartPublish, StartRegister, InvokeEvict, StopRemove, StopServices,
       StopRecord, PrepareInsert, ReleaseRemove, hostVars, KillsSucceed
  <2>4. QED
    BY <1>3, <2>1, <2>2, <2>3 DEF Step
<1>4. CASE (\E h \in Hosts : HostServes(h) \/ HostFails(h)) \/ Rest \/ UNCHANGED vars
  BY <1>4 DEF HostServes, HostFails, Rest, vars, hostVars, KillsSucceed
<1>5. QED
  BY <1>1, <1>2, <1>3, <1>4 DEF Next

LEMMA HeldKept ==
  ASSUME IInv, Held, NEW t \in Threads, NEW l, NEW h, GoTo(t, l, h),
         l \in HeldPCs => hostLock'[h] = t,
         \A r \in Runtimes : hostLock[r] \notin {None, t} => hostLock'[r] = hostLock[r]
  PROVE  Held'
<1>1. Moves(t) /\ pc'[t] = l /\ target'[t] = h
  BY GoToMoves DEF IInv
<1>2. HeldFor(t)'
  BY <1>1 DEF HeldFor
<1>3. ASSUME NEW u \in Threads \ {t}, pc[u] \in HeldPCs PROVE hostLock'[target[u]] = u
  BY <1>3, IdsAreDistinct DEF Held, HeldFor, IInv, Targets, TypeOK
<1>4. QED
  BY <1>1, <1>2, <1>3 DEF Held, HeldFor

\* Who keeps a host process in mind that is in no map.
TendingPCs == Killing \cup {"start_recv", "start_table", "start_publish", "prepare_recv",
                            "prepare_insert", "stop_lock", "stop_recv"}

LEMMA TendKept ==
  ASSUME IInv, NoOrphanHost, NEW t \in Threads, NEW l, NEW h, GoTo(t, l, h), Ages,
         \A g \in Hosts :
           g \in hosts \cup services \/ (target[t] = g /\ pc[t] \in TendingPCs) =>
             proc'[g] = "gone" \/ g \in hosts' \cup services' \/ (h = g /\ l \in TendingPCs)
  PROVE  NoOrphanHost'
<1>1. Moves(t) /\ pc'[t] = l /\ target'[t] = h
  BY GoToMoves DEF IInv
<1> SUFFICES ASSUME NEW g \in Hosts, proc'[g] \notin {"none", "gone"}, g \notin hosts' \cup services'
             PROVE  \E u \in Threads : target'[u] = g /\ pc'[u] \in TendingPCs
  BY DEF NoOrphanHost, TendingPCs
<1>2. proc[g] \notin {"none", "gone"}
  BY DEF Ages
<1>3. CASE g \in hosts \cup services
  BY <1>1, <1>3
<1>4. CASE g \notin hosts \cup services
  <2>1. PICK u \in Threads : target[u] = g /\ pc[u] \in TendingPCs
    BY <1>2, <1>4 DEF NoOrphanHost, TendingPCs
  <2>2. CASE u = t
    BY <1>1, <2>1, <2>2
  <2>3. CASE u # t
    BY <1>1, <2>1, <2>3
  <2>4. QED
    BY <2>2, <2>3
<1>5. QED
  BY <1>3, <1>4

\* A step of a call that touches neither pipes nor mutexes of hosts.
LEMMA QuietPipes ==
  ASSUME IInv, PipesInv, NEW t \in Threads, NEW l, NEW h, GoTo(t, l, h),
         UNCHANGED <<hostVars, hostLock>>, l \notin Waiting,
         pc[t] \in Waiting \cup Killing \/ l \in HeldPCs =>
           pc[t] \in HeldPCs /\ l \in Killing /\ h = target[t],
         \A g \in Hosts :
           g \in hosts \cup services \/ (target[t] = g /\ pc[t] \in TendingPCs) =>
             proc[g] = "gone" \/ g \in hosts' \cup services' \/ (h = g /\ l \in TendingPCs)
  PROVE  PipesInv'
<1>1. Held'
  BY HeldKept DEF PipesInv, Held, HeldFor
<1>2. Pipes'
  BY PipesKept DEF PipesInv
<1>3. Ages /\ UNCHANGED proc
  BY SameAges DEF hostVars
<1>4. NoOrphanHost'
  BY <1>3, TendKept DEF PipesInv
<1>5. QED
  BY <1>1, <1>2, <1>4 DEF PipesInv

LEMMA PipesBegin ==
  ASSUME IInv, PipesInv, NEW t \in Threads,
         StartWithService(t) \/ InvokeRuntime(t) \/ StopRuntime(t) \/ ReleaseService(t)
  PROVE  PipesInv'
<1>1. pc[t] = "idle" /\ UNCHANGED <<hostVars, hostLock, hosts, services>>
  BY DEF StartWithService, InvokeRuntime, StopRuntime, ReleaseService, registry, serviceVars
<1>2. PICK l, h : l \in {"start_record", "invoke_lock", "stop_remove", "release_record"} /\ GoTo(t, l, h)
  BY DEF StartWithService, InvokeRuntime, StopRuntime, ReleaseService
<1>3. QED
  BY <1>1, <1>2, QuietPipes DEF TendingPCs

LEMMA PipesMaps ==
  ASSUME IInv, PipesInv, NEW t \in Threads, StartTable(t) \/ StartPublish(t) \/ StartRegister(t)
  PROVE  PipesInv'
<1>1. UNCHANGED <<hostVars, hostLock, services>>
  BY DEF StartTable, StartPublish, StartRegister, registry, serviceVars
<1>2. CASE StartTable(t)
  <2>1. pc[t] = "start_table" /\ GoTo(t, "start_publish", target[t]) /\ UNCHANGED hosts
    BY <1>2 DEF StartTable
  <2>2. QED
    BY <1>1, <2>1, QuietPipes DEF TendingPCs
<1>3. CASE StartPublish(t)
  <2>1. /\ pc[t] = "start_publish" /\ GoTo(t, "start_register", target[t])
        /\ hosts' = hosts \cup {target[t]}
    BY <1>3 DEF StartPublish
  <2>2. QED
    BY <1>1, <2>1, QuietPipes DEF TendingPCs
<1>4. CASE StartRegister(t)
  <2>1. pc[t] = "start_register" /\ GoTo(t, "idle", None) /\ UNCHANGED hosts
    BY <1>4 DEF StartRegister, Return, registry
  <2>2. QED
    BY <1>1, <2>1, QuietPipes DEF TendingPCs
<1>5. QED
  BY <1>2, <1>3, <1>4

LEMMA PipesEvict == ASSUME IInv, PipesInv, NEW t \in Threads, InvokeEvict(t) PROVE PipesInv'
<1>1. /\ pc[t] = "invoke_evict" /\ hosts' = hosts \ {target[t]} /\ GoTo(t, "invoke_kill", target[t])
      /\ UNCHANGED <<hostVars, hostLock, services>>
  BY DEF InvokeEvict, serviceVars
<1>2. QED
  BY <1>1, QuietPipes DEF TendingPCs

LEMMA PipesRemove == ASSUME IInv, PipesInv, NEW t \in Threads, StopRemove(t) PROVE PipesInv'
<1>1. /\ pc[t] = "stop_remove" /\ hosts' = hosts \ {target[t]}
      /\ UNCHANGED <<hostVars, hostLock, services>>
  BY DEF StopRemove, serviceVars
<1>2. CASE target[t] \in hosts
  <2>1. GoTo(t, "stop_lock", target[t])
    BY <1>2 DEF StopRemove
  <2>2. QED
    BY <1>1, <2>1, QuietPipes DEF TendingPCs
<1>3. CASE target[t] \notin hosts
  <2>1. PICK l, h : l \in {"idle", "stop_services"} /\ GoTo(t, l, h)
    BY <1>3 DEF StopRemove, AfterStop, Return
  <2>2. QED
    BY <1>1, <1>3, <2>1, QuietPipes DEF TendingPCs
<1>4. QED
  BY <1>2, <1>3

LEMMA PipesLeave ==
  ASSUME IInv, PipesInv, NEW t \in Threads, StopServices(t) \/ StopRecord(t)
  PROVE  PipesInv'
<1>1. pc[t] \in LeavePCs /\ UNCHANGED <<hostVars, hostLock, hosts, services>>
  BY DEF StopServices, StopRecord, registry
<1>2. PICK l, h : l \in {"idle", "stop_record"} /\ GoTo(t, l, h)
  BY DEF StopServices, StopRecord, Return
<1>3. QED
  BY <1>1, <1>2, QuietPipes DEF TendingPCs

LEMMA PipesServices ==
  ASSUME IInv, MapsInv, PipesInv, NEW t \in Threads, PrepareInsert(t) \/ ReleaseRemove(t)
  PROVE  PipesInv'
<1>1. GoTo(t, "idle", None) /\ UNCHANGED <<hostVars, hostLock, hosts>>
  BY DEF PrepareInsert, ReleaseRemove, Return, registry
<1>2. CASE PrepareInsert(t)
  <2>1. pc[t] = "prepare_insert" /\ services' = services \cup {target[t]}
    BY <1>2 DEF PrepareInsert
  <2>2. QED
    BY <1>1, <2>1, QuietPipes DEF TendingPCs
<1>3. CASE ReleaseRemove(t)
  <2>1. pc[t] = "release_remove" /\ services' = services \ {target[t]}
    BY <1>3 DEF ReleaseRemove
  <2>2. proc[target[t]] = "gone"
    BY <2>1 DEF MapsInv, Over, OverFor
  <2>3. QED
    BY <1>1, <2>1, <2>2, QuietPipes DEF TendingPCs
<1>4. QED
  BY <1>2, <1>3

\* A process is spawned for a fresh id, by a call that will tend it.
LEMMA PipesSpawned ==
  ASSUME IInv, MapsInv, PipesInv, NEW t \in Threads, pc[t] \in {"idle", "start_record"},
         NEW h \in Hosts, proc[h] = "none",
         NEW l \in {"start_recv", "prepare_recv"}, Spawn(t, h), GoTo(t, l, h),
         UNCHANGED <<hosts, services, hostLock>>
  PROVE  PipesInv'
<1>1. Held'
  BY HeldKept DEF PipesInv
<1>2. Pipes'
  BY PipesSpawn DEF PipesInv, MapsInv
<1>3. Moves(t) /\ pc'[t] = l /\ target'[t] = h
  BY GoToMoves DEF IInv
<1>4. \A g \in Hosts \ {h} : proc'[g] = proc[g]
  BY DEF Spawn, IInv, TypeOK
<1>5. NoOrphanHost'
  <2> SUFFICES ASSUME NEW g \in Hosts, proc'[g] \notin {"none", "gone"}, g \notin hosts \cup services
               PROVE  \E u \in Threads : target'[u] = g /\ pc'[u] \in TendingPCs
    BY DEF NoOrphanHost, TendingPCs
  <2>1. CASE g = h
    BY <1>3, <2>1 DEF TendingPCs
  <2>2. CASE g # h
    <3>1. PICK u \in Threads : target[u] = g /\ pc[u] \in TendingPCs
      BY <1>4, <2>2 DEF PipesInv, NoOrphanHost, TendingPCs
    <3>2. u # t
      BY <3>1 DEF TendingPCs
    <3>3. QED
      BY <1>3, <3>1, <3>2
  <2>3. QED
    BY <2>1, <2>2
<1>6. QED
  BY <1>1, <1>2, <1>5 DEF PipesInv

LEMMA PipesStartRuntime ==
  ASSUME IInv, MapsInv, PipesInv, NEW t \in Threads, StartRuntime(t) PROVE PipesInv'
<1>1. PICK r \in Runtimes : service[r] = Unborn /\ Spawn(t, r) /\ GoTo(t, "start_recv", r)
  BY DEF StartRuntime
<1>2. proc[r] = "none"
  BY <1>1 DEF MapsInv, Born
<1>3. QED
  BY <1>1, <1>2, PipesSpawned DEF StartRuntime, registry, serviceVars

LEMMA PipesStartLocked ==
  ASSUME IInv, MapsInv, PipesInv, NEW t \in Threads, StartLocked(t) PROVE PipesInv'
<1>1. pc[t] = "start_record" /\ UNCHANGED <<hosts, services, hostLock>>
  BY DEF StartLocked, registry
<1>2. CASE Return(t) /\ UNCHANGED <<hostVars, service, recordLock>>
  BY <1>1, <1>2, QuietPipes DEF Return, TendingPCs
<1>3. CASE ~(Return(t) /\ UNCHANGED <<hostVars, service, recordLock>>)
  <2>1. PICK r \in Runtimes : service[r] = Unborn /\ Spawn(t, r) /\ GoTo(t, "start_recv", r)
    BY <1>3 DEF StartLocked
  <2>2. proc[r] = "none"
    BY <2>1 DEF MapsInv, Born
  <2>3. QED
    BY <1>1, <2>1, <2>2, PipesSpawned
<1>4. QED
  BY <1>2, <1>3

LEMMA PipesPrepareService ==
  ASSUME IInv, MapsInv, PipesInv, NEW t \in Threads, PrepareService(t) PROVE PipesInv'
<1>1. PICK s \in Services : state[s] = Unborn /\ Spawn(t, s) /\ GoTo(t, "prepare_recv", s)
  BY DEF PrepareService
<1>2. proc[s] = "none"
  BY <1>1 DEF MapsInv, Born
<1>3. QED
  BY <1>1, <1>2, PipesSpawned DEF PrepareService, registry

\* A request is sent to a host nobody else talks to.
LEMMA PipesSent ==
  ASSUME IInv, MapsInv, PipesInv, NEW t \in Threads,
         pc[t] \in {"invoke_lock", "stop_lock", "release_record"},
         NEW h \in Hosts, target[t] = h, Free(h), proc[h] # "rejected",
         NEW op \in {"invoke", "stop"}, Send(t, h, op),
         NEW l \in {"invoke_recv", "stop_recv", "release_recv"}, GoTo(t, l, h),
         l # "release_recv" => hostLock' = [hostLock EXCEPT ![h] = t] /\ h \in Runtimes /\ hostLock[h] = None,
         l = "release_recv" => UNCHANGED hostLock /\ h \in services,
         pc[t] = "stop_lock" => l = "stop_recv",
         UNCHANGED <<hosts, services>>
  PROVE  PipesInv'
<1>1. Held'
  BY HeldKept DEF PipesInv, IInv, TypeOK
<1>2. Pipes'
  BY PipesSend DEF PipesInv
<1>3. Ages
  BY AgesBy
<1>4. NoOrphanHost'
  BY <1>3, TendKept DEF PipesInv, TendingPCs
<1>5. QED
  BY <1>1, <1>2, <1>4 DEF PipesInv

LEMMA PipesInvokeLocked ==
  ASSUME IInv, MapsInv, PipesInv, Fresh, NEW t \in Threads, InvokeLocked(t) PROVE PipesInv'
<1>1. /\ pc[t] = "invoke_lock" /\ target[t] \in known /\ target[t] \in Runtimes
      /\ hostLock[target[t]] = None
      /\ UNCHANGED <<hosts, services>>
  BY DEF InvokeLocked, IInv, Targets, TypeOK, serviceVars
<1>2. CASE Return(t) /\ UNCHANGED <<hostVars, hostLock>>
  BY <1>1, <1>2, QuietPipes DEF Return, TendingPCs
<1>3. CASE ~(Return(t) /\ UNCHANGED <<hostVars, hostLock>>)
  <2>1. /\ Send(t, target[t], "invoke") /\ GoTo(t, "invoke_recv", target[t])
        /\ hostLock' = [hostLock EXCEPT ![target[t]] = t]
    BY <1>3 DEF InvokeLocked
  <2>2. Free(target[t]) /\ proc[target[t]] # "rejected"
    BY <1>1, FreeRuntime DEF PipesInv, Fresh, FreshFor, FreshStates, Hosts
  <2>3. QED
    BY <1>1, <2>1, <2>2, PipesSent
<1>4. QED
  BY <1>2, <1>3

\* A process that refuses the stop is ended without one.
LEMMA PipesStopLocked ==
  ASSUME IInv, MapsInv, PipesInv, Fresh, NEW t \in Threads, StopLocked(t) PROVE PipesInv'
<1>1. /\ pc[t] = "stop_lock" /\ target[t] \in known /\ target[t] \in Runtimes
      /\ hostLock[target[t]] = None /\ hostLock' = [hostLock EXCEPT ![target[t]] = t]
      /\ UNCHANGED <<hosts, services>>
  BY DEF StopLocked, IInv, Targets, TypeOK, serviceVars
<1>2. CASE Send(t, target[t], "stop") /\ GoTo(t, "stop_recv", target[t])
  <2>1. Free(target[t]) /\ proc[target[t]] # "rejected"
    BY <1>1, FreeRuntime DEF PipesInv, Fresh, FreshFor, FreshStates, Hosts
  <2>2. QED
    BY <1>1, <1>2, <2>1, PipesSent
<1>3. CASE Refused(target[t]) /\ GoTo(t, "stop_kill", target[t])
  <2>1. UNCHANGED hostVars
    BY <1>3 DEF Refused
  <2>2. Held'
    BY <1>1, <1>3, HeldKept DEF PipesInv, IInv, TypeOK
  <2>3. Pipes'
    BY <1>1, <1>3, <2>1, PipesKept DEF PipesInv
  <2>4. NoOrphanHost'
    BY <1>1, <1>3, <2>1, SameAges, TendKept DEF PipesInv, TendingPCs
  <2>5. QED
    BY <2>2, <2>3, <2>4 DEF PipesInv
<1>4. QED
  BY <1>2, <1>3 DEF StopLocked

LEMMA PipesReleaseLocked ==
  ASSUME IInv, MapsInv, PipesInv, Fresh, NEW t \in Threads, ReleaseLocked(t) PROVE PipesInv'
<1> DEFINE s == target[t]
<1>1. /\ pc[t] = "release_record" /\ s \in Services /\ state[s] \in Recorded
      /\ recordLock[s] = None
      /\ UNCHANGED <<hosts, services, hostLock>>
  BY DEF ReleaseLocked, IInv, Targets, Records, registry
<1>2. CASE state[s] = "Released" \/ users[s] # {}
  <2>1. GoTo(t, "idle", None) /\ UNCHANGED hostVars
    BY <1>2 DEF ReleaseLocked, Return
  <2>2. QED
    BY <1>1, <2>1, QuietPipes DEF TendingPCs
<1>3. CASE state[s] # "Released" /\ Send(t, s, "stop") /\ GoTo(t, "release_recv", s)
  <2>1. s \in services
    BY <1>1, <1>3 DEF MapsInv, DroppedServiceIsOver
  <2>2. Free(s) /\ proc[s] # "rejected"
    BY <1>1, FreeService DEF Fresh, FreshFor, FreshStates, Hosts
  <2>3. QED
    BY <1>1, <1>3, <2>1, <2>2, PipesSent
<1>4. CASE Refused(s) /\ GoTo(t, "release_kill", s)
  <2>1. UNCHANGED hostVars
    BY <1>4 DEF Refused
  <2>2. QED
    BY <1>1, <1>4, <2>1, QuietPipes DEF TendingPCs
<1>5. QED
  BY <1>2, <1>3, <1>4 DEF ReleaseLocked

\* An answer, the end of the stream or the timeout ends the wait.
LEMMA PipesReceived ==
  ASSUME IInv, MapsInv, PipesInv, NEW t \in Threads, pc[t] \in Waiting,
         NEW op, NEW result, Receive(t, op, result), NEW l, NEW h, GoTo(t, l, h),
         l \notin Waiting, result = "timeout" => l \in Killing /\ h = target[t],
         l \in HeldPCs => pc[t] \in HeldPCs /\ h = target[t] /\ UNCHANGED hostLock,
         UNCHANGED hostLock \/ hostLock' = [hostLock EXCEPT ![target[t]] = None],
         pc[t] # "invoke_recv" => UNCHANGED hostLock,
         pc[t] \notin {"invoke_recv", "release_recv"} => l \in TendingPCs /\ h = target[t],
         UNCHANGED <<hosts, services>>
  PROVE  PipesInv'
<1>1. target[t] \in Hosts
  BY TargetIsBorn DEF MapsInv
<1>2. Held'
  <2>1. pc[t] \in HeldPCs => hostLock[target[t]] = t /\ target[t] \in Runtimes
    BY DEF PipesInv, Held, HeldFor, IInv, Targets, TypeOK
  <2>2. QED
    BY <2>1, HeldKept DEF PipesInv, IInv, TypeOK
<1>3. Pipes'
  BY <1>1, PipesReceive DEF PipesInv
<1>4. Ages
  BY AgesBy
<1>5. NoOrphanHost'
  BY <1>4, TendKept DEF PipesInv, TendingPCs
<1>6. QED
  BY <1>2, <1>3, <1>5 DEF PipesInv

LEMMA PipesReceives ==
  ASSUME IInv, MapsInv, PipesInv, NEW t \in Threads,
         \/ StartReceive(t) \/ InvokeReceive(t) \/ StopReceive(t)
         \/ PrepareReceive(t) \/ ReleaseReceive(t)
  PROVE  PipesInv'
<1>1. UNCHANGED <<hosts, services>>
  BY DEF StartReceive, InvokeReceive, StopReceive, PrepareReceive, ReleaseReceive, registry, serviceVars
<1>2. CASE StartReceive(t)
  <2>1. PICK result, l :
          /\ Receive(t, "start", result) /\ GoTo(t, l, target[t]) /\ pc[t] = "start_recv"
          /\ l = IF result = "ok" THEN "start_table" ELSE "start_kill"
          /\ UNCHANGED hostLock
    BY <1>2 DEF StartReceive, registry
  <2>2. QED
    BY <1>1, <2>1, PipesReceived DEF TendingPCs
<1>3. CASE InvokeReceive(t)
  <2>1. PICK result :
          /\ Receive(t, "invoke", result) /\ pc[t] = "invoke_recv"
          /\ IF result = "timeout"
               THEN GoTo(t, "invoke_evict", target[t]) /\ UNCHANGED hostLock
               ELSE GoTo(t, "idle", None) /\ hostLock' = [hostLock EXCEPT ![target[t]] = None]
    BY <1>3 DEF InvokeReceive, Return
  <2>2. CASE result = "timeout"
    BY <1>1, <2>1, <2>2, PipesReceived
  <2>3. CASE result # "timeout"
    BY <1>1, <2>1, <2>3, PipesReceived
  <2>4. QED
    BY <2>2, <2>3
<1>4. CASE StopReceive(t)
  <2>1. PICK result :
          /\ Receive(t, "stop", result) /\ pc[t] = "stop_recv"
          /\ GoTo(t, "stop_kill", target[t]) /\ UNCHANGED hostLock
    BY <1>4 DEF StopReceive, registry
  <2>2. QED
    BY <1>1, <2>1, PipesReceived DEF TendingPCs
<1>5. CASE PrepareReceive(t)
  <2>1. PICK result, l :
          /\ Receive(t, "start", result) /\ GoTo(t, l, target[t]) /\ pc[t] = "prepare_recv"
          /\ l = "prepare_kill" \/ (l = "prepare_insert" /\ result = "ok")
          /\ UNCHANGED hostLock
    BY <1>5 DEF PrepareReceive, registry
  <2>2. QED
    BY <1>1, <2>1, PipesReceived DEF TendingPCs
<1>6. CASE ReleaseReceive(t)
  <2>1. PICK result :
          /\ Receive(t, "stop", result) /\ pc[t] = "release_recv"
          /\ GoTo(t, "release_kill", target[t]) /\ UNCHANGED hostLock
    BY <1>6 DEF ReleaseReceive, registry
  <2>2. QED
    BY <1>1, <2>1, PipesReceived DEF TendingPCs
<1>7. QED
  BY <1>2, <1>3, <1>4, <1>5, <1>6

\* The process of a call is ended.
LEMMA PipesEnded ==
  ASSUME IInv, MapsInv, PipesInv, KillsSucceed', NEW t \in Threads, pc[t] \in Killing,
         NEW done \in BOOLEAN, Terminate(target[t], done), NEW l, NEW h, GoTo(t, l, h),
         l \notin Waiting \cup HeldPCs,
         UNCHANGED hostLock \/ (hostLock' = [hostLock EXCEPT ![target[t]] = None] /\ pc[t] \in HeldPCs),
         UNCHANGED <<hosts, services>>
  PROVE  PipesInv'
<1>1. target[t] \in Hosts /\ TypeOK
  BY TargetIsBorn DEF MapsInv, IInv
<1>2. Terminate(target[t], TRUE)
  BY <1>1, KillEnds
<1>3. Held'
  <2>1. pc[t] \in HeldPCs => hostLock[target[t]] = t /\ target[t] \in Runtimes
    BY DEF PipesInv, Held, HeldFor, IInv, Targets, TypeOK
  <2>2. QED
    BY <2>1, HeldKept DEF PipesInv, IInv, TypeOK
<1>4. Pipes'
  BY <1>1, <1>2, PipesEnd DEF PipesInv
<1>5. Ages
  BY AgesBy
<1>6. proc'[target[t]] = "gone"
  BY <1>1, <1>2 DEF Terminate, TypeOK
<1>7. NoOrphanHost'
  BY <1>5, <1>6, TendKept DEF PipesInv
<1>8. QED
  BY <1>3, <1>4, <1>7 DEF PipesInv

LEMMA PipesKills ==
  ASSUME IInv, MapsInv, PipesInv, KillsSucceed', NEW t \in Threads,
         \/ StartKill(t) \/ InvokeKill(t) \/ StopKill(t) \/ PrepareKill(t) \/ ReleaseKill(t)
  PROVE  PipesInv'
<1>1. UNCHANGED <<hosts, services>>
  BY DEF StartKill, InvokeKill, StopKill, PrepareKill, ReleaseKill, registry, serviceVars
<1>2. PICK done \in BOOLEAN : Terminate(target[t], done)
  BY DEF StartKill, InvokeKill, StopKill, PrepareKill, ReleaseKill
<1>3. PICK l, h : l \in {"idle", "stop_services", "release_remove"} /\ GoTo(t, l, h)
  BY DEF StartKill, InvokeKill, StopKill, PrepareKill, ReleaseKill, Return, AfterStop
<1>4. pc[t] \in Killing
  BY DEF StartKill, InvokeKill, StopKill, PrepareKill, ReleaseKill
<1>5. UNCHANGED hostLock \/ (hostLock' = [hostLock EXCEPT ![target[t]] = None] /\ pc[t] \in HeldPCs)
  BY DEF StartKill, InvokeKill, StopKill, PrepareKill, ReleaseKill, registry
<1>6. QED
  BY <1>1, <1>2, <1>3, <1>4, <1>5, PipesEnded

LEMMA PipesHosts ==
  ASSUME IInv, PipesInv, NEW h \in Hosts, HostServes(h) \/ HostFails(h)
  PROVE  PipesInv'
<1>1. UNCHANGED <<hosts, services, hostLock, pc, target>> /\ Ages
  BY ServesAges, FailsAges DEF HostServes, HostFails, registry, serviceVars, callVars, IInv
<1>2. Pipes'
  BY PipesServe, PipesFail DEF PipesInv
<1>3. Held'
  BY <1>1 DEF PipesInv, Held, HeldFor
<1>4. NoOrphanHost'
  BY <1>1 DEF PipesInv, NoOrphanHost, Ages
<1>5. QED
  BY <1>2, <1>3, <1>4 DEF PipesInv

LEMMA PipesStutter == ASSUME PipesInv, UNCHANGED vars PROVE PipesInv'
<1>1. UNCHANGED <<proc, inbox, outbox, hosts, services, hostLock, pc, target>>
  BY DEF vars, hostVars, registry, serviceVars, callVars
<1>2. Pipes'
  BY <1>1, PipeStays DEF PipesInv, Pipes
<1>3. Held' /\ NoOrphanHost'
  BY <1>1 DEF PipesInv, Held, HeldFor, NoOrphanHost
<1>4. QED
  BY <1>2, <1>3 DEF PipesInv

LEMMA PipesInit == Init => PipesInv
  BY DEF Init, PipesInv, Held, HeldFor, Pipes, PipeOf, OneRequest, Own, Writable, NoOrphanHost

LEMMA PipesStep ==
  ASSUME KillsSucceed', IInv, MapsInv, PipesInv, Fresh, [Next]_vars
  PROVE  PipesInv'
<1>1. ASSUME NEW t \in Threads, Begin(t) PROVE PipesInv'
  BY <1>1, PipesStartRuntime, PipesBegin, PipesPrepareService DEF Begin
<1>2. ASSUME NEW t \in Threads, Step(t) PROVE PipesInv'
  BY <1>2, PipesStartLocked, PipesMaps, PipesInvokeLocked, PipesEvict, PipesRemove,
     PipesStopLocked, PipesLeave, PipesServices, PipesReleaseLocked, PipesReceives,
     PipesKills DEF Step
<1>3. ASSUME NEW h \in Hosts, HostServes(h) \/ HostFails(h) PROVE PipesInv'
  BY <1>3, PipesHosts
<1>4. QED
  BY <1>1, <1>2, <1>3, PipesStutter DEF Next, Rest

-------------------------------------------------------------------------------
(* Every step leaves a host that has not accepted its start to that start. *)

LEMMA FreshInit == Init => Fresh
  BY DEF Init, Fresh, FreshFor, FreshStates

\* A step of t makes no host fresh, changes the answers of none that is, takes
\* none for ready and hands none out.
LEMMA FreshKept ==
  ASSUME Fresh, NEW t \in Threads, Moves(t),
         \A h \in Hosts : proc'[h] \in FreshStates =>
           /\ proc[h] \in FreshStates
           /\ outbox'[h] = outbox[h] \/ outbox'[h] = <<>>
           /\ h \in known' => h \in known
           /\ h \in Services /\ state'[h] \in Recorded => state[h] \in Recorded
           /\ ~(target'[t] = h /\ pc'[t] \in ReadyPCs)
  PROVE  Fresh'
  BY DEF Fresh, FreshFor, Moves

LEMMA FreshSpawn ==
  ASSUME IInv, MapsInv, Fresh, NEW t \in Threads, NEW h \in Hosts, proc[h] = "none",
         Spawn(t, h), Moves(t), target'[t] = h, pc'[t] \in {"start_recv", "prepare_recv"},
         known' = known, \A s \in Services : state'[s] \in Recorded => state[s] \in Recorded
  PROVE  Fresh'
<1>1. \A g \in Hosts \ {h} : proc'[g] = proc[g] /\ outbox'[g] = outbox[g]
  BY DEF Spawn, IInv, TypeOK
<1>2. outbox'[h] = <<>>
  BY DEF Spawn, MapsInv, Born
<1>3. h \notin known
  BY DEF IInv, TypeOK, Drawn, MapsInv, Born
<1>4. h \in Services => state[h] \notin Recorded
  BY IdsAreDistinct DEF MapsInv, Born, Recorded, Unborn
<1>5. \A u \in Threads \ {t} : target[u] = h => pc[u] \notin ReadyPCs
  BY TargetIsBorn DEF ReadyPCs, MapsInv
<1>6. FreshFor(h)'
  BY <1>2, <1>3, <1>4, <1>5 DEF FreshFor, ReadyPCs, Moves
<1>7. \A g \in Hosts \ {h} : FreshFor(g)'
  BY <1>1 DEF Fresh, FreshFor, ReadyPCs, Moves
<1>8. QED
  BY <1>6, <1>7 DEF Fresh

LEMMA FreshReceive ==
  ASSUME IInv, Pipes, Fresh, NEW t \in Threads, pc[t] \in Waiting, target[t] \in Hosts,
         NEW op, NEW result, Receive(t, op, result), NEW l, NEW h, GoTo(t, l, h),
         h \in {target[t], None}, l \in ReadyPCs => result = "ok",
         UNCHANGED <<known, state>>
  PROVE  Fresh'
<1> DEFINE g == target[t]
<1>1. Moves(t) /\ pc'[t] = l /\ target'[t] = h
  BY GoToMoves DEF IInv
<1>2. UNCHANGED proc
  BY DEF Receive
<1>3. \A f \in Hosts \ {g} : outbox'[f] = outbox[f]
  BY DEF Receive, IInv, TypeOK
<1>4. ASSUME proc[g] \in FreshStates
      PROVE  result # "ok" /\ (outbox'[g] = outbox[g] \/ outbox'[g] = <<>>)
  <2>1. CASE outbox[g] = <<>>
    BY <2>1 DEF Receive
  <2>2. CASE outbox[g] # <<>>
    <3>1. result = Verdict(Head(outbox[g]), op) /\ outbox'[g] = Tail(outbox[g])
      BY <2>2 DEF Receive, IInv, TypeOK
    <3>2. Head(outbox[g]).kind = "error"
      BY <1>4, <2>2 DEF Fresh, FreshFor
    <3>3. inbox[g] \in Seq(Request) /\ outbox[g] \in Seq(Reply)
      BY DEF IInv, TypeOK
    <3>4. Len(inbox[g]) + Len(outbox[g]) <= 1
      BY DEF Pipes, PipeOf, Own
    <3>5. Len(inbox[g]) \in Nat /\ Len(outbox[g]) \in Nat
      BY <3>3
    <3>6. Len(outbox[g]) <= 1
      BY <3>4, <3>5, OneOfTwo
    <3>7. Tail(outbox[g]) = <<>>
      BY <2>2, <3>3, <3>6, TailOfOne
    <3>8. QED
      BY <3>1, <3>2, <3>7 DEF Verdict
  <2>3. QED
    BY <2>1, <2>2
<1>5. \A f \in Hosts : target'[t] = f => f = g
  BY <1>1, IdsAreDistinct DEF Hosts
<1>6. QED
  BY <1>1, <1>2, <1>3, <1>4, <1>5, FreshKept

LEMMA FreshKill ==
  ASSUME IInv, Fresh, NEW t \in Threads, NEW done \in BOOLEAN, Terminate(target[t], done),
         NEW l, NEW h, GoTo(t, l, h), l \notin ReadyPCs, UNCHANGED known,
         \A s \in Services : state'[s] \in Recorded => state[s] \in Recorded
  PROVE  Fresh'
<1>1. Moves(t) /\ pc'[t] = l /\ target'[t] = h
  BY GoToMoves DEF IInv
<1>2. \A g \in Hosts : proc'[g] \in FreshStates => proc'[g] = proc[g] /\ outbox'[g] = outbox[g]
  BY DEF Terminate, IInv, TypeOK, FreshStates
<1>3. QED
  BY <1>1, <1>2, FreshKept

LEMMA FreshHosts ==
  ASSUME IInv, Pipes, Fresh, NEW h \in Hosts, HostServes(h) \/ HostFails(h)
  PROVE  Fresh'
<1>1. UNCHANGED <<state, known, pc, target>>
  BY DEF HostServes, HostFails, serviceVars, handles, callVars
<1>2. CASE HostFails(h)
  <2>1. /\ proc'[h] \in {"deaf", "gone"} /\ outbox' = outbox
        /\ \A g \in Hosts \ {h} : proc'[g] = proc[g]
    BY <1>2 DEF HostFails, IInv, TypeOK
  <2>2. QED
    BY <1>1, <2>1 DEF Fresh, FreshFor, FreshStates
<1>3. CASE HostServes(h)
  <2> DEFINE req == Head(inbox[h])
             a(kind) == [by |-> req.by, op |-> req.op, kind |-> kind]
  <2>1. Writable(h) /\ inbox[h] # <<>> /\ req \in Request
    BY <1>3, ServesTo DEF IInv
  <2>2. PICK kind, p :
          /\ kind \in Kinds /\ p \in Became(h, req.op, kind)
          /\ proc' = [proc EXCEPT ![h] = p]
          /\ outbox' = [outbox EXCEPT ![h] = Append(outbox[h], a(kind))]
    BY <1>3, ServesTo DEF IInv
  <2>3. OneRequest(h) /\ req.op \in Ops
    BY <2>1 DEF Pipes, PipeOf, Request
  <2>4. proc'[h] = p /\ outbox'[h] = Append(outbox[h], a(kind))
    BY <2>2 DEF IInv, TypeOK
  <2>5. \A g \in Hosts \ {h} : proc'[g] = proc[g] /\ outbox'[g] = outbox[g]
    BY <2>2 DEF IInv, TypeOK
  <2>6. ASSUME p \in FreshStates PROVE proc[h] \in FreshStates /\ kind = "error"
    BY <2>1, <2>2, <2>3, <2>6 DEF Became, Ops, Kinds, OneRequest, Writable, FreshStates
  <2>7. outbox[h] \in Seq(Reply) /\ a(kind) \in Reply /\ a(kind).kind = kind
    BY <2>1, <2>2 DEF IInv, TypeOK, Request, Reply
  <2> HIDE DEF a
  <2>8. Head(Append(outbox[h], a(kind))) =
          IF outbox[h] = <<>> THEN a(kind) ELSE Head(outbox[h])
    BY <2>7
  <2>9. FreshFor(h)'
    BY <1>1, <2>4, <2>6, <2>7, <2>8 DEF Fresh, FreshFor
  <2>10. \A g \in Hosts \ {h} : FreshFor(g)'
    BY <1>1, <2>5 DEF Fresh, FreshFor
  <2>11. QED
    BY <2>9, <2>10 DEF Fresh
<1>4. QED
  BY <1>2, <1>3

\* A step of a call that changes no process and takes no answer.
LEMMA FreshQuiet ==
  ASSUME IInv, Fresh, NEW t \in Threads, NEW l, NEW h, GoTo(t, l, h), UNCHANGED <<proc, outbox>>,
         \A g \in Hosts : proc[g] \in FreshStates =>
           /\ g \in known' => g \in known
           /\ g \in Services /\ state'[g] \in Recorded => state[g] \in Recorded
           /\ ~(h = g /\ l \in ReadyPCs)
  PROVE  Fresh'
<1>1. Moves(t) /\ pc'[t] = l /\ target'[t] = h
  BY GoToMoves DEF IInv
<1>2. QED
  BY <1>1, FreshKept

LEMMA FreshCalls ==
  ASSUME IInv, MapsInv, PipesInv, Fresh, NEW t \in Threads, Begin(t) \/ Step(t)
  PROVE  Fresh'
<1>1. CASE StartRuntime(t) \/ StartLocked(t)
  <2>1. CASE \E r \in Runtimes : service[r] = Unborn /\ Spawn(t, r) /\ GoTo(t, "start_recv", r)
    <3>1. PICK r \in Runtimes : service[r] = Unborn /\ Spawn(t, r) /\ GoTo(t, "start_recv", r)
      BY <2>1
    <3>2. proc[r] = "none" /\ r \in Hosts /\ UNCHANGED <<known, state>>
      BY <1>1, <3>1 DEF StartRuntime, StartLocked, MapsInv, Born, Hosts, serviceVars
    <3>3. Moves(t) /\ target'[t] = r /\ pc'[t] = "start_recv"
      BY <3>1, GoToMoves DEF IInv
    <3>4. QED
      BY <3>1, <3>2, <3>3, FreshSpawn
  <2>2. CASE GoTo(t, "idle", None) /\ UNCHANGED <<proc, outbox, known, state>>
    BY <2>2, FreshQuiet DEF ReadyPCs
  <2>3. QED
    BY <1>1, <2>1, <2>2 DEF StartRuntime, StartLocked, Return, hostVars
<1>2. CASE PrepareService(t)
  <2>1. PICK s \in Services :
          /\ state[s] = Unborn /\ state' = [state EXCEPT ![s] = "preparing"]
          /\ Spawn(t, s) /\ GoTo(t, "prepare_recv", s)
    BY <1>2 DEF PrepareService
  <2>2. proc[s] = "none" /\ s \in Hosts /\ UNCHANGED known
    BY <1>2, <2>1 DEF PrepareService, MapsInv, Born, Hosts, handles
  <2>3. Moves(t) /\ target'[t] = s /\ pc'[t] = "prepare_recv"
    BY <2>1, GoToMoves DEF IInv
  <2>4. \A v \in Services : state'[v] \in Recorded => state[v] \in Recorded
    BY <2>1 DEF IInv, TypeOK, Recorded
  <2>5. QED
    BY <2>1, <2>2, <2>3, <2>4, FreshSpawn
<1>3. CASE \/ StartReceive(t) \/ InvokeReceive(t) \/ StopReceive(t)
           \/ PrepareReceive(t) \/ ReleaseReceive(t)
  <2>1. pc[t] \in Waiting /\ UNCHANGED <<known, state>>
    BY <1>3 DEF StartReceive, InvokeReceive, StopReceive, PrepareReceive, ReleaseReceive,
       handles, serviceVars
  <2>2. target[t] \in Hosts
    BY <2>1, TargetIsBorn DEF MapsInv
  <2>3. PICK op, result, l, h :
          /\ Receive(t, op, result) /\ GoTo(t, l, h)
          /\ h \in {target[t], None} /\ (l \in ReadyPCs => result = "ok")
    BY <1>3 DEF StartReceive, InvokeReceive, StopReceive, PrepareReceive, ReleaseReceive,
       Return, ReadyPCs
  <2>4. QED
    BY <2>1, <2>2, <2>3, FreshReceive DEF PipesInv
<1>4. CASE StartKill(t) \/ InvokeKill(t) \/ StopKill(t) \/ PrepareKill(t) \/ ReleaseKill(t)
  <2>1. PICK done \in BOOLEAN : Terminate(target[t], done)
    BY <1>4 DEF StartKill, InvokeKill, StopKill, PrepareKill, ReleaseKill
  <2>2. PICK l, h : GoTo(t, l, h) /\ l \notin ReadyPCs
    BY <1>4 DEF StartKill, InvokeKill, StopKill, PrepareKill, ReleaseKill, AfterStop, Return,
       ReadyPCs
  <2>3. UNCHANGED known
    BY <1>4 DEF StartKill, InvokeKill, StopKill, PrepareKill, ReleaseKill, handles
  <2>4. \A s \in Services : state'[s] \in Recorded => state[s] \in Recorded
    <3>1. CASE StartKill(t) \/ InvokeKill(t) \/ StopKill(t)
      BY <3>1 DEF StartKill, InvokeKill, StopKill, serviceVars
    <3>2. CASE PrepareKill(t)
      BY <3>2 DEF PrepareKill, IInv, TypeOK, Recorded
    <3>3. CASE ReleaseKill(t)
      BY <3>3 DEF ReleaseKill, IInv, TypeOK, Records, Recorded
    <3>4. QED
      BY <1>4, <3>1, <3>2, <3>3
  <2>5. QED
    BY <2>1, <2>2, <2>3, <2>4, FreshKill
<1>5. CASE StartTable(t) \/ StartPublish(t) \/ StartRegister(t) \/ PrepareInsert(t)
  <2>1. pc[t] \in ReadyPCs /\ target[t] \in Hosts
    BY <1>5, TargetIsBorn DEF StartTable, StartPublish, StartRegister, PrepareInsert, ReadyPCs, MapsInv
  <2>2. proc[target[t]] \notin FreshStates
    BY <2>1 DEF Fresh, FreshFor
  <2>3. UNCHANGED <<proc, outbox>> /\ known' \subseteq known \cup {target[t]}
    BY <1>5 DEF StartTable, StartPublish, StartRegister, PrepareInsert, hostVars, handles
  <2>4. \A s \in Services \ {target[t]} : state'[s] = state[s]
    BY <1>5 DEF StartTable, StartPublish, StartRegister, PrepareInsert, serviceVars, IInv, TypeOK
  <2>5. PICK l, h : GoTo(t, l, h) /\ (h = target[t] \/ l \notin ReadyPCs)
    BY <1>5 DEF StartTable, StartPublish, StartRegister, PrepareInsert, Return, ReadyPCs
  <2>6. QED
    BY <2>2, <2>3, <2>4, <2>5, FreshQuiet
<1>6. CASE \/ StartWithService(t) \/ InvokeRuntime(t) \/ StopRuntime(t) \/ ReleaseService(t)
           \/ InvokeEvict(t) \/ StopRemove(t) \/ StopServices(t) \/ StopRecord(t)
           \/ ReleaseRemove(t) \/ InvokeLocked(t) \/ StopLocked(t)
  <2>1. UNCHANGED <<proc, outbox, known, state>>
    BY <1>6 DEF StartWithService, InvokeRuntime, StopRuntime, ReleaseService, InvokeEvict,
       StopRemove, StopServices, StopRecord, ReleaseRemove, InvokeLocked, StopLocked, Send,
       Refused, hostVars, handles, serviceVars
  <2>2. PICK l, h : GoTo(t, l, h) /\ l \notin ReadyPCs
    BY <1>6 DEF StartWithService, InvokeRuntime, StopRuntime, ReleaseService, InvokeEvict,
       StopRemove, StopServices, StopRecord, ReleaseRemove, InvokeLocked, StopLocked, AfterStop,
       Return, ReadyPCs
  <2>3. QED
    BY <2>1, <2>2, FreshQuiet
<1>7. CASE ReleaseLocked(t)
  <2>1. UNCHANGED <<proc, outbox, known>>
    BY <1>7 DEF ReleaseLocked, Send, Refused, hostVars, handles
  <2>2. \A s \in Services : state'[s] \in Recorded => state[s] \in Recorded
    BY <1>7 DEF ReleaseLocked, IInv, TypeOK, Records, RecordPCs, Recorded
  <2>3. PICK l, h : GoTo(t, l, h) /\ l \notin ReadyPCs
    BY <1>7 DEF ReleaseLocked, Return, ReadyPCs
  <2>4. QED
    BY <2>1, <2>2, <2>3, FreshQuiet
<1>8. QED
  BY <1>1, <1>2, <1>3, <1>4, <1>5, <1>6, <1>7 DEF Begin, Step

LEMMA FreshStep ==
  ASSUME IInv, MapsInv, PipesInv, Fresh, [Next]_vars
  PROVE  Fresh'
<1>1. CASE UNCHANGED vars
  BY <1>1 DEF vars, hostVars, serviceVars, handles, callVars, Fresh, FreshFor
<1>2. QED
  BY <1>1, FreshCalls, FreshHosts DEF Next, Rest, PipesInv
\* Until the first kill fails, the pipes of every host are in order beside IInv
\* and MapsInv, and a host that has not accepted its start, or rejected it and
\* runs on, is known to that start alone.
THEOREM PipesInvariance ==
  Spec => [](IInv /\ MapsInv /\ (KillsSucceed => PipesInv /\ Fresh))
<1>1. Init => PipesInv /\ Fresh
  BY PipesInit, FreshInit
<1>2. IInv /\ MapsInv /\ PipesInv /\ Fresh /\ [Next]_vars /\ KillsSucceed'
        => PipesInv' /\ Fresh'
  BY PipesStep, FreshStep
<1>3. IInv /\ [Next]_vars /\ KillsSucceed' => KillsSucceed
  BY KillsSucceeded DEF IInv
<1>4. QED
  BY <1>1, <1>2, <1>3, MapsInvariance, PTL DEF Spec

\* Until a kill fails, a call is only ever given the answer to its own request,
\* for any number of threads and hosts: a late answer to a timed-out invocation
\* meets nobody.
THEOREM AnswersAreOwn == Spec => [](KillsSucceed => OwnAnswers)
<1>1. IInv /\ PipesInv => OwnAnswers
  <2> SUFFICES ASSUME IInv, PipesInv, NEW t \in Threads, pc[t] \in Waiting,
                      NEW i \in 1..Len(outbox[target[t]])
               PROVE  outbox[target[t]][i].by = t
    BY DEF OwnAnswers
  <2> DEFINE o == outbox[target[t]]
             n == inbox[target[t]]
  <2>1. target[t] \in Hosts
    BY DEF IInv, Targets, Starters, TypeOK
  <2>2. n \in Seq(Request) /\ o \in Seq(Reply)
    BY <2>1 DEF IInv, TypeOK
  <2>3. Len(n) + Len(o) <= 1 /\ (o # <<>> => Head(o).by = t)
    BY <2>1 DEF PipesInv, Pipes, PipeOf, Own
  <2> HIDE DEF o, n
  <2>4. Len(o) <= 1 /\ Len(o) \in Nat
    BY <2>2, <2>3, OneOfTwo
  <2>5. i = 1 /\ o # <<>>
    BY <2>2, <2>4 DEF o
  <2>6. Head(o) = o[1]
    BY <2>2, <2>4, <2>5, TailOfOne
  <2>7. QED
    BY <2>3, <2>5, <2>6 DEF o
<1>2. QED
  BY <1>1, PipesInvariance, PTL

\* Until a kill fails, no host process runs on that no map and no call knows of.
THEOREM NoHostIsLost == Spec => [](KillsSucceed => NoOrphanHost)
<1>1. PipesInv => NoOrphanHost
  BY DEF PipesInv
<1>2. QED
  BY <1>1, PipesInvariance, PTL
-------------------------------------------------------------------------------
(* The refinement of HostSession. *)

\* One host goes from one stage of the contract to the next.
Goes(h, from, to) ==
  /\ SessionStage(h) = from /\ SessionStage(h)' = to
  /\ \A g \in Hosts \ {h} : SessionStage(g)' = SessionStage(g)

Legal(from, to) ==
  \/ from = "none" /\ to = "starting"
  \/ from = "starting" /\ to \in {"ready", "rejected"}
  \/ from = "ready" /\ to \in {"busy", "stopping"}
  \/ from = "busy" /\ to = "ready"
  \/ from \in {"starting", "rejected", "ready", "busy", "stopping"} /\ to = "closed"

LEMMA GoesIsNext ==
  ASSUME NEW h \in Hosts, NEW from, NEW to, Goes(h, from, to), Legal(from, to)
  PROVE  Session!Next
<1> DEFINE S == [g \in Hosts |-> SessionStage(g)]
<1>1. S' = [S EXCEPT ![h] = to] /\ S[h] = from
  BY DEF Goes
<1>2. QED
  BY <1>1 DEF Legal, Session!Next, Session!Start, Session!Started, Session!Rejected, Session!Invoke,
     Session!Answer, Session!Stop, Session!Close, Session!Move, Session!Stages

\* SessionStage as a function of a host's process and its requests.
StageOf(p, requests) ==
  CASE p = "none" -> "none"
    [] p \in {"deaf", "gone"} -> "closed"
    [] p \in {"spawned", "rejected", "active", "failed"} /\ Len(requests) > 1 -> "overrun"
    [] p = "spawned" /\ Len(requests) = 1 -> "starting"
    [] p = "spawned" /\ requests = <<>> -> "overrun"
    [] p = "rejected" -> IF requests = <<>> THEN "rejected" ELSE "overrun"
    [] OTHER -> IF requests = <<>> THEN "ready"
                ELSE IF Head(requests).op = "invoke" THEN "busy" ELSE "stopping"

LEMMA StageIs ==
  ASSUME NEW h
  PROVE  /\ SessionStage(h) = StageOf(proc[h], inbox[h])
         /\ SessionStage(h)' = StageOf(proc'[h], inbox'[h])
  BY DEF SessionStage, StageOf, Writable

LEMMA StageEnds ==
  ASSUME NEW q
  PROVE  /\ StageOf("none", q) = "none"
         /\ StageOf("deaf", q) = "closed" /\ StageOf("gone", q) = "closed"
  BY DEF StageOf

LEMMA StageRuns ==
  ASSUME NEW q, ~(Len(q) > 1), NEW p \in {"active", "failed"}
  PROVE  /\ q # <<>> /\ Len(q) = 1 => StageOf("spawned", q) = "starting"
         /\ q = <<>> => StageOf(p, q) = "ready" /\ StageOf("rejected", q) = "rejected"
         /\ q # <<>> /\ Head(q).op = "invoke" => StageOf(p, q) = "busy"
         /\ q # <<>> /\ Head(q).op = "stop" => StageOf(p, q) = "stopping"
  BY DEF StageOf

\* The stage of a host that takes requests.
LEMMA StageNow ==
  ASSUME IInv, PipesInv, NEW h \in Hosts, Writable(h)
  PROVE  /\ SessionStage(h) \in {"starting", "rejected", "ready", "busy", "stopping"}
         /\ proc[h] = "spawned" => SessionStage(h) = "starting"
         /\ proc[h] \notin FreshStates /\ inbox[h] = <<>> => SessionStage(h) = "ready"
         /\ proc[h] # "spawned" /\ inbox[h] # <<>> /\ Head(inbox[h]).op = "invoke" =>
              SessionStage(h) = "busy"
<1>1. OneRequest(h) /\ inbox[h] \in Seq(Request)
  BY DEF PipesInv, Pipes, PipeOf, IInv, TypeOK
<1>2. /\ Len(inbox[h]) \in Nat /\ Len(inbox[h]) <= 1
      /\ inbox[h] # <<>> => Len(inbox[h]) = 1 /\ Head(inbox[h]).op \in Ops
  <2>1. Len(inbox[h]) \in Nat /\ Len(inbox[h]) <= 1
    BY <1>1 DEF OneRequest
  <2>2. inbox[h] # <<>> => Len(inbox[h]) = 1 /\ Head(inbox[h]) \in Request
    BY <1>1, <2>1, TailOfOne
  <2>3. QED
    BY <2>1, <2>2 DEF Request
<1>3. ~(Len(inbox[h]) > 1)
  BY <1>2
<1>4. CASE proc[h] = "spawned"
  <2>1. inbox[h] # <<>> /\ Len(inbox[h]) = 1
    BY <1>1, <1>2, <1>4 DEF OneRequest
  <2>2. StageOf("spawned", inbox[h]) = "starting"
    BY <1>3, <2>1, StageRuns
  <2>3. QED
    BY <1>4, <2>2, StageIs DEF FreshStates
<1>5. CASE proc[h] = "rejected"
  <2>1. inbox[h] = <<>>
    BY <1>1, <1>5 DEF OneRequest
  <2>2. "active" \in {"active", "failed"} /\ StageOf(proc[h], inbox[h]) = StageOf("rejected", inbox[h])
    BY <1>5
  <2>3. QED
    BY <1>3, <1>5, <2>1, <2>2, StageIs, StageRuns DEF FreshStates
<1>6. CASE proc[h] \notin FreshStates
  <2>1. proc[h] \in {"active", "failed"}
    BY <1>6 DEF Writable, FreshStates
  <2>2. inbox[h] # <<>> => Head(inbox[h]).op \in {"invoke", "stop"}
    BY <1>1, <1>2, <1>6 DEF OneRequest, Ops, FreshStates
  <2>3. SessionStage(h) = StageOf(proc[h], inbox[h])
    BY StageIs
  <2>4. QED
    BY <1>3, <1>6, <2>1, <2>2, <2>3, StageRuns DEF FreshStates
<1>7. QED
  BY <1>4, <1>5, <1>6 DEF FreshStates

LEMMA OthersStay ==
  ASSUME NEW h, \A g \in Hosts \ {h} : proc'[g] = proc[g] /\ inbox'[g] = inbox[g]
  PROVE  \A g \in Hosts \ {h} : SessionStage(g)' = SessionStage(g)
  BY StageIs

LEMMA SpawnGoes ==
  ASSUME IInv, NEW t \in Threads, NEW h \in Hosts, proc[h] = "none", Spawn(t, h)
  PROVE  Session!Next
<1> DEFINE m == [by |-> t, op |-> "start"]
<1>1. proc'[h] = "spawned" /\ inbox'[h] = <<m>>
  BY DEF Spawn, IInv, TypeOK
<1>2. m \in Request
  BY DEF Request, Ops
<1> HIDE DEF m
<1>3. inbox'[h] # <<>> /\ Len(inbox'[h]) = 1 /\ ~(Len(inbox'[h]) > 1)
  BY <1>1, <1>2, OnePut
<1>4. SessionStage(h)' = "starting" /\ SessionStage(h) = "none"
  <2>1. "active" \in {"active", "failed"}
    OBVIOUS
  <2>2. StageOf("spawned", inbox'[h]) = "starting"
    BY <1>3, <2>1, StageRuns
  <2>3. QED
    BY <1>1, <2>2, StageIs, StageEnds
<1>5. \A g \in Hosts \ {h} : proc'[g] = proc[g] /\ inbox'[g] = inbox[g]
  BY DEF Spawn, IInv, TypeOK
<1>6. Goes(h, "none", "starting")
  BY <1>4, <1>5, OthersStay DEF Goes
<1>7. QED
  BY <1>6, GoesIsNext DEF Legal

LEMMA SendGoes ==
  ASSUME IInv, PipesInv, NEW t \in Threads, NEW h \in Hosts, Free(h), proc[h] # "rejected",
         NEW op \in {"invoke", "stop"}, Send(t, h, op)
  PROVE  Session!Next
<1> DEFINE m == [by |-> t, op |-> op]
<1>1. Writable(h) /\ inbox[h] = <<>> /\ proc[h] \in {"active", "failed"}
  BY DEF Send, PipesInv, Pipes, PipeOf, OneRequest, Writable
<1>2. proc'[h] = proc[h] /\ inbox'[h] = Append(<<>>, m)
  BY <1>1 DEF Send, IInv, TypeOK
<1>3. m \in Request /\ m.op = op
  BY DEF Request, Ops
<1> HIDE DEF m
<1>4. inbox'[h] # <<>> /\ Head(inbox'[h]).op = op /\ ~(Len(inbox'[h]) > 1)
  BY <1>2, <1>3, OnePut
<1>5. SessionStage(h) = "ready"
  BY <1>1, StageNow DEF FreshStates
<1>6. SessionStage(h)' = IF op = "invoke" THEN "busy" ELSE "stopping"
  BY <1>1, <1>2, <1>4, StageIs, StageRuns
<1>7. \A g \in Hosts \ {h} : proc'[g] = proc[g] /\ inbox'[g] = inbox[g]
  BY DEF Send, IInv, TypeOK
<1>8. Goes(h, "ready", IF op = "invoke" THEN "busy" ELSE "stopping")
  BY <1>5, <1>6, <1>7, OthersStay DEF Goes
<1>9. Legal("ready", IF op = "invoke" THEN "busy" ELSE "stopping")
  BY DEF Legal
<1>10. QED
  BY <1>8, <1>9, GoesIsNext

\* A process that closes its pipes or is gone.
LEMMA CloseGoes ==
  ASSUME IInv, PipesInv, NEW h \in Hosts, proc[h] # "none", proc'[h] \in {"deaf", "gone"},
         \A g \in Hosts \ {h} : proc'[g] = proc[g] /\ inbox'[g] = inbox[g]
  PROVE  [Session!Next]_[g \in Hosts |-> SessionStage(g)]
<1>1. SessionStage(h)' = "closed"
  BY StageIs, StageEnds
<1>2. \A g \in Hosts \ {h} : SessionStage(g)' = SessionStage(g)
  BY OthersStay
<1>3. CASE Writable(h)
  <2>1. Goes(h, SessionStage(h), "closed") /\ Legal(SessionStage(h), "closed")
    BY <1>1, <1>2, <1>3, StageNow DEF Goes, Legal
  <2>2. QED
    BY <2>1, GoesIsNext
<1>4. CASE ~Writable(h)
  <2>1. proc[h] \in {"deaf", "gone"}
    BY <1>4 DEF Writable, IInv, TypeOK, ProcStates
  <2>2. SessionStage(h) = "closed"
    BY <2>1, StageIs, StageEnds
  <2>3. \A g \in Hosts : SessionStage(g)' = SessionStage(g)
    BY <1>1, <1>2, <2>2
  <2>4. QED
    BY <2>3
<1>5. QED
  BY <1>3, <1>4

LEMMA ServeGoes ==
  ASSUME IInv, PipesInv, NEW h \in Hosts, HostServes(h)
  PROVE  [Session!Next]_[g \in Hosts |-> SessionStage(g)]
<1> DEFINE req == Head(inbox[h])
<1>1. /\ Writable(h) /\ inbox[h] # <<>> /\ req \in Request
      /\ inbox' = [inbox EXCEPT ![h] = Tail(inbox[h])]
  BY ServesTo DEF IInv
<1>2. PICK kind, p : p \in Became(h, req.op, kind) /\ proc' = [proc EXCEPT ![h] = p]
  BY ServesTo DEF IInv
<1>3. OneRequest(h) /\ inbox[h] \in Seq(Request) /\ req.op \in Ops
  BY <1>1 DEF PipesInv, Pipes, PipeOf, IInv, TypeOK, Request
<1>4. Tail(inbox[h]) = <<>>
  BY <1>1, <1>3, TailOfOne DEF OneRequest
<1>5. proc'[h] = p /\ inbox'[h] = <<>>
  BY <1>1, <1>2, <1>4 DEF IInv, TypeOK
<1>6. \A g \in Hosts \ {h} : proc'[g] = proc[g] /\ inbox'[g] = inbox[g]
  BY <1>1, <1>2 DEF IInv, TypeOK
<1>7. CASE p = "gone"
  BY <1>1, <1>5, <1>6, <1>7, CloseGoes DEF Writable
<1>8. CASE p = "rejected"
  <2>1. req.op = "start" /\ proc[h] = "spawned"
    BY <1>1, <1>2, <1>3, <1>8 DEF Became, Ops, OneRequest, Writable
  <2>2. SessionStage(h) = "starting"
    BY <1>1, <2>1, StageNow
  <2>3. SessionStage(h)' = "rejected"
    <3>1. "active" \in {"active", "failed"} /\ ~(Len(inbox'[h]) > 1)
      BY <1>5
    <3>2. StageOf("rejected", inbox'[h]) = "rejected"
      BY <1>5, <3>1, StageRuns
    <3>3. QED
      BY <1>5, <1>8, <3>2, StageIs
  <2>4. Goes(h, "starting", "rejected") /\ Legal("starting", "rejected")
    BY <1>6, <2>2, <2>3, OthersStay DEF Goes, Legal
  <2>5. QED
    BY <2>4, GoesIsNext
<1>9. CASE p \notin {"gone", "rejected"}
  <2>1. p \in {"active", "failed"} /\ req.op # "stop"
    BY <1>1, <1>2, <1>3, <1>9 DEF Became, Ops, OneRequest, Writable
  <2>2. ~(Len(inbox'[h]) > 1)
    BY <1>5
  <2>3. SessionStage(h)' = "ready"
    BY <1>5, <2>1, <2>2, StageIs, StageRuns
  <2>4. SessionStage(h) \in {"starting", "busy"}
    BY <1>1, <1>3, <2>1, StageNow DEF Ops, OneRequest
  <2>5. Goes(h, SessionStage(h), "ready") /\ Legal(SessionStage(h), "ready")
    BY <1>6, <2>3, <2>4, OthersStay DEF Goes, Legal
  <2>6. QED
    BY <2>5, GoesIsNext
<1>10. QED
  BY <1>7, <1>8, <1>9

\* What a step of a call does to the processes and the requests.
LEMMA CallKinds ==
  ASSUME KillsSucceed', IInv, MapsInv, PipesInv, Fresh, NEW t \in Threads, Begin(t) \/ Step(t)
  PROVE  \/ UNCHANGED <<proc, inbox>>
         \/ \E h \in Hosts : proc[h] = "none" /\ Spawn(t, h)
         \/ \E h \in Hosts, op \in {"invoke", "stop"} :
              Free(h) /\ proc[h] # "rejected" /\ Send(t, h, op)
         \/ \E h \in Hosts : proc[h] # "none" /\ Terminate(h, TRUE)
<1>1. CASE StartRuntime(t) \/ StartLocked(t) \/ PrepareService(t)
  BY <1>1 DEF StartRuntime, StartLocked, PrepareService, MapsInv, Born, hostVars
<1>2. CASE InvokeLocked(t) \/ StopLocked(t)
  <2>1. /\ target[t] \in known /\ target[t] \in Hosts /\ hostLock[target[t]] = None
        /\ \/ UNCHANGED hostVars
           \/ Send(t, target[t], "invoke") \/ Send(t, target[t], "stop")
    BY <1>2 DEF InvokeLocked, StopLocked, Refused, IInv, Targets, TypeOK
  <2>2. Free(target[t]) /\ proc[target[t]] # "rejected"
    BY <2>1, FreeRuntime DEF PipesInv, Fresh, FreshFor, FreshStates
  <2>3. QED
    BY <2>1, <2>2 DEF hostVars
<1>3. CASE ReleaseLocked(t)
  <2>1. /\ target[t] \in Services /\ recordLock[target[t]] = None /\ state[target[t]] \in Recorded
        /\ UNCHANGED hostVars \/ Send(t, target[t], "stop")
    BY <1>3 DEF ReleaseLocked, Refused, IInv, Targets, Records
  <2>2. Free(target[t]) /\ proc[target[t]] # "rejected"
    BY <2>1, FreeService DEF Fresh, FreshFor, FreshStates, Hosts
  <2>3. QED
    BY <2>1, <2>2 DEF hostVars
<1>4. CASE \/ StartReceive(t) \/ InvokeReceive(t) \/ StopReceive(t)
           \/ PrepareReceive(t) \/ ReleaseReceive(t)
  BY <1>4 DEF StartReceive, InvokeReceive, StopReceive, PrepareReceive, ReleaseReceive, Receive
<1>5. CASE \/ StartKill(t) \/ InvokeKill(t) \/ StopKill(t) \/ PrepareKill(t) \/ ReleaseKill(t)
  <2>1. PICK done \in BOOLEAN : Terminate(target[t], done)
    BY <1>5 DEF StartKill, InvokeKill, StopKill, PrepareKill, ReleaseKill
  <2>2. pc[t] \in Killing
    BY <1>5 DEF StartKill, InvokeKill, StopKill, PrepareKill, ReleaseKill
  <2>3. target[t] \in Hosts /\ proc[target[t]] # "none" /\ Terminate(target[t], TRUE)
    BY <2>1, <2>2, TargetIsBorn, KillEnds DEF MapsInv, IInv
  <2>4. QED
    BY <2>3
<1>6. CASE \/ StartWithService(t) \/ InvokeRuntime(t) \/ StopRuntime(t) \/ ReleaseService(t)
           \/ StartTable(t) \/ StartPublish(t) \/ StartRegister(t) \/ InvokeEvict(t)
           \/ StopRemove(t) \/ StopServices(t) \/ StopRecord(t)
           \/ PrepareInsert(t) \/ ReleaseRemove(t)
  BY <1>6 DEF StartWithService, InvokeRuntime, StopRuntime, ReleaseService, StartTable,
     StartPublish, StartRegister, InvokeEvict, StopRemove, StopServices, StopRecord,
     PrepareInsert, ReleaseRemove, hostVars
<1>7. QED
  BY <1>1, <1>2, <1>3, <1>4, <1>5, <1>6 DEF Begin, Step

LEMMA SameStages ==
  ASSUME UNCHANGED <<proc, inbox>>
  PROVE  UNCHANGED [g \in Hosts |-> SessionStage(g)]
  BY StageIs

LEMMA SessionStep ==
  ASSUME KillsSucceed', IInv, MapsInv, PipesInv, Fresh, [Next]_vars
  PROVE  [Session!Next]_[g \in Hosts |-> SessionStage(g)]
<1>1. ASSUME NEW t \in Threads, Begin(t) \/ Step(t)
      PROVE  [Session!Next]_[g \in Hosts |-> SessionStage(g)]
  <2>1. CASE UNCHANGED <<proc, inbox>>
    BY <2>1, SameStages
  <2>2. CASE \E h \in Hosts : proc[h] = "none" /\ Spawn(t, h)
    BY <2>2, SpawnGoes
  <2>3. CASE \E h \in Hosts, op \in {"invoke", "stop"} :
                Free(h) /\ proc[h] # "rejected" /\ Send(t, h, op)
    BY <2>3, SendGoes
  <2>4. CASE \E h \in Hosts : proc[h] # "none" /\ Terminate(h, TRUE)
    <3>1. PICK h \in Hosts : proc[h] # "none" /\ Terminate(h, TRUE)
      BY <2>4
    <3>2. /\ proc'[h] = "gone"
          /\ \A g \in Hosts \ {h} : proc'[g] = proc[g] /\ inbox'[g] = inbox[g]
      BY <3>1 DEF Terminate, IInv, TypeOK
    <3>3. QED
      BY <3>1, <3>2, CloseGoes
  <2>5. QED
    BY <1>1, <2>1, <2>2, <2>3, <2>4, CallKinds
<1>2. ASSUME NEW h \in Hosts, HostFails(h)
      PROVE  [Session!Next]_[g \in Hosts |-> SessionStage(g)]
  <2>1. /\ proc'[h] \in {"deaf", "gone"} /\ proc[h] # "none"
        /\ \A g \in Hosts \ {h} : proc'[g] = proc[g] /\ inbox'[g] = inbox[g]
    BY <1>2 DEF HostFails, Writable, IInv, TypeOK
  <2>2. QED
    BY <2>1, CloseGoes
<1>3. CASE Rest \/ UNCHANGED vars
  BY <1>3, SameStages DEF Rest, vars, hostVars
<1>4. QED
  BY <1>1, <1>2, <1>3, ServeGoes DEF Next

\* LocalHosts implements HostSession in the behaviours in which no kill fails:
\* every host process gets one start, nothing more if it rejects that start and
\* runs on, otherwise one request at a time, and nothing after its stop, for any
\* number of threads, runtimes and services.
THEOREM SessionsInOrder == Spec /\ []KillsSucceed => SessionOrder
<1>1. Init => Session!Init
  BY StageIs, StageEnds DEF Init, Session!Init
<1>2. IInv /\ MapsInv /\ PipesInv /\ Fresh /\ [Next]_vars /\ KillsSucceed' =>
        [Session!Next]_[h \in Hosts |-> SessionStage(h)]
  BY SessionStep
<1> HIDE DEF Moves, StartPCs, StopPCs, LeavePCs, PreparePCs, HeldReleasePCs, RecordPCs,
             ServicePCs, KnownPCs, Hosts, Waiting, Killing, HeldPCs
<1>3. QED
  BY <1>1, <1>2, PipesInvariance, PTL DEF Spec, SessionOrder, Session!Spec
===============================================================================
