------------------------------ MODULE LocalHosts ------------------------------
(****************************************************************************)
(* The local runtime registry of fabric-core (crates/fabric-core/src/       *)
(* runtime.rs): caller threads start, invoke and stop runtimes, prepare and *)
(* release services, each behind an adapter host process that is spoken to  *)
(* over its pipes, one request and one answer at a time, with a timeout.    *)
(*                                                                          *)
(* Shared state: the LOCAL_HOSTS, LOCAL_HOST_PROCESSES and LOCAL_SERVICES   *)
(* maps, the mutex of every host and of every service record.  A map lock   *)
(* held for one statement makes that statement one step; LOCAL_SERVICES is  *)
(* also held across a wait (stop_runtime), so it has an explicit lock.      *)
(****************************************************************************)
EXTENDS Naturals, Sequences, FiniteSets

CONSTANTS
  Threads,      \* callers of the public functions
  Runtimes,     \* runtime ids new_id can still hand out
  Services,     \* service ids new_id can still hand out
  None,         \* "no thread", "no service", "no target"
  MaxKillFailures \* bound on the kills that may fail in terminate_local_host

\* The service of a runtime id that was not handed out yet, and the state of
\* such a service.
Unborn == "unborn"

ASSUME IdsAreDistinct ==
  /\ Runtimes \cap Services = {}
  /\ None \notin Threads \cup Runtimes \cup Services
  /\ Unborn \notin Services \cup {None}
  /\ MaxKillFailures \in Nat

VARIABLES
  proc,         \* proc[h]: the adapter host process of runtime or service h
  inbox,        \* inbox[h]: requests written to its stdin, not yet read
  outbox,       \* outbox[h]: answer lines read from its stdout, not received
  killFailures, \* how many kills have failed
  hosts,        \* keys of LOCAL_HOSTS
  processes,    \* keys of LOCAL_HOST_PROCESSES
  hostLock,     \* hostLock[r]: holder of the Mutex<LocalAdapterHost>
  services,     \* keys of LOCAL_SERVICES
  servicesLock, \* holder of the LOCAL_SERVICES mutex across a wait
  recordLock,   \* recordLock[s]: holder of the Mutex<LocalServiceRecord>
  state,        \* state[s]: LocalServiceState, or what precedes the record
  users,        \* users[s]: active_runtime_ids
  service,      \* service[r]: service_id of runtime r; Unborn if r is unused
  known,        \* runtimes whose handle a start has returned
  pc,           \* pc[t]: what call thread t is in, and where
  target,       \* target[t]: the runtime or service the call is about
  answer        \* answer[t]: how the stop exchange of the call ended

hostVars    == <<proc, inbox, outbox, killFailures>>
registry    == <<hosts, processes, hostLock>>
serviceVars == <<services, servicesLock, recordLock, state, users>>
handles     == <<service, known>>
callVars    == <<pc, target, answer>>
vars == <<hostVars, registry, serviceVars, handles, callVars>>

Hosts  == Runtimes \cup Services
Ops    == {"start", "invoke", "stop"}
Kinds  == {"ok", "error"}
Results == {"ok", "error", "crashed", "timeout"}
ProcStates == {"none", "spawned", "rejected", "active", "failed", "deaf", "gone"}
Recorded == {"Active", "Releasing", "ReleaseFailed", "Released"}

Request == [by : Threads, op : Ops]
Reply   == [by : Threads, op : Ops, kind : Kinds]

\* Where a call waits for the answer to the request it sent.
Waiting == {"start_recv", "invoke_recv", "stop_recv", "prepare_recv",
            "release_recv"}
\* Where a call is about to end the process it talks to.
Killing == {"start_kill", "invoke_evict", "invoke_kill", "stop_kill",
            "prepare_kill", "release_kill"}
PCs == {"idle", "start_record", "start_table", "start_publish",
        "start_register", "invoke_lock", "stop_remove", "stop_lock",
        "stop_services", "stop_record", "prepare_insert", "release_record",
        "release_remove"} \cup Waiting \cup Killing

TypeOK ==
  /\ proc \in [Hosts -> ProcStates]
  /\ inbox \in [Hosts -> Seq(Request)]
  /\ outbox \in [Hosts -> Seq(Reply)]
  /\ killFailures \in 0..MaxKillFailures
  /\ hosts \subseteq Runtimes
  /\ processes \subseteq Runtimes
  /\ hostLock \in [Runtimes -> Threads \cup {None}]
  /\ services \subseteq Services
  /\ servicesLock \in Threads \cup {None}
  /\ recordLock \in [Services -> Threads \cup {None}]
  /\ state \in [Services -> Recorded \cup {Unborn, "preparing", "abandoned"}]
  /\ users \in [Services -> SUBSET Runtimes]
  /\ service \in [Runtimes -> Services \cup {None, Unborn}]
  /\ known \subseteq Runtimes
  /\ pc \in [Threads -> PCs]
  /\ target \in [Threads -> Hosts \cup {None}]
  /\ answer \in [Threads -> {"none", "clean", "failed"}]

Init ==
  /\ proc = [h \in Hosts |-> "none"]
  /\ inbox = [h \in Hosts |-> <<>>]
  /\ outbox = [h \in Hosts |-> <<>>]
  /\ killFailures = 0
  /\ hosts = {}
  /\ processes = {}
  /\ hostLock = [r \in Runtimes |-> None]
  /\ services = {}
  /\ servicesLock = None
  /\ recordLock = [s \in Services |-> None]
  /\ state = [s \in Services |-> Unborn]
  /\ users = [s \in Services |-> {}]
  /\ service = [r \in Runtimes |-> Unborn]
  /\ known = {}
  /\ pc = [t \in Threads |-> "idle"]
  /\ target = [t \in Threads |-> None]
  /\ answer = [t \in Threads |-> "none"]
-------------------------------------------------------------------------------
(* Calls and exchanges *)

\* Thread t goes on to label l of the call about h.
GoTo(t, l, h) ==
  /\ pc' = [pc EXCEPT ![t] = l]
  /\ target' = [target EXCEPT ![t] = h]

\* The call returns to its caller.
Return(t) ==
  /\ GoTo(t, "idle", None)
  /\ answer' = [answer EXCEPT ![t] = "none"]

\* spawn_local_host, and the start request written to the new process.
Spawn(t, h) ==
  /\ proc' = [proc EXCEPT ![h] = "spawned"]
  /\ inbox' = [inbox EXCEPT ![h] = <<[by |-> t, op |-> "start"]>>]
  /\ UNCHANGED <<outbox, killFailures>>

\* The write half of exchange_lifecycle_message: a process that exited or
\* closed its pipe refuses the request (host_crashed).
Writable(h) == proc[h] \in {"spawned", "rejected", "active", "failed"}

Send(t, h, op) ==
  /\ Writable(h)
  /\ inbox' = [inbox EXCEPT ![h] = Append(@, [by |-> t, op |-> op])]
  /\ UNCHANGED <<proc, outbox, killFailures>>

Refused(h) == ~Writable(h) /\ UNCHANGED hostVars

\* An answer is only compared with the request by its operation.
Verdict(reply, op) == IF reply.op = op THEN reply.kind ELSE "error"

\* The read half: the next line, the end of the stream, or the timeout.
Receive(t, op, result) ==
  LET h == target[t] IN
  /\ \/ /\ outbox[h] # <<>>
        /\ result = Verdict(Head(outbox[h]), op)
        /\ outbox' = [outbox EXCEPT ![h] = Tail(@)]
     \/ /\ outbox[h] = <<>>
        /\ \/ proc[h] \in {"deaf", "gone"} /\ result = "crashed"
           \/ result = "timeout"
        /\ UNCHANGED outbox
  /\ UNCHANGED <<proc, inbox, killFailures>>

\* Slip: the outcome of the exchange is kept as it came.
Ending_Raw(result) == result

\* A crash is no failure of a stop.
Ending(result) == IF result \in {"ok", "crashed"} THEN "clean" ELSE "failed"

\* terminate_local_host: waits for the exit, then kills.  Only the kill can
\* fail, and it leaves the process as it was.  The lines of a process that is
\* gone are not read any more: an exchange looks at the process first.
Terminate(h, done) ==
  /\ done \in BOOLEAN
  /\ IF done
       THEN /\ proc' = [proc EXCEPT ![h] = "gone"]
            /\ inbox' = [inbox EXCEPT ![h] = <<>>]
            /\ outbox' = [outbox EXCEPT ![h] = <<>>]
            /\ UNCHANGED killFailures
       ELSE /\ killFailures < MaxKillFailures /\ proc[h] # "gone"
            /\ killFailures' = killFailures + 1
            /\ UNCHANGED <<proc, inbox, outbox>>
-------------------------------------------------------------------------------
(* start_runtime_in and start_runtime_with_service *)

\* A runtime without a service: a fresh id, a new process, a start request.
StartRuntime(t) ==
  /\ pc[t] = "idle"
  /\ \E r \in Runtimes :
       /\ service[r] = Unborn
       /\ service' = [service EXCEPT ![r] = None]
       /\ Spawn(t, r)
       /\ GoTo(t, "start_recv", r)
  /\ UNCHANGED <<registry, serviceVars, known, answer>>

\* The record is looked up and LOCAL_SERVICES is let go at once.
StartWithService(t) ==
  /\ pc[t] = "idle"
  /\ servicesLock = None
  /\ \E s \in services : GoTo(t, "start_record", s)
  /\ UNCHANGED <<hostVars, registry, serviceVars, handles, answer>>

\* Slip: only a released service refuses new runtimes.
Startable_Unreleased(s) == state[s] # "Released"

\* A runtime can be started on the service of an active record only.
Startable(s) == state[s] = "Active"

\* The record is locked and its state checked again; the lock is held until
\* the runtime is registered.  Handle or environment errors return early.
StartLocked(t) ==
  LET s == target[t] IN
  /\ pc[t] = "start_record"
  /\ recordLock[s] = None
  /\ \/ /\ Startable(s)
        /\ \E r \in Runtimes :
             /\ service[r] = Unborn
             /\ service' = [service EXCEPT ![r] = s]
             /\ Spawn(t, r)
             /\ GoTo(t, "start_recv", r)
        /\ recordLock' = [recordLock EXCEPT ![s] = t]
        /\ UNCHANGED answer
     \/ /\ Return(t)
        /\ UNCHANGED <<hostVars, service, recordLock>>
  /\ UNCHANGED <<registry, services, servicesLock, state, users, known>>

StartReceive(t) ==
  /\ pc[t] = "start_recv"
  /\ \E result \in Results :
       /\ Receive(t, "start", result)
       /\ GoTo(t, IF result = "ok" THEN "start_table" ELSE "start_kill",
               target[t])
  /\ UNCHANGED <<registry, serviceVars, handles, answer>>

\* Leaving a start drops the service record's guard, if there is one.
UnlockRecord(r) ==
  recordLock' = [s \in Services |->
                   IF s = service[r] THEN None ELSE recordLock[s]]

\* A failed start ends its process; the outcome of that is ignored.
StartKill(t) ==
  LET r == target[t] IN
  /\ pc[t] = "start_kill"
  /\ \E done \in BOOLEAN : Terminate(r, done)
  /\ UnlockRecord(r)
  /\ Return(t)
  /\ UNCHANGED <<registry, services, servicesLock, state, users, handles>>

StartTable(t) ==
  /\ pc[t] = "start_table"
  /\ processes' = processes \cup {target[t]}
  /\ GoTo(t, "start_publish", target[t])
  /\ UNCHANGED <<hostVars, hosts, hostLock, serviceVars, handles, answer>>

StartPublish(t) ==
  /\ pc[t] = "start_publish"
  /\ hosts' = hosts \cup {target[t]}
  /\ GoTo(t, "start_register", target[t])
  /\ UNCHANGED <<hostVars, processes, hostLock, serviceVars, handles, answer>>

\* With a service, the evidence of the host is read under its mutex while the
\* record is locked.  The id joins the service's users and the handle is
\* returned.
StartRegister(t) ==
  LET r == target[t] IN
  /\ pc[t] = "start_register"
  /\ service[r] # None => hostLock[r] = None
  /\ users' = [s \in Services |->
                 IF s = service[r] THEN users[s] \cup {r} ELSE users[s]]
  /\ UnlockRecord(r)
  /\ known' = known \cup {r}
  /\ Return(t)
  /\ UNCHANGED <<hostVars, registry, services, servicesLock, state, service>>
-------------------------------------------------------------------------------
(* invoke_runtime *)

\* The host is cloned out of LOCAL_HOSTS, or the call fails (host_unavailable).
InvokeRuntime(t) ==
  /\ pc[t] = "idle"
  /\ \E r \in known \cap hosts : GoTo(t, "invoke_lock", r)
  /\ UNCHANGED <<hostVars, registry, serviceVars, handles, answer>>

\* With the host locked: the request is sent and the lock kept, or the call
\* fails (the process refuses it, or it could not be prepared or written).
InvokeLocked(t) ==
  LET r == target[t] IN
  /\ pc[t] = "invoke_lock"
  /\ hostLock[r] = None
  /\ \/ /\ Send(t, r, "invoke")
        /\ hostLock' = [hostLock EXCEPT ![r] = t]
        /\ GoTo(t, "invoke_recv", r)
        /\ UNCHANGED answer
     \/ Return(t) /\ UNCHANGED <<hostVars, hostLock>>
  /\ UNCHANGED <<hosts, processes, serviceVars, handles>>

\* Only a timeout condemns the host; every other end unlocks it.
InvokeReceive(t) ==
  LET r == target[t] IN
  /\ pc[t] = "invoke_recv"
  /\ \E result \in Results :
       /\ Receive(t, "invoke", result)
       /\ IF result = "timeout"
            THEN /\ GoTo(t, "invoke_evict", r)
                 /\ UNCHANGED <<hostLock, answer>>
            ELSE /\ Return(t)
                 /\ hostLock' = [hostLock EXCEPT ![r] = None]
  /\ UNCHANGED <<hosts, processes, serviceVars, handles>>

\* Slip: the timed-out host is only taken out of the map.
InvokeEvict_NoKill(t) ==
  /\ pc[t] = "invoke_evict"
  /\ hosts' = hosts \ {target[t]}
  /\ processes' = processes \ {target[t]}
  /\ hostLock' = [hostLock EXCEPT ![target[t]] = None]
  /\ Return(t)
  /\ UNCHANGED <<hostVars, serviceVars, handles>>

\* invalidate_timed_out_local_host: the entry goes if it is still this host's
\* (ids are never reused, so an entry that is there is this host's).
InvokeEvict(t) ==
  LET r == target[t] IN
  /\ pc[t] = "invoke_evict"
  /\ hosts' = hosts \ {r}
  /\ processes' = IF r \in hosts THEN processes \ {r} ELSE processes
  /\ GoTo(t, "invoke_kill", r)
  /\ UNCHANGED <<hostVars, hostLock, serviceVars, handles, answer>>

\* Slip: the host is let go, not ended: queued invocations reuse it.
InvokeKill_Spared(t) ==
  /\ pc[t] = "invoke_kill"
  /\ hostLock' = [hostLock EXCEPT ![target[t]] = None]
  /\ Return(t)
  /\ UNCHANGED <<hostVars, hosts, processes, serviceVars, handles>>

\* The process is ended, whatever comes of it, before the host is unlocked.
InvokeKill(t) ==
  LET r == target[t] IN
  /\ pc[t] = "invoke_kill"
  /\ \E done \in BOOLEAN : Terminate(r, done)
  /\ hostLock' = [hostLock EXCEPT ![r] = None]
  /\ Return(t)
  /\ UNCHANGED <<hosts, processes, serviceVars, handles>>
-------------------------------------------------------------------------------
(* stop_runtime *)

\* Slip: the process id stays in LOCAL_HOST_PROCESSES.
StopRuntime_KeepsPid(t) ==
  /\ pc[t] = "idle"
  /\ \E r \in known : GoTo(t, "stop_remove", r)
  /\ UNCHANGED <<hostVars, registry, serviceVars, handles, answer>>

StopRuntime(t) ==
  /\ pc[t] = "idle"
  /\ \E r \in known :
       /\ processes' = processes \ {r}
       /\ GoTo(t, "stop_remove", r)
  /\ UNCHANGED <<hostVars, hosts, hostLock, serviceVars, handles, answer>>

\* After LocalHostAdapter.stop succeeded: the service, if any, is told.
AfterStop(t, r) ==
  IF service[r] = None
    THEN Return(t)
    ELSE GoTo(t, "stop_services", r) /\ answer' = [answer EXCEPT ![t] = "none"]

\* The entry is taken out of LOCAL_HOSTS; without one the stop has succeeded.
StopRemove(t) ==
  LET r == target[t] IN
  /\ pc[t] = "stop_remove"
  /\ hosts' = hosts \ {r}
  /\ IF r \in hosts
       THEN GoTo(t, "stop_lock", r) /\ UNCHANGED answer
       ELSE AfterStop(t, r)
  /\ UNCHANGED <<hostVars, processes, hostLock, serviceVars, handles>>

\* Slip: the stop is sent without waiting for the host's mutex.
StopLocked_Unlocked(t) ==
  LET r == target[t] IN
  /\ pc[t] = "stop_lock"
  /\ \/ Send(t, r, "stop") /\ GoTo(t, "stop_recv", r)
     \/ Refused(r) /\ GoTo(t, "stop_kill", r)
  /\ UNCHANGED <<registry, serviceVars, handles, answer>>

\* The stop waits for the invocation in progress and for those queued before.
StopLocked(t) ==
  LET r == target[t] IN
  /\ pc[t] = "stop_lock"
  /\ hostLock[r] = None
  /\ hostLock' = [hostLock EXCEPT ![r] = t]
  /\ \/ /\ Send(t, r, "stop")
        /\ GoTo(t, "stop_recv", r)
        /\ UNCHANGED answer
     \/ /\ Refused(r)
        /\ GoTo(t, "stop_kill", r)
        /\ answer' = [answer EXCEPT ![t] = "clean"]
  /\ UNCHANGED <<hosts, processes, serviceVars, handles>>

StopReceive(t) ==
  /\ pc[t] = "stop_recv"
  /\ \E result \in Results :
       /\ Receive(t, "stop", result)
       /\ answer' = [answer EXCEPT ![t] = Ending(result)]
  /\ GoTo(t, "stop_kill", target[t])
  /\ UNCHANGED <<registry, serviceVars, handles>>

\* The process is ended whatever it answered.  The stop fails if the exchange
\* failed (a crash is no failure), the kill failed or the files stayed.
StopKill(t) ==
  LET r == target[t] IN
  /\ pc[t] = "stop_kill"
  /\ \E done, removed \in BOOLEAN :
       /\ Terminate(r, done)
       /\ IF answer[t] = "clean" /\ done /\ removed
            THEN AfterStop(t, r)
            ELSE Return(t)
  /\ hostLock' = [hostLock EXCEPT ![r] = None]
  /\ UNCHANGED <<hosts, processes, serviceVars, handles>>

\* The guard on LOCAL_SERVICES outlives the lookup: it is held while the
\* thread waits for the record.
StopServices(t) ==
  LET r == target[t] IN
  /\ pc[t] = "stop_services"
  /\ servicesLock = None
  /\ IF service[r] \in services
       THEN /\ servicesLock' = t
            /\ GoTo(t, "stop_record", r)
            /\ UNCHANGED answer
       ELSE Return(t) /\ UNCHANGED servicesLock
  /\ UNCHANGED <<hostVars, registry, services, recordLock, state, users,
                 handles>>

StopRecord(t) ==
  LET r == target[t]
      s == service[r] IN
  /\ pc[t] = "stop_record"
  /\ recordLock[s] = None
  /\ users' = [users EXCEPT ![s] = @ \ {r}]
  /\ servicesLock' = None
  /\ Return(t)
  /\ UNCHANGED <<hostVars, registry, services, recordLock, state, handles>>
-------------------------------------------------------------------------------
(* prepare_service, attach_service and release_service *)

PrepareService(t) ==
  /\ pc[t] = "idle"
  /\ \E s \in Services :
       /\ state[s] = Unborn
       /\ state' = [state EXCEPT ![s] = "preparing"]
       /\ Spawn(t, s)
       /\ GoTo(t, "prepare_recv", s)
  /\ UNCHANGED <<registry, services, servicesLock, recordLock, users, handles,
                 answer>>

\* An answer whose output is no service information is an error too.
PrepareReceive(t) ==
  /\ pc[t] = "prepare_recv"
  /\ \E result \in Results :
       /\ Receive(t, "start", result)
       /\ \/ result = "ok" /\ GoTo(t, "prepare_insert", target[t])
          \/ GoTo(t, "prepare_kill", target[t])
  /\ UNCHANGED <<registry, serviceVars, handles, answer>>

PrepareKill(t) ==
  LET s == target[t] IN
  /\ pc[t] = "prepare_kill"
  /\ \E done \in BOOLEAN : Terminate(s, done)
  /\ state' = [state EXCEPT ![s] = "abandoned"]
  /\ Return(t)
  /\ UNCHANGED <<registry, services, servicesLock, recordLock, users, handles>>

PrepareInsert(t) ==
  LET s == target[t] IN
  /\ pc[t] = "prepare_insert"
  /\ servicesLock = None
  /\ services' = services \cup {s}
  /\ state' = [state EXCEPT ![s] = "Active"]
  /\ Return(t)
  /\ UNCHANGED <<hostVars, registry, servicesLock, recordLock, users, handles>>

\* The record is looked up; without one the service is already released.
ReleaseService(t) ==
  /\ pc[t] = "idle"
  /\ servicesLock = None
  /\ \E s \in services : GoTo(t, "release_record", s)
  /\ UNCHANGED <<hostVars, registry, serviceVars, handles, answer>>

\* Already released or still in use: the call returns.  Otherwise the record
\* stays locked while its host is stopped.
ReleaseLocked(t) ==
  LET s == target[t] IN
  /\ pc[t] = "release_record"
  /\ recordLock[s] = None
  /\ IF state[s] = "Released" \/ users[s] # {}
       THEN Return(t) /\ UNCHANGED <<hostVars, state, recordLock>>
       ELSE /\ state' = [state EXCEPT ![s] = "Releasing"]
            /\ recordLock' = [recordLock EXCEPT ![s] = t]
            /\ \/ /\ Send(t, s, "stop")
                  /\ GoTo(t, "release_recv", s)
                  /\ UNCHANGED answer
               \/ /\ Refused(s)
                  /\ GoTo(t, "release_kill", s)
                  /\ answer' = [answer EXCEPT ![t] = "clean"]
  /\ UNCHANGED <<registry, services, servicesLock, users, handles>>

ReleaseReceive(t) ==
  /\ pc[t] = "release_recv"
  /\ \E result \in Results :
       /\ Receive(t, "stop", result)
       /\ answer' = [answer EXCEPT ![t] = Ending(result)]
  /\ GoTo(t, "release_kill", target[t])
  /\ UNCHANGED <<registry, serviceVars, handles>>

\* Slip: a failed release drops the record as well.
ReleaseKill_Forgets(t) ==
  LET s == target[t] IN
  /\ pc[t] = "release_kill"
  /\ \E done \in BOOLEAN : Terminate(s, done)
  /\ state' = [state EXCEPT ![s] =
                 IF answer[t] = "clean" THEN "Released" ELSE "ReleaseFailed"]
  /\ GoTo(t, "release_remove", s)
  /\ recordLock' = [recordLock EXCEPT ![s] = None]
  /\ UNCHANGED <<registry, services, servicesLock, users, handles, answer>>

\* Slip: the record is not unlocked before LOCAL_SERVICES is taken.
ReleaseKill_KeepsLock(t) ==
  LET s == target[t] IN
  /\ pc[t] = "release_kill"
  /\ Terminate(s, TRUE)
  /\ state' = [state EXCEPT ![s] = "Released"]
  /\ GoTo(t, "release_remove", s)
  /\ UNCHANGED <<registry, services, servicesLock, recordLock, users, handles,
                 answer>>

\* A failed release keeps the record for a retry; a release that succeeded
\* unlocks the record before it takes LOCAL_SERVICES again.
ReleaseKill(t) ==
  LET s == target[t] IN
  /\ pc[t] = "release_kill"
  /\ \E done, removed \in BOOLEAN :
       /\ Terminate(s, done)
       /\ IF answer[t] = "clean" /\ done /\ removed
            THEN /\ state' = [state EXCEPT ![s] = "Released"]
                 /\ GoTo(t, "release_remove", s)
                 /\ UNCHANGED answer
            ELSE /\ state' = [state EXCEPT ![s] = "ReleaseFailed"]
                 /\ Return(t)
  /\ recordLock' = [recordLock EXCEPT ![s] = None]
  /\ UNCHANGED <<registry, services, servicesLock, users, handles>>

ReleaseRemove(t) ==
  LET s == target[t] IN
  /\ pc[t] = "release_remove"
  /\ servicesLock = None
  /\ services' = services \ {s}
  /\ Return(t)
  /\ UNCHANGED <<hostVars, registry, servicesLock, recordLock, state, users,
                 handles>>
-------------------------------------------------------------------------------
(* The adapter host process: the lifecycle loop of the adapters' common      *)
(* library, one request read, one line answered.                             *)

\* What the process becomes by answering op with kind.  A start that failed in
\* the adapter ends the process; one that failed in the host loop, around the
\* adapter's start or after it, is only answered with an error.
Became(h, op, kind) ==
  CASE op = "start"  -> IF kind = "ok" THEN {"active"} ELSE {"gone", "rejected"}
    [] op = "invoke" -> IF kind = "ok" THEN {proc[h]} ELSE {proc[h], "failed"}
    [] op = "stop"   -> {"gone"}

\* A failed runtime rejects further invocations, and so does a host that owns
\* none.
HostServes(h) ==
  /\ inbox[h] # <<>>
  /\ Writable(h)
  /\ \E kind \in Kinds :
       LET req == Head(inbox[h]) IN
       /\ req.op = "invoke" /\ kind = "ok" => proc[h] \in {"active", "rejected"}
       /\ \E p \in Became(h, req.op, kind) : proc' = [proc EXCEPT ![h] = p]
       /\ outbox' = [outbox EXCEPT ![h] =
                       Append(@, [by |-> req.by, op |-> req.op, kind |-> kind])]
  /\ inbox' = [inbox EXCEPT ![h] = Tail(@)]
  /\ UNCHANGED <<killFailures, registry, serviceVars, handles, callVars>>

\* The process closes its pipes or exits at any moment.
HostFails(h) ==
  /\ \/ Writable(h) /\ proc' = [proc EXCEPT ![h] = "deaf"]
     \/ (Writable(h) \/ proc[h] = "deaf") /\ proc' = [proc EXCEPT ![h] = "gone"]
  /\ inbox' = [inbox EXCEPT ![h] = <<>>]
  /\ UNCHANGED <<outbox, killFailures, registry, serviceVars, handles,
                 callVars>>
-------------------------------------------------------------------------------
\* A call begins only if its caller wants it to.
Begin(t) ==
  \/ StartRuntime(t) \/ StartWithService(t) \/ InvokeRuntime(t)
  \/ StopRuntime(t) \/ PrepareService(t) \/ ReleaseService(t)

\* A call that has begun goes on.
Step(t) ==
  \/ StartLocked(t) \/ StartReceive(t) \/ StartKill(t) \/ StartTable(t)
  \/ StartPublish(t) \/ StartRegister(t)
  \/ InvokeLocked(t) \/ InvokeReceive(t) \/ InvokeEvict(t) \/ InvokeKill(t)
  \/ StopRemove(t) \/ StopLocked(t) \/ StopReceive(t) \/ StopKill(t)
  \/ StopServices(t) \/ StopRecord(t)
  \/ PrepareReceive(t) \/ PrepareKill(t) \/ PrepareInsert(t)
  \/ ReleaseLocked(t) \/ ReleaseReceive(t) \/ ReleaseKill(t)
  \/ ReleaseRemove(t)

\* No call is in progress and no caller makes another one.
Rest == (\A t \in Threads : pc[t] = "idle") /\ UNCHANGED vars

Next ==
  \/ \E t \in Threads : Begin(t) \/ Step(t)
  \/ \E h \in Hosts : HostServes(h) \/ HostFails(h)
  \/ Rest

Spec == Init /\ [][Next]_vars

\* A thread that can go on again and again does: no thread is preempted for
\* ever, timeouts expire, and a mutex that keeps coming free is granted.
\* Nothing is assumed of the adapter host process or of the callers.
FairSpec == Spec /\ \A t \in Threads : SF_vars(Step(t))
-------------------------------------------------------------------------------
(* Properties *)

\* How far host h is in the lifecycle of the adapter contract.
SessionStage(h) ==
  CASE proc[h] = "none" -> "none"
    [] proc[h] \in {"deaf", "gone"} -> "closed"
    [] Writable(h) /\ Len(inbox[h]) > 1 -> "overrun"
    [] proc[h] = "spawned" /\ Len(inbox[h]) = 1 -> "starting"
    [] proc[h] = "spawned" /\ inbox[h] = <<>> -> "overrun"
    [] proc[h] = "rejected" -> IF inbox[h] = <<>> THEN "rejected" ELSE "overrun"
    [] OTHER -> IF inbox[h] = <<>> THEN "ready"
                ELSE IF Head(inbox[h]).op = "invoke" THEN "busy" ELSE "stopping"

Session == INSTANCE HostSession WITH
             session <- [h \in Hosts |-> SessionStage(h)]

\* Every host process is started once, then handed one request at a time and
\* nothing after a failed start or its stop, however the calls of all threads
\* interleave: the order docs/adapter-contract/tutorials/execution.md requires.
SessionOrder == Session!Spec

\* A thread that waits for an answer can only be given the answer to its own
\* request: responses carry no request id, so a late answer to a timed-out
\* invocation must never meet another caller.
OwnAnswers ==
  \A t \in Threads : pc[t] \in Waiting =>
    \A i \in 1..Len(outbox[target[t]]) : outbox[target[t]][i].by = t

\* A runtime that can still be invoked keeps its service from being released,
\* from the moment it is in LOCAL_HOSTS, before its id joins the users.
ReachableRuntimeHoldsService ==
  \A r \in hosts : service[r] # None => state[service[r]] = "Active"

\* A host process that still runs is in a map, or some thread is about to put
\* it there or to end it.  (Unless a kill failed.)
NoOrphanHost ==
  \A h \in Hosts :
    proc[h] \in {"none", "gone"}
      \/ h \in hosts \cup services
      \/ \E t \in Threads :
           /\ target[t] = h
           /\ pc[t] \in Killing \cup
                {"start_recv", "start_table", "start_publish", "prepare_recv",
                 "prepare_insert", "stop_lock", "stop_recv"}

\* LOCAL_HOST_PROCESSES has the entries of LOCAL_HOSTS, except while a start or
\* a stop is between the two: no process id outlives its runtime there.
SnapshotTableAgrees ==
  \A r \in Runtimes : (r \in hosts) # (r \in processes) =>
    \E t \in Threads :
      /\ target[t] = r
      /\ pc[t] = IF r \in hosts THEN "stop_remove" ELSE "start_publish"

\* A service leaves LOCAL_SERVICES only when its release succeeded and its
\* process is gone: a failed release can be retried.
DroppedServiceIsOver ==
  \A s \in Services \ services :
    state[s] \in Recorded => state[s] = "Released" /\ proc[s] = "gone"

\* Every call returns, whatever the host processes do: no deadlock between the
\* maps, the hosts and the records, and no wait without a timeout.
EveryCallReturns == \A t \in Threads : pc[t] # "idle" ~> pc[t] = "idle"

\* error.rs: "A service cannot be released while runtimes still use it."
ReleaseWaitsForInvocations ==
  \A t \in Threads : pc[t] = "invoke_recv" /\ service[target[t]] # None
    => state[service[target[t]]] = "Active"
==============================================================================
