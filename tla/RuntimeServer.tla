----------------------------- MODULE RuntimeServer -----------------------------
(****************************************************************************)
(* The runtime server of a sandbox: class RuntimeServer of nemo_fabric/     *)
(* runtime_server/state.py.  Handler tasks of one event loop start, invoke, *)
(* check and stop runtimes, the task of serve() shuts the server down.  A   *)
(* step is what a task does between two awaits: waiting for an asyncio lock *)
(* and calling the SDK are the only points where tasks interleave.          *)
(****************************************************************************)
EXTENDS Naturals, FiniteSets

CONSTANTS
  Handlers,     \* handler tasks, one request each at a time
  Runtimes,     \* runtime ids the SDK can return
  Main,         \* the task of serve()
  None,         \* "no task", "no runtime"
  MaxStopped,   \* MAX_STOPPED_RUNTIME_RECORDS
  MaxGeneration \* bound on the stops requested of one runtime

ASSUME ServerAssumption ==
  /\ Main \notin Handlers /\ None \notin Handlers \cup Runtimes \cup {Main}
  /\ MaxStopped \in Nat \ {0} /\ MaxGeneration \in Nat

VARIABLES
  records,       \* the keys of self.runtimes
  order,         \* <<q, r>>: q comes before r in the dict
  state,         \* state[r]: OwnedRuntime.state; "none" before the start
  generation,    \* generation[r]: OwnedRuntime.generation
  owner,         \* owner[r]: holder of OwnedRuntime.lock
  status,        \* status[r]: Runtime.status of the SDK object
  alive,         \* runtimes started and not known to be stopped
  orphan,        \* a runtime may exist that no record addresses
  effects,       \* a native start has had effects
  startLock,     \* holder of _start_lock
  shuttingDown,  \* shutting_down
  startUncertain,\* start_uncertain
  hasUsed,       \* has_used_runtime
  pc,            \* pc[h]: what handler h is doing
  target,        \* target[h]: the runtime of its request
  before,        \* before[h]: previously_used
  seen,          \* seen[h]: the generation when its check began
  probe,         \* probe[h]: what the SDK check found
  main,          \* what serve() is doing
  todo,          \* runtimes shutdown has not visited
  failures       \* shutdown has met a failure

dictVars    == <<records, order>>
runtimeVars == <<dictVars, state, generation, owner, status>>
nativeVars  == <<alive, orphan, effects>>
startVars   == <<startLock, startUncertain, hasUsed>>
locals      == <<before, seen, probe>>
handlerVars == <<pc, target, locals>>
mainVars    == <<shuttingDown, main, todo, failures>>
vars == <<runtimeVars, nativeVars, startVars, handlerVars, mainVars>>

Tasks  == Handlers \cup {Main}
PCs    == {"idle", "start_lock", "starting", "stop_lock", "stopping",
           "invoke_lock", "invoking", "checking"}
Mains  == {"serving", "signalled", "start_lock", "visiting", "stopping",
           "done", "failed"}
Probes == {"none", "passed", "failed"}

TypeOK ==
  /\ records \subseteq Runtimes /\ order \subseteq records \X records
  /\ \A q, r \in records : <<q, r>> \in order <=> q # r /\ <<r, q>> \notin order
  /\ state \in [Runtimes ->
                 {"none", "running", "unknown", "stopping", "stopped"}]
  /\ generation \in [Runtimes -> Nat]
  /\ owner \in [Runtimes -> Tasks \cup {None}]
  /\ status \in [Runtimes -> {"active", "failed", "stopped"}]
  /\ alive \subseteq Runtimes
  /\ {orphan, effects, shuttingDown, startUncertain, hasUsed, failures}
       \subseteq BOOLEAN
  /\ startLock \in Tasks \cup {None}
  /\ pc \in [Handlers -> PCs]
  /\ target \in [Handlers -> Runtimes \cup {None}]
  /\ before \in [Handlers -> BOOLEAN]
  /\ seen \in [Handlers -> Nat]
  /\ probe \in [Handlers -> Probes]
  /\ main \in Mains
  /\ todo \subseteq Runtimes

Init ==
  /\ records = {} /\ order = {}
  /\ state = [r \in Runtimes |-> "none"]
  /\ generation = [r \in Runtimes |-> 0]
  /\ owner = [r \in Runtimes |-> None]
  /\ status = [r \in Runtimes |-> "active"]
  /\ alive = {} /\ orphan = FALSE /\ effects = FALSE
  /\ startLock = None /\ startUncertain = FALSE /\ hasUsed = FALSE
  /\ pc = [h \in Handlers |-> "idle"]
  /\ target = [h \in Handlers |-> None]
  /\ before = [h \in Handlers |-> FALSE]
  /\ seen = [h \in Handlers |-> 0]
  /\ probe = [h \in Handlers |-> "none"]
  /\ shuttingDown = FALSE /\ main = "serving" /\ todo = {} /\ failures = FALSE

\* Handler h goes on to l with its request about r.
GoTo(h, l, r) ==
  /\ pc' = [pc EXCEPT ![h] = l]
  /\ target' = [target EXCEPT ![h] = r]

\* The request is answered; the locals of the handler are gone.
Answer(h) ==
  /\ GoTo(h, "idle", None)
  /\ before' = [before EXCEPT ![h] = FALSE]
  /\ seen' = [seen EXCEPT ![h] = 0]
  /\ probe' = [probe EXCEPT ![h] = "none"]
-------------------------------------------------------------------------------
(* start *)

StartRequest(h) ==
  /\ pc[h] = "idle" /\ ~shuttingDown
  /\ GoTo(h, "start_lock", None)
  /\ UNCHANGED <<runtimeVars, nativeVars, startVars, locals, mainVars>>

\* Slip: starts are not serialized.
StartLocked_Unserialized(h) ==
  /\ pc[h] = "start_lock" /\ ~shuttingDown
  /\ before' = [before EXCEPT ![h] = hasUsed]
  /\ hasUsed' = TRUE /\ startUncertain' = TRUE
  /\ GoTo(h, "starting", None)
  /\ UNCHANGED <<runtimeVars, nativeVars, startLock, seen, probe, mainVars>>

\* Under the start lock: refused, or with an invalid configuration, the lock is
\* let go at once.  Otherwise both flags go up before the native start.
StartLocked(h) ==
  /\ pc[h] = "start_lock"
  /\ startLock = None
  /\ \/ /\ ~shuttingDown /\ ~startUncertain
        /\ before' = [before EXCEPT ![h] = hasUsed]
        /\ hasUsed' = TRUE /\ startUncertain' = TRUE /\ startLock' = h
        /\ GoTo(h, "starting", None)
        /\ UNCHANGED <<seen, probe>>
     \/ Answer(h) /\ UNCHANGED startVars
  /\ UNCHANGED <<runtimeVars, nativeVars, mainVars>>

\* FabricConfigError: nothing has happened, the flags go back.
StartRejected(h) ==
  /\ pc[h] = "starting"
  /\ hasUsed' = before[h] /\ startUncertain' = FALSE /\ startLock' = None
  /\ Answer(h)
  /\ UNCHANGED <<runtimeVars, nativeVars, mainVars>>

\* Slip: a start that failed is over, whatever it left behind.
StartFails_Certain(h) ==
  /\ pc[h] = "starting"
  /\ effects' = TRUE /\ orphan' = TRUE
  /\ startLock' = None /\ startUncertain' = FALSE
  /\ Answer(h)
  /\ UNCHANGED <<runtimeVars, alive, hasUsed, mainVars>>

\* Any other error, and an id that is already taken: the start stays uncertain.
StartFails(h) ==
  /\ pc[h] = "starting"
  /\ \E left \in BOOLEAN :
       effects' = (effects \/ left) /\ orphan' = (orphan \/ left)
  /\ startLock' = None
  /\ Answer(h)
  /\ UNCHANGED <<runtimeVars, alive, startUncertain, hasUsed, mainVars>>

\* The runtime gets its record.  One that is not active is only kept for stop.
StartReturns(h) ==
  /\ pc[h] = "starting"
  /\ \E r \in Runtimes, st \in {"active", "failed"} :
       /\ state[r] = "none"
       /\ records' = records \cup {r}
       /\ order' = order \cup (records \X {r})
       /\ state' = [state EXCEPT ![r] =
                      IF st = "active" THEN "running" ELSE "unknown"]
       /\ status' = [status EXCEPT ![r] = st]
       /\ alive' = alive \cup {r}
  /\ effects' = TRUE /\ startUncertain' = FALSE /\ startLock' = None
  /\ Answer(h)
  /\ UNCHANGED <<generation, owner, orphan, hasUsed, mainVars>>
-------------------------------------------------------------------------------
(* stop *)

\* Before it waits for the lock, stop already takes the runtime out of service.
StopRequest(h) ==
  /\ pc[h] = "idle" /\ ~shuttingDown
  /\ \E r \in records :
       /\ IF state[r] = "stopped"
            THEN UNCHANGED <<state, generation>>
            ELSE /\ generation[r] < MaxGeneration
                 /\ generation' = [generation EXCEPT ![r] = @ + 1]
                 /\ state' = [state EXCEPT ![r] = "stopping"]
       /\ GoTo(h, "stop_lock", r)
  /\ UNCHANGED <<dictVars, owner, status, nativeVars, startVars, locals,
                 mainVars>>

\* _stop up to its await: task t calls stop() of the SDK runtime.
StopBegins(t, r) ==
  /\ generation' = [generation EXCEPT ![r] = @ + 1]
  /\ state' = [state EXCEPT ![r] = "unknown"]
  /\ owner' = [owner EXCEPT ![r] = t]

StopLocked(h) ==
  LET r == target[h] IN
  /\ pc[h] = "stop_lock"
  /\ owner[r] = None
  /\ IF shuttingDown \/ state[r] = "stopped"
       THEN Answer(h) /\ UNCHANGED <<generation, state, owner>>
       ELSE StopBegins(h, r) /\ GoTo(h, "stopping", r) /\ UNCHANGED locals
  /\ UNCHANGED <<dictVars, status, nativeVars, startVars, mainVars>>

\* Slip: the record stays where the start has put it.
Touch_InPlace(r) == order

\* Slip: the record is added again where it already is.
Touch_Twice(r) == order \cup (records \X {r})

\* pop and insert: the record of r moves to the end of the dict.
Touch(r) ==
  {p \in order : p[1] # r /\ p[2] # r} \cup ((records \ {r}) \X {r})

\* The records but those of stopped runtimes that MaxStopped others come after.
Evict(ids, ord, states) ==
  LET stopped == {r \in ids : states[r] = "stopped"} IN
  ids \ {r \in stopped :
           Cardinality({q \in stopped : <<r, q>> \in ord}) >= MaxStopped}

\* _stop after its await, and the end of the lock.
StopEnds(r) ==
  /\ state' = [state EXCEPT ![r] = "stopped"]
  /\ status' = [status EXCEPT ![r] = "stopped"]
  /\ alive' = alive \ {r}
  /\ records' = Evict(records \cup {r}, Touch(r), state')
  /\ order' = Touch(r) \cap (records' \X records')
  /\ owner' = [owner EXCEPT ![r] = None]

StopReturns(h) ==
  /\ pc[h] = "stopping"
  /\ StopEnds(target[h])
  /\ Answer(h)
  /\ UNCHANGED <<generation, orphan, effects, startVars, mainVars>>

\* A stop that fails keeps the runtime; its state stays what it has become.
StopFails(h) ==
  LET r == target[h] IN
  /\ pc[h] = "stopping"
  /\ status' = [status EXCEPT ![r] = "failed"]
  /\ owner' = [owner EXCEPT ![r] = None]
  /\ Answer(h)
  /\ UNCHANGED <<dictVars, state, generation, nativeVars, startVars, mainVars>>
-------------------------------------------------------------------------------
(* invoke *)

InvokeRequest(h) ==
  /\ pc[h] = "idle" /\ ~shuttingDown
  /\ \E r \in records : GoTo(h, "invoke_lock", r)
  /\ UNCHANGED <<runtimeVars, nativeVars, startVars, locals, mainVars>>

\* Slip: only the SDK object is asked whether the runtime can be invoked.
Invocable_Active(r) == status[r] = "active"

\* Slip: invocations do not wait for one another.
InvokeLocked_Concurrent(h) ==
  LET r == target[h] IN
  /\ pc[h] = "invoke_lock"
  /\ ~shuttingDown /\ state[r] = "running" /\ status[r] = "active"
  /\ GoTo(h, "invoking", r)
  /\ UNCHANGED <<runtimeVars, nativeVars, startVars, locals, mainVars>>

Invocable(r) == state[r] = "running" /\ status[r] = "active"

\* The state is read again under the lock.  An invalid request returns early.
InvokeLocked(h) ==
  LET r == target[h] IN
  /\ pc[h] = "invoke_lock"
  /\ owner[r] = None
  /\ \/ /\ ~shuttingDown /\ Invocable(r)
        /\ owner' = [owner EXCEPT ![r] = h]
        /\ GoTo(h, "invoking", r)
        /\ UNCHANGED locals
     \/ Answer(h) /\ UNCHANGED owner
  /\ UNCHANGED <<dictVars, state, generation, status, nativeVars, startVars,
                 mainVars>>

\* The SDK runtime stays active or fails.
InvokeReturns(h) ==
  LET r == target[h] IN
  /\ pc[h] = "invoking"
  /\ \E st \in {"active", "failed"} : status' = [status EXCEPT ![r] = st]
  /\ owner' = [owner EXCEPT ![r] = None]
  /\ Answer(h)
  /\ UNCHANGED <<dictVars, state, generation, nativeVars, startVars, mainVars>>
-------------------------------------------------------------------------------
(* check *)

\* Without the lock: the generation is noted and the SDK asked.
CheckRequest(h) ==
  /\ pc[h] = "idle"
  /\ \E r \in records :
       /\ ~shuttingDown /\ Invocable(r)
       /\ seen' = [seen EXCEPT ![h] = generation[r]]
       /\ GoTo(h, "checking", r)
  /\ UNCHANGED <<runtimeVars, nativeVars, startVars, before, probe, mainVars>>

\* The SDK looks at the runtime: only one that lives can pass.
CheckObserves(h) ==
  /\ pc[h] = "checking" /\ probe[h] = "none"
  /\ \E p \in IF target[h] \in alive THEN {"passed", "failed"} ELSE {"failed"} :
       probe' = [probe EXCEPT ![h] = p]
  /\ UNCHANGED <<runtimeVars, nativeVars, startVars, pc, target, before, seen,
                 mainVars>>

\* Slip: only the record is looked up again.
Changed_SameRecord(h) == shuttingDown \/ target[h] \notin records

\* Stop, replacement or shutdown since the check began.
Changed(h) ==
  LET r == target[h] IN
  \/ shuttingDown \/ r \notin records
  \/ state[r] = "stopped" \/ generation[r] # seen[h]

\* What the caller is told; a probe that did not answer in time is an error.
Report(h) ==
  IF Changed(h) THEN "observation_changed"
  ELSE IF probe[h] = "passed" THEN "passed" ELSE "failed"

CheckReturns(h) ==
  /\ pc[h] = "checking"
  /\ Answer(h)
  /\ UNCHANGED <<runtimeVars, nativeVars, startVars, mainVars>>
-------------------------------------------------------------------------------
(* shutdown, run by serve() after a signal *)

Signal ==
  /\ main = "serving"
  /\ shuttingDown' = TRUE /\ main' = "signalled"
  /\ UNCHANGED <<runtimeVars, nativeVars, startVars, handlerVars, todo,
                 failures>>

\* Slip: a start whose outcome is not known is forgotten.
ShutdownBegins_Forgetful ==
  /\ main = "signalled"
  /\ main' = IF startLock # None \/ \E r \in records : owner[r] # None
               THEN "failed" ELSE "start_lock"
  /\ UNCHANGED <<runtimeVars, nativeVars, startVars, handlerVars,
                 shuttingDown, todo, failures>>

\* Work in progress and an uncertain start are left to the supervisor.
ShutdownBegins ==
  /\ main = "signalled"
  /\ main' = IF \/ startLock # None \/ startUncertain
                \/ \E r \in records : owner[r] # None
               THEN "failed" ELSE "start_lock"
  /\ UNCHANGED <<runtimeVars, nativeVars, startVars, handlerVars,
                 shuttingDown, todo, failures>>

\* The runtimes are listed once, under the start lock.
ShutdownLists ==
  /\ main = "start_lock" /\ startLock = None
  /\ startLock' = Main /\ todo' = records /\ main' = "visiting"
  /\ UNCHANGED <<runtimeVars, nativeVars, startUncertain, hasUsed, handlerVars,
                 shuttingDown, failures>>

\* The next runtime: one that is not stopped is stopped, under its lock.
ShutdownVisits ==
  /\ main = "visiting"
  /\ \E r \in todo :
       /\ owner[r] = None
       /\ IF state[r] = "stopped"
            THEN /\ todo' = todo \ {r}
                 /\ UNCHANGED <<main, generation, state, owner>>
            ELSE StopBegins(Main, r) /\ main' = "stopping" /\ UNCHANGED todo
  /\ UNCHANGED <<dictVars, status, nativeVars, startVars, handlerVars,
                 shuttingDown, failures>>

\* Every runtime is tried, even after a failure.
ShutdownStops ==
  /\ main = "stopping"
  /\ \E r \in todo :
       /\ owner[r] = Main
       /\ \/ StopEnds(r) /\ UNCHANGED failures
          \/ /\ status' = [status EXCEPT ![r] = "failed"]
             /\ owner' = [owner EXCEPT ![r] = None]
             /\ failures' = TRUE
             /\ UNCHANGED <<dictVars, state, alive>>
       /\ todo' = todo \ {r}
  /\ main' = "visiting"
  /\ UNCHANGED <<generation, orphan, effects, startVars, handlerVars,
                 shuttingDown>>

ShutdownEnds ==
  /\ main = "visiting" /\ todo = {}
  /\ main' = IF failures THEN "failed" ELSE "done"
  /\ startLock' = None /\ failures' = FALSE
  /\ UNCHANGED <<runtimeVars, nativeVars, startUncertain, hasUsed, handlerVars,
                 shuttingDown, todo>>

\* serve() gives up on a shutdown that takes too long: its task is cancelled
\* wherever it waits, and the locks it holds are let go.
ShutdownTimesOut ==
  /\ main \in {"start_lock", "visiting", "stopping"}
  /\ main' = "failed"
  /\ startLock' = IF startLock = Main THEN None ELSE startLock
  /\ owner' = [r \in Runtimes |-> IF owner[r] = Main THEN None ELSE owner[r]]
  /\ todo' = {} /\ failures' = FALSE
  /\ UNCHANGED <<dictVars, state, generation, status, nativeVars, startUncertain,
                 hasUsed, handlerVars, shuttingDown>>
-------------------------------------------------------------------------------
Handle(h) ==
  \/ StartRequest(h) \/ StartLocked(h) \/ StartRejected(h) \/ StartFails(h)
  \/ StartReturns(h)
  \/ StopRequest(h) \/ StopLocked(h) \/ StopReturns(h) \/ StopFails(h)
  \/ InvokeRequest(h) \/ InvokeLocked(h) \/ InvokeReturns(h)
  \/ CheckRequest(h) \/ CheckObserves(h) \/ CheckReturns(h)

Shutdown ==
  \/ Signal \/ ShutdownBegins \/ ShutdownLists \/ ShutdownVisits
  \/ ShutdownStops \/ ShutdownEnds \/ ShutdownTimesOut

Next == (\E h \in Handlers : Handle(h)) \/ Shutdown

Spec == Init /\ [][Next]_vars
-------------------------------------------------------------------------------
(* Properties *)

\* Once a stop was requested of a runtime no invocation begins on it any more,
\* not even when an invocation was queued before the stop or the stop failed.
StopIsFinal ==
  [][\A h \in Handlers, r \in Runtimes :
       pc[h] # "invoking" /\ pc'[h] = "invoking" /\ target'[h] = r
       => generation[r] = 0]_vars

\* A runtime that has just been stopped keeps its record, so a repeated stop is
\* answered, however long ago it was started: the bound on the records of
\* stopped runtimes takes the ones stopped first.
LastStopIsRemembered ==
  [][\A r \in Runtimes :
       state[r] # "stopped" /\ state'[r] = "stopped"
       => r \in records']_vars

\* A check that reports a runtime as passed does so of one that lives and serves at
\* that moment: no stop was requested, has begun or ended while the SDK was asked.
PassedRuntimeServes ==
  [][\A h \in Handlers :
       pc[h] = "checking" /\ pc'[h] = "idle" /\ Report(h) = "passed"
       => target[h] \in alive /\ state[target[h]] = "running"]_vars

\* A runtime that may live has a record, so stop can reach it, or the server
\* knows that a start is uncertain and starts no other: eviction only drops
\* records of stopped runtimes.
LivingRuntimeIsAddressed ==
  orphan \/ ~(alive \subseteq records) => startUncertain

\* serve() keeps the ownership marker if a native start ever had effects, even
\* if a later one was rejected.
EffectsAreUse == effects => hasUsed

\* After an orderly shutdown nothing is running: no runtime, no call, no start.
OrderlyShutdownIsComplete ==
  main = "done" =>
    /\ alive = {} /\ ~orphan
    /\ \A h \in Handlers : pc[h] \notin {"starting", "invoking", "stopping"}
==============================================================================
