--------------------------- MODULE OpenShellRuntimes ---------------------------
(****************************************************************************)
(* Runtimes in one OpenShell sandbox, as fabric-core sees them: the         *)
(* bindings of runtime/openshell.rs, and the provider worker processes of   *)
(* environment.rs through which their commands travel.  Threads start,      *)
(* invoke and stop runtimes and release the environment, in any order and   *)
(* at once.  A command is executed in the sandbox by its runtime server; an *)
(* answer may be lost, and a command nobody waits for any more may still be *)
(* executed.  A step is what a thread does under BINDINGS, under the table  *)
(* of workers, or while it owns a worker.  A call that is refused because   *)
(* of a binding changes nothing and is no step.                             *)
(****************************************************************************)
EXTENDS Naturals, FiniteSets

CONSTANTS
  Threads,
  Runtimes,  \* ids the server in the sandbox draws, never twice
  Workers,   \* provider processes (bound: how many may exist at once)
  None

Slots == {"start", "unknownStart", "release"}  \* START_KEY, UNKNOWN_START_KEY, RELEASE_KEY
Keys == Runtimes \cup Slots

ASSUME OpenShellAssumption ==
  /\ None \notin Threads /\ None \notin Runtimes /\ None \notin Workers
  /\ Runtimes \cap Slots = {}

VARIABLES
  entry,     \* does BINDINGS have an entry for the sandbox
  bindings,  \* the states in it, "absent" where there is none
  saved,     \* saved[t]: the entry t read when its release began
  pc, op, target, reply,  \* what thread t does, for which runtime, with what result
  worker,    \* worker[t]: the worker t was given
  table,     \* OPEN_SHELL_RUNTIME_PROCESSES[r]
  proc,      \* proc[w]: "free" (no such process), "live", "dead"
  lock,      \* lock[w]: the thread that owns its mutex
  owned,     \* ownership = FabricOwned
  sandbox,   \* "up" or "gone", with the runtime server in it
  served,    \* runtimes the server in the sandbox keeps alive
  drawn,     \* ids it has used
  late       \* commands nobody waits for that may still be executed

bindingVars == <<entry, bindings, saved>>
threadVars == <<pc, op, target, reply>>
workerVars == <<worker, table, proc, lock>>
worldVars == <<sandbox, served, drawn, late>>
vars == <<bindingVars, threadVars, workerVars, owned, worldVars>>

States == {"absent", "active", "invoking", "stopping", "unknown", "stopped"}
SlotState(k) == CASE k = "start" -> "starting"
                  [] k = "unknownStart" -> "unknown"
                  [] k = "release" -> "releasing"
Entries == {b \in [Keys -> States \cup {"starting", "releasing"}] :
              /\ \A r \in Runtimes : b[r] \in States
              /\ \A k \in Slots : b[k] \in {"absent", SlotState(k)}}
Commands == ({"start"} \X Threads) \cup ({"stop"} \X Runtimes)

TypeOK ==
  /\ entry \in BOOLEAN
  /\ bindings \in Entries
  /\ ~entry => \A k \in Keys : bindings[k] = "absent"
  /\ saved \in [Threads -> BOOLEAN \X Entries]
  /\ pc \in [Threads -> {"idle", "fetch", "lock", "await", "drop", "retire", "done",
                         "parse", "deleting", "released"}]
  /\ op \in [Threads -> {"none", "start", "invoke", "stop", "release"}]
  /\ target \in [Threads -> Runtimes \cup {None}]
  /\ reply \in [Threads -> {"none", "returned", "refused", "rejected", "lost"}]
  /\ worker \in [Threads -> Workers \cup {None}]
  /\ table \in [Runtimes -> Workers \cup {None}]
  /\ proc \in [Workers -> {"free", "live", "dead"}]
  /\ lock \in [Workers -> Threads \cup {None}]
  /\ owned \in BOOLEAN
  /\ sandbox \in {"up", "gone"}
  /\ served \subseteq drawn /\ drawn \subseteq Runtimes
  /\ late \subseteq Commands

NoBindings == [k \in Keys |-> "absent"]

Init ==
  /\ entry = FALSE /\ bindings = NoBindings
  /\ saved = [t \in Threads |-> <<FALSE, NoBindings>>]
  /\ pc = [t \in Threads |-> "idle"] /\ op = [t \in Threads |-> "none"]
  /\ target = [t \in Threads |-> None] /\ reply = [t \in Threads |-> "none"]
  /\ worker = [t \in Threads |-> None] /\ table = [r \in Runtimes |-> None]
  /\ proc = [w \in Workers |-> "free"] /\ lock = [w \in Workers |-> None]
  /\ owned \in BOOLEAN
  /\ sandbox = "up" /\ served = {} /\ drawn = {} /\ late = {}

Goto(t, l) == pc' = [pc EXCEPT ![t] = l]
At(t, o, l) == op[t] = o /\ pc[t] = l
Begins(t, o, r, l) ==
  /\ pc[t] = "idle"
  /\ Goto(t, l) /\ op' = [op EXCEPT ![t] = o] /\ target' = [target EXCEPT ![t] = r]
  /\ UNCHANGED <<reply, workerVars, owned, worldVars>>
\* A thread that returns forgets what it had; a worker nobody can reach any more is
\* free again (in the code it ends, or waits for ever).
Reachable(w, t) == (\E r \in Runtimes : table[r] = w) \/ (\E u \in Threads \ {t} : worker[u] = w)
Returns(t) ==
  /\ Goto(t, "idle") /\ op' = [op EXCEPT ![t] = "none"]
  /\ target' = [target EXCEPT ![t] = None] /\ reply' = [reply EXCEPT ![t] = "none"]
  /\ worker' = [worker EXCEPT ![t] = None]
  /\ proc' = [w \in Workers |-> IF Reachable(w, t) THEN proc[w] ELSE "free"]
  /\ UNCHANGED <<table, lock, owned, worldVars>>

----------------------------------------------------------------------------
(* The bindings: start, invoke, stop, release, each before and after its command *)

StartClaims(t) ==
  /\ \A k \in Slots : bindings[k] = "absent"
  /\ entry' = TRUE /\ bindings' = [bindings EXCEPT !["start"] = "starting"]
  /\ Begins(t, "start", None, "fetch")
  /\ UNCHANGED saved

\* Slip: an error of the native start counts as a start refused.
NothingStarted_AnyRejection(t) == reply[t] \in {"refused", "rejected"}

\* The server certainly started nothing.
NothingStarted(t) == reply[t] = "refused"

StartRefused(t) ==
  /\ At(t, "start", "done") /\ NothingStarted(t)
  /\ entry' = TRUE /\ bindings' = [bindings EXCEPT !["start"] = "absent"]
  /\ Returns(t)
  /\ UNCHANGED saved

\* Slip: the claim is kept beside its uncertain successor.
StartIsUncertain_InPlace(t) ==
  /\ At(t, "start", "done") /\ ~NothingStarted(t)
  /\ entry' = TRUE
  /\ bindings' = [bindings EXCEPT !["start"] = "unknown", !["unknownStart"] = "unknown"]
  /\ Goto(t, "parse")
  /\ UNCHANGED <<saved, op, target, reply, workerVars, owned, worldVars>>

\* set_start_state, before anybody looks at the answer.
StartIsUncertain(t) ==
  /\ At(t, "start", "done") /\ ~NothingStarted(t)
  /\ entry' = TRUE
  /\ bindings' = [bindings EXCEPT !["start"] = "absent", !["unknownStart"] = "unknown"]
  /\ Goto(t, "parse")
  /\ UNCHANGED <<saved, op, target, reply, workerVars, owned, worldVars>>

\* There is no answer, or it is not the handle of this agent's runtime.
StartFails(t) ==
  /\ At(t, "start", "parse")
  /\ Returns(t)
  /\ UNCHANGED bindingVars

StartBinds(t) ==
  /\ At(t, "start", "parse") /\ reply[t] = "returned"
  /\ entry' = TRUE
  /\ bindings' = [bindings EXCEPT !["start"] = "absent", !["unknownStart"] = "absent",
                                  ![target[t]] = "active"]
  /\ Returns(t)
  /\ UNCHANGED saved

\* claim
Claims(t, o, r, from, to) ==
  /\ bindings["release"] = "absent" /\ bindings[r] \in from
  /\ bindings' = [bindings EXCEPT ![r] = to]
  /\ Begins(t, o, r, "fetch")
  /\ UNCHANGED <<entry, saved>>

InvokeClaims(t, r) == Claims(t, "invoke", r, {"active"}, "invoking")
StopClaims(t, r) == Claims(t, "stop", r, {"active", "unknown", "invoking"}, "stopping")

\* Slip: an answer overwrites what a stop has set meanwhile.
InvokeSettles_Always(t) ==
  /\ At(t, "invoke", "done")
  /\ LET r == target[t]
         to == IF reply[t] \in {"returned", "refused"} THEN "active" ELSE "unknown"
     IN bindings' = [bindings EXCEPT ![r] = to]
  /\ Returns(t)
  /\ UNCHANGED <<entry, saved>>

\* A refused invocation had no effects; one whose answer is not understood may have.
InvokeSettles(t) ==
  /\ At(t, "invoke", "done")
  /\ LET r == target[t]
         to == IF reply[t] \in {"returned", "refused"} THEN "active" ELSE "unknown"
     IN bindings' = [bindings EXCEPT ![r] = IF @ = "invoking" THEN to ELSE @]
  /\ Returns(t)
  /\ UNCHANGED <<entry, saved>>

StopSettles(t) ==
  /\ At(t, "stop", "done")
  /\ entry' = TRUE
  /\ bindings' = [bindings EXCEPT ![target[t]] =
                    IF reply[t] = "returned" THEN "stopped" ELSE "unknown"]
  /\ Returns(t)
  /\ UNCHANGED saved

\* Slip: a runtime that is being stopped is taken for stopped.
InUse_ButStopping == {"starting", "active", "invoking"}

InUse == {"starting", "active", "invoking", "stopping"}

ReleaseBegins(t) ==
  /\ bindings["release"] = "absent"
  /\ \A k \in Keys : bindings[k] \notin InUse
  /\ saved' = [saved EXCEPT ![t] = <<entry, bindings>>]
  /\ entry' = TRUE /\ bindings' = [bindings EXCEPT !["release"] = "releasing"]
  /\ Begins(t, "release", None, "deleting")

\* The provider's release: a sandbox of the caller is only detached, one of
\* Fabric's is deleted, or it is unknown whether it is.
ProviderReleases(t) ==
  /\ At(t, "release", "deleting")
  /\ \E ok \in BOOLEAN :
       /\ reply' = [reply EXCEPT ![t] = IF ok THEN "returned" ELSE "lost"]
       /\ \/ sandbox' = "gone" /\ owned
          \/ sandbox' = sandbox /\ (ok /\ owned => sandbox = "gone")
  /\ Goto(t, "released")
  /\ UNCHANGED <<bindingVars, op, target, workerVars, owned, served, drawn, late>>

\* The map gets back what it was before the release, whatever happened meanwhile,
\* unless the sandbox is gone.
ReleaseEnds(t) ==
  /\ At(t, "release", "released")
  /\ LET ok == reply[t] = "returned"
         had == saved[t][1]
     IN \/ /\ (ok /\ owned) \/ (ok /\ ~had)
           /\ entry' = FALSE /\ bindings' = NoBindings
        \/ /\ ~(ok /\ owned) /\ had
           /\ entry' = TRUE /\ bindings' = saved[t][2]
        \/ /\ ~ok /\ ~had
           /\ entry' = TRUE
           /\ bindings' = [NoBindings EXCEPT !["unknownStart"] = "unknown"]
  /\ saved' = [saved EXCEPT ![t] = <<FALSE, NoBindings>>]
  /\ Returns(t)

----------------------------------------------------------------------------
(* request_runtime_provider_process: the exchange of a command *)

Command(t) == IF op[t] = "start" THEN <<"start", t>> ELSE <<op[t], target[t]>>
Lost(t) == reply' = [reply EXCEPT ![t] = "lost"]

\* runtime_provider_process: the worker of the runtime, or a new one.  That of a
\* start is under the key of its request, which no other request has: not in table.
HasWorker(t) == op[t] # "start" /\ table[target[t]] # None

Fetch(t) ==
  /\ pc[t] = "fetch"
  /\ IF HasWorker(t)
     THEN /\ worker' = [worker EXCEPT ![t] = table[target[t]]]
          /\ UNCHANGED <<table, proc>>
     ELSE \E w \in Workers :
            /\ proc[w] = "free"
            /\ worker' = [worker EXCEPT ![t] = w]
            /\ proc' = [proc EXCEPT ![w] = "live"]
            /\ table' = [r \in Runtimes |-> IF op[t] # "start" /\ r = target[t]
                                            THEN w ELSE table[r]]
  /\ Goto(t, "lock")
  /\ UNCHANGED <<bindingVars, op, target, reply, lock, owned, worldVars>>

\* The process cannot be started.
FetchFails(t) ==
  /\ pc[t] = "fetch" /\ ~HasWorker(t)
  /\ Lost(t) /\ Goto(t, "done")
  /\ UNCHANGED <<bindingVars, op, target, workerVars, owned, worldVars>>

\* Its mutex is taken and the request written, unless the process has exited.
Send(t) ==
  /\ pc[t] = "lock" /\ lock[worker[t]] = None
  /\ IF proc[worker[t]] = "live"
     THEN /\ lock' = [lock EXCEPT ![worker[t]] = t]
          /\ Goto(t, "await") /\ UNCHANGED reply
     ELSE /\ Lost(t) /\ Goto(t, "drop") /\ UNCHANGED lock
  /\ UNCHANGED <<bindingVars, op, target, worker, table, proc, owned, worldVars>>

Unlock(t) == lock' = [lock EXCEPT ![worker[t]] = None]

\* Nobody waits for the command any more; an invocation has no effect recorded here.
Abandons(t) == late' \in IF reply[t] = "none" /\ op[t] # "invoke"
                         THEN {late, late \cup {Command(t)}} ELSE {late}

\* The worker passes the server's answer on.  A runtime that started gets the worker
\* of its start; one that stopped gives its worker up.
Answers(t) ==
  /\ pc[t] = "await" /\ reply[t] # "none"
  /\ Unlock(t)
  /\ LET r == target[t] IN
       CASE op[t] = "start" /\ reply[t] = "returned" ->
              table' = [table EXCEPT ![r] = worker[t]] /\ Goto(t, "done")
         [] op[t] = "stop" /\ reply[t] = "returned" ->
              /\ table' = [table EXCEPT ![r] = IF @ = worker[t] THEN None ELSE @]
              /\ Goto(t, "retire")
         [] OTHER -> UNCHANGED table /\ Goto(t, "done")
  /\ UNCHANGED <<bindingVars, op, target, reply, worker, proc, owned, worldVars>>

\* The worker says that it has no answer: the gateway failed before, in or after the
\* execution.
Fails(t) ==
  /\ pc[t] = "await"
  /\ reply' = [reply EXCEPT ![t] = "rejected"]
  /\ Abandons(t) /\ Unlock(t) /\ Goto(t, "done")
  /\ UNCHANGED <<bindingVars, op, target, worker, table, proc, owned, sandbox, served, drawn>>

\* The answer takes too long, or the worker's stream ends: it is killed.
IsLost(t) ==
  /\ pc[t] = "await"
  /\ Lost(t) /\ Abandons(t) /\ Unlock(t)
  /\ proc' = [proc EXCEPT ![worker[t]] = "dead"]
  /\ Goto(t, "drop")
  /\ UNCHANGED <<bindingVars, op, target, worker, table, owned, sandbox, served, drawn>>

\* What the worker passes on is no answer to this request: it is let go as it is.
IsBroken(t) ==
  /\ pc[t] = "await"
  /\ Lost(t) /\ Abandons(t) /\ Unlock(t)
  /\ Goto(t, "drop")
  /\ UNCHANGED <<bindingVars, op, target, worker, table, proc, owned, sandbox, served, drawn>>

\* remove_runtime_provider_process: only if the table still names this worker.  One
\* that was not killed before is retired after it.
Drop(t) ==
  /\ pc[t] = "drop"
  /\ table' = [r \in Runtimes |-> IF r = target[t] /\ table[r] = worker[t]
                                  THEN None ELSE table[r]]
  /\ Goto(t, IF proc[worker[t]] = "live" THEN "retire" ELSE "done")
  /\ UNCHANGED <<bindingVars, op, target, reply, worker, proc, lock, owned, worldVars>>

\* retire_runtime_provider_process, after a stop or a broken answer: it waits for
\* whoever has taken the worker meanwhile.
Retire(t) ==
  /\ pc[t] = "retire" /\ lock[worker[t]] = None
  /\ proc' = [proc EXCEPT ![worker[t]] = "dead"]
  /\ Goto(t, "done")
  /\ UNCHANGED <<bindingVars, op, target, reply, worker, table, lock, owned, worldVars>>

----------------------------------------------------------------------------
(* The sandbox: the runtime server executes commands (runtime_server/state.py) *)

\* A start has an id of its own; a stop may fail after it took effect.
Executes(t) ==
  /\ pc[t] = "await" /\ reply[t] = "none" /\ sandbox = "up"
  /\ \E result \in {"returned", "refused", "rejected"} :
       /\ reply' = [reply EXCEPT ![t] = result]
       /\ \/ /\ op[t] = "start" /\ result # "refused"
             /\ \E r \in Runtimes \ drawn :
                  /\ drawn' = drawn \cup {r} /\ served' = served \cup {r}
                  /\ target' = [target EXCEPT ![t] = r]
          \/ /\ op[t] = "start" /\ result # "returned"
             /\ UNCHANGED <<drawn, served, target>>
          \/ /\ op[t] = "invoke" /\ (result = "returned" => target[t] \in served)
             /\ UNCHANGED <<drawn, served, target>>
          \/ /\ op[t] = "stop" /\ result # "refused"
             /\ served' = served \ {target[t]}
             /\ UNCHANGED <<drawn, target>>
          \/ /\ op[t] = "stop" /\ result # "returned"
             /\ UNCHANGED <<drawn, served, target>>
  /\ UNCHANGED <<bindingVars, pc, op, workerVars, owned, sandbox, late>>

ExecutesLate(c) ==
  /\ c \in late /\ sandbox = "up"
  /\ late' = late \ {c}
  /\ IF c[1] = "start"
     THEN \E r \in Runtimes \ drawn : drawn' = drawn \cup {r} /\ served' = served \cup {r}
     ELSE served' = served \ {c[2]} /\ UNCHANGED drawn
  /\ UNCHANGED <<bindingVars, threadVars, workerVars, owned, sandbox>>

\* The sandbox is deleted by someone else, or the server in it ends.
SandboxEnds ==
  /\ sandbox = "up" /\ sandbox' = "gone"
  /\ UNCHANGED <<bindingVars, threadVars, workerVars, owned, served, drawn, late>>

----------------------------------------------------------------------------
Exchange(t) ==
  \/ Fetch(t) \/ FetchFails(t) \/ Send(t) \/ Answers(t) \/ Fails(t)
  \/ IsLost(t) \/ IsBroken(t) \/ Drop(t) \/ Retire(t)

Next ==
  \/ \E t \in Threads :
       \/ StartClaims(t) \/ StartRefused(t) \/ StartIsUncertain(t) \/ StartFails(t)
       \/ StartBinds(t) \/ InvokeSettles(t) \/ StopSettles(t)
       \/ \E r \in Runtimes : InvokeClaims(t, r) \/ StopClaims(t, r)
       \/ ReleaseBegins(t) \/ ProviderReleases(t) \/ ReleaseEnds(t)
       \/ Exchange(t) \/ Executes(t)
  \/ \E c \in Commands : ExecutesLate(c)
  \/ SandboxEnds

Spec == Init /\ [][Next]_vars

----------------------------------------------------------------------------
\* An uncertain start blocks further starts (docs/sdk/python.mdx): while the server
\* in the sandbox has, or may yet get, a runtime that no binding names, a start, its
\* uncertainty or a release is on record.
OrphanBlocksStarts ==
  /\ sandbox = "up"
  /\ (\E r \in served : bindings[r] = "absent") \/ (\E t \in Threads : <<"start", t>> \in late)
  => \E k \in Slots : bindings[k] # "absent"

\* A runtime bound as active is served and no lost stop of it is on its way; one
\* bound as stopped is not served: no late answer, timeout or restored entry
\* confirms a state the runtime is not in (claim, invoke, stop, release).
ConfirmedStatesAreTrue ==
  sandbox = "up" =>
    \A r \in Runtimes :
      /\ bindings[r] = "active" => r \in served /\ <<"stop", r>> \notin late
      /\ bindings[r] = "stopped" => r \notin served

\* Between a release's admission and the deletion of the sandbox no start and no stop
\* is being executed, and an invocation only if a stop of its runtime was tried
\* meanwhile (start, claim, release).  In a sandbox that is gone commands can meet a
\* release: a start that was unanswered when the sandbox went still binds its runtime.
ReleaseMeetsNoCommand ==
  sandbox = "up" =>
    \A t, u \in Threads :
      pc[t] = "deleting" /\ pc[u] \in {"fetch", "lock", "await"} =>
        op[u] = "invoke" /\ bindings[target[u]] \in {"unknown", "stopped"}
================================================================================
