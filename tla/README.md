# NeMo Fabric in TLA+

NeMo Fabric starts agent harnesses (Claude Code, Codex, Deep Agents, ...) behind
one lifecycle: *start* a runtime, *invoke* it, *stop* it. This directory holds
TLA+ models of the parts of it that keep state while several actors act, the
TLC configurations that check them on small instances, and TLAPS proofs of
their most important properties for every instance. Paths are relative to the
root of the repository; `RT/` is `sdk/python/nemo-fabric-runtime/src/nemo_fabric/`.

## The system

| Component | State | Operations | Interacts by |
| --- | --- | --- | --- |
| Local adapter hosts, `crates/fabric-core/src/runtime.rs` | maps `LOCAL_HOSTS` and `LOCAL_HOST_PROCESSES`, one mutex per host process | `start_local_runtime`, `invoke_local_runtime`, `stop_local_runtime` | threads of the caller; one JSON line per request over stdin/stdout of a host process |
| Prepared services, same file | map `LOCAL_SERVICES`, one record and mutex per service | `prepare_service`, `start_runtime_with_service`, `stop_runtime`, `release_service` | share host processes and locks with the above |
| Adapter host loop, `adapters/python/common/.../lifecycle.py`, and its TypeScript twin | started target, pending request | start, invoke, stop, health | answers the lines of fabric-core |
| Runtime server, `RT/runtime_server/state.py` | records of runtimes with lock, state and generation; start lock; two flags | handle start, invoke, stop, check; shutdown | tasks of one event loop, native calls in worker threads |
| Its transport, `RT/runtime_server/transport.py` | lock file, uncertainty marker, socket | serve, request_stop, exec | files of the sandbox that outlive the process |
| Python SDK handle, `RT/runtime.py`, `RT/streaming.py` | status, active task, active stream, pending registrations | invoke, invoke_stream, stop | asyncio tasks, native calls in threads, collector over a Unix socket |
| Stream collector, `.../nemo_fabric_collector/app.py` | requests, queues of events, subscribers | register, post event, stream, finalize | HTTP from harness and SDK |
| Check registry, `crates/fabric-core/src/check.rs` | live registrations with generations | register, check, invalidate | threads |
| Runtimes in sandboxes, `crates/fabric-core/src/runtime/openshell.rs`, `environment.rs` | bindings of runtimes to sandboxes; table of worker processes | claim, start, invoke, stop, release | threads of the caller; one JSON line per request to a worker, which asks the gateway to run a command |
| OpenShell provider, `environment-providers/openshell/src/lib.rs` | none between requests: a handle carries name and id | prepare, attach, command, release | calls by name to a gateway other clients use too |
| Sampling, `system_stats/sampling.rs` | sampler thread, stop flag | start, tick, finish | a thread and a channel |
| Configuration, plans, bindings, CLI, adapters, examples | none that is shared | | |

What makes these correct, and what is hard about it, is listed per line of the
code under `hazards` in `PROJECT.json`. In short:

* *Local hosts.* Responses carry no request id, so the one-at-a-time discipline
  of the host mutex and the killing of every host whose answer is still due are
  what keeps an answer from reaching the wrong caller. A host is in two maps and
  a service record; each is updated under its own lock while other threads stop,
  invalidate, release. Processes must not be lost when any of it fails.
* *Ownership of a sandbox.* The server may crash, or be ended by its watchdog,
  between any two system calls. What it leaves on disk must tell the next server
  the truth about processes it may have left running.
* *Runtime server.* Requests about one runtime queue on its lock, and are judged
  by state that has changed meanwhile; shutdown runs concurrently with them.
* *SDK handle.* Any task may call any method at any time and be cancelled in
  it. A stream is read, closed, stopped and left by several tasks while its own
  task registers, invokes and cleans up; its request is deregistered in two
  phases, each of which may fail, by whoever finishes first and last.
* *Collector.* Pi attaches no request id to its records: whoever holds the lease
  gets them. Records, registrations and deregistrations come in any order, and a
  request id may be used again.
* *Sandboxes.* Answers about them get lost. What a start, stop or release that
  was not answered has done is unknown, and must not be taken for known; a name
  may have been given to another sandbox since its id was checked.

## Modules

| Module | Models | Extends or uses |
| --- | --- | --- |
| `HostSession` | the lifecycle contract of one adapter host (`docs/adapter-contract`): the abstract specification | |
| `LocalHosts` | local hosts and services of fabric-core and the host processes they talk to | implements `HostSession` (`SessionOrder`) |
| `LocalHostsProofs` | its types and `ReachableRuntimeHoldsService` | `LocalHosts` |
| `LocalHostsExchangeProofs` | the maps, the exchanges and the refinement of `HostSession` | `LocalHostsProofs` |
| `HostOwnership` | the serving side of `transport.py`: lock, marker, socket, shutdown, crash, restart | |
| `HostOwnershipProofs` | its theorems | `HostOwnership` |
| `RuntimeServer` | `state.py`: class `RuntimeServer` | |
| `RuntimeServerProofs` | its theorems | `RuntimeServer` |
| `SdkRuntime` | `RT/runtime.py`, class `Runtime`, and `RT/streaming.py`, class `InvokeStream` | |
| `SdkRuntimeProofs` | its theorems | `SdkRuntime` |
| `PiCollector` | `app.py`: class `AtofCollector` with Pi's turn windows, and the requests of `RT/runtime.py` to it | |
| `PiCollectorProofs` | its theorems | `PiCollector` |
| `OpenShellRuntimes` | `runtime/openshell.rs` and the worker processes of `environment.rs` | |
| `OpenShellRuntimesProofs` | its theorems | `OpenShellRuntimes` |
| `OpenShellProvider` | `environment-providers/openshell/src/lib.rs` against its gateway | |
| `OpenShellProviderProofs` | its theorems | `OpenShellProvider` |
| `MC`*module* | the instance of a module for TLC (symmetry, values of constants) | *module* |

`PROJECT.json`, `map`, names the lines each definition stands for. An operator
named `X_Y` beside an operator `X` is a slip: `X` with a plausible error. It is
used by no specification; each property is known to be broken by one of them
(`mutants`).

### LocalHosts

A thread (`pc`, `target`, `answer`) performs one call at a time; a step is what
it does between two points where other threads can matter: taking a mutex,
writing a request, receiving the answer, killing. `hostLock[h]` is the mutex in
`Arc<Mutex<LocalHost>>`, `recordLock[s]` the one of a service record,
`servicesLock` the one of `LOCAL_SERVICES`; `hosts`, `processes` and `services`
are the key sets of the maps. The two host maps are locked for single
operations, so those locks are not variables. `proc`, `inbox` and `outbox` are a
host process and its pipes; it may answer, fail, die or fall silent at any time
(`HostServes`, `HostFails`).

What a host becomes depends on where an answer comes from (`Became`,
`lifecycle.py`). A start that failed in the adapter ends the process with its
error answer (`should_stop`). One that failed around the adapter's start (the
runtime factory, the evidence collected afterwards) or whose good answer could
not be encoded is answered with an error by a host that runs on, with or without
a runtime: `proc` is `"rejected"`. Only its start can reach such a host, and ends
it (`StartKill`, `PrepareKill`); if that kill fails it stays. In `HostSession`
that is a stage of its own, from which a host can only be closed.

A start on a service takes the runtime's mutex while it holds the record's, to
read the evidence of the host (`runtime.rs:1053-1064`). That is done only with
provenance; the model always does it, in the step that registers the runtime
(`StartRegister`), because it is an edge in the order of locks which
`EveryCallReturns` is about. Not modelled: `prepare_service` may return between
the good answer and the insertion when `service_binding` fails
(`runtime.rs:1184`) and would drop the started host unkilled. It fails only if
serialising the plan fails, which has succeeded for the same plan by then, in
`runtime_binding`.

Abstractions: a request is who asked and what for, an answer repeats it with
ok or error. Runtime ids are drawn afresh (`StartRuntime` takes one never used).
A timeout may happen whenever a thread waits. A request is written in one step;
the real write has no timeout (`runtime.rs:2877`) and blocks when the request
exceeds the pipe and the host does not read. `EveryCallReturns` is about
requests that fit. The OS error of `try_wait` is not distinguished from exit.

### HostOwnership

A server is a process that runs `serve()` once, line by line, `pc[s]` naming the
next system call. `lock`, `marker`, `socket` are the files; the marker holds the
lifecycle id that was written or is `Empty`, as between `O_CREAT` and `write`.
`lifecycle` numbers the lifecycles of the sandbox (its supervisor's start time),
`leftovers` are the servers whose harness processes may be alive. `starting`,
`used`, `before` summarise the start path of `RuntimeServer.handle`, the part
the files depend on. `Crash` and `WatchdogFires` end the process at any step. A
new lifecycle begins only with a fresh set of processes. At its end `serve()`
cancels the watchdog, after an orderly shutdown only, and closes the lock file
(`Exit`); then the interpreter joins the threads of its executors (`Join`), which
may still run a health check (`checking`): a check holds no lock that the shutdown
looks at. Failures before the socket is bound exit; no request is handled before
the marker is written.

An empty marker, left by a crash inside `Mark`..`Write`, or one of this
lifecycle blocks every later server until an operator clears it. That is by
design; no property says otherwise.

### RuntimeServer

Handler tasks of one event loop; a step is what a task does between two awaits.
`owner[r]` is `OwnedRuntime.lock`, `startLock` is `_start_lock`. `records` has
the keys of the dictionary and `order` their insertion order, since eviction takes
the first stopped entries.
`status[r]` is the status of the SDK's `Runtime`, which a failed invocation or
stop turns to `failed`. `alive`, `orphan`, `effects` are about the world: which
runtimes live, whether one lives that nobody knows of, whether any native start
had effects. The cancellation of handlers at the end of `serve()` takes the
same paths as a failure of the call (`StartFails`, `StopFails`,
`InvokeReturns`).

After 128 later stops a stopped runtime's record is evicted and a repeated stop
is answered `runtime_unavailable`, not as a no-op. `LastStopIsRemembered` says
what remains true: eviction starts with the ones stopped first. A check holds no
lock; `Changed` compares the record with what it was before the probe, and
`PassedRuntimeServes` says what this achieves. It does not notice an SDK status
that a concurrent invocation turned to failed meanwhile.

### SdkRuntime

Callers are tasks that use one `Runtime` with a collector client; a stream runs
`_invoke_registered_payload` in a task of its own. `pc[w]` is where a task
awaits, `call[c]` the method a caller is in, since `stop` and `__aexit__` go on
after an `aclose`. `finalizeLock` and `finishLock` are the two locks of a stream.
`cleanup[q]` collects the three sets of cleanup phases of a request.
`collector[q]` is what the collector keeps of a request, `native` whether the
native runtime lives; both are external and behave as `runtime.py` expects: a
request or a native stop that fails may have taken effect all the same.
Cancelling a caller that waits for shielded work only makes it raise when the
work is over (`CancelShielded`); other waits are given up at once
(`CancelWait`).

Abstractions, all towards more behaviours: a lock that is free is taken ahead of
its waiters, a wait for a lock that is free may be delayed, `__aexit__` may be
interrupted between its `aclose` and its `stop`, and a DELETE on a closed
collector client may have been served before it closed. Left out: Pi
correlation (its tokens, boundaries and the invocation that is registered
without a stream), OpenAI streams, cancellation of a stream's own task, errors
from closing the record reader in `_finish_stream`. Request ids are the
callers', so the same id may come twice.

That a runtime is stopped natively only once is not claimed: two calls of
`stop` may both wait for the stream to close, and the second stops the stopped
runtime again. `OneNativeCall` says what holds: never both at a time, nor
beside an invocation.

### PiCollector

The calls of one runtime run one after the other; `Request[c]` is the id call
`c` uses. `state[c]` and `queue[c]` are the objects the collector keeps for it,
which `current` and `routed` name while it is registered; a token is right when
`current` names the call (`IsCurrent`). `owner` is the boundary lease, `turnSeq`
the fence, `recovery` what is known of it. No body under `state_lock` awaits
anything, so the lock is never held where a task is suspended and taking it never
suspends: a step is what a handler does between two awaits, and the one wait of a
deregistration is that for the completion (`DeregisterWaits`). It ends with the
completion or by its timeout in the same step that ends the lease. `wire` is what Pi's publisher sent and the collector has not read,
in order; records may be lost, and read at any later time. `client`, `post` and
`delete` are the SDK: a registration or deregistration may fail although it is
handled, now or later. `blocked` is a route that waits for room in a queue.

A plain call is released by one deregistration, a stream by that of its outcome
and that of its finalizer, in either order, and by a third when one failed. The
records of a call are a turn start, one other record and the completion, or part
of them; the count a result reports is that of all turns so far.

Two things the properties leave out on purpose. `docs/sdk/python.mdx` promises
that late output is discarded before the next invocation; the code does so for a
call that ended with a count or in quarantine, while a call that raised, or said
it had begun no turn, is released without a fence (`app.py:420-423`), and records
of it that are still under way are taken for the next call's. Among them may be
the completion: the next call then ends with it, before its own records arrived,
and these go to the call after. A release without a fence can so cost every later
call its window, also where `app.py:645-647` says that "serialized leases
guarantee" the first turn start or marker to be the invocation's own.
`RecordsStayInTheirWindow` states what holds: a record in a foreign queue has
such a release at or before its own call. And a compensation does not
remember the token of a registration it did not find (only a release does), so a
POST that is handled after it takes a lease nobody ends;
`ForgottenLeavesNothing` is about calls that ran or whose release was handled.

### OpenShellRuntimes

`bindings` is the entry of `BINDINGS` for one sandbox: runtimes, and the three
reserved keys. A thread's call is a claim under the map's lock, the exchange
through a worker process (`Fetch`, `Send`, the answer or its loss, `Drop`,
`Retire`: a worker that took too long is killed under its lock, one that broke
the protocol is let go, dropped from the table and then retired), and the settlement under the lock again. `table` is
`OPEN_SHELL_RUNTIME_PROCESSES`, `lock[w]` the mutex of a worker. What is outside:
`served`, the runtimes the server in the sandbox keeps alive, `late`, the
commands that nobody waits for and that may still be executed, and `sandbox`.
A call that is refused because of a binding changes nothing and is no step. That
a release which reports success means that an owned sandbox is gone
(`ProviderReleases`) is what `OpenShellProvider` shows (`ReleasedMeansGone`).

Observed and outside the properties: a release is admitted between the step that
marks a start as uncertain and the one that binds its runtime, and then puts the
older entry back; this needs a sandbox that is gone, for the runtime to be
bound. An invocation that a stop overtook, and whose stop then failed, leaves an
unknown state, which admits a release while it runs: `ReleaseMeetsNoCommand`
names that exception. The worker of a start that failed stays in the table for
ever under a key nobody uses again.

### OpenShellProvider

One sandbox name. `job[e]` and `pc[e]` say what is done for environment `e` and
how far it is, `bound[e]` is the id its handle carries, `named` the sandbox the
name resolves to, `phase` and `label` the gateway's. `creating` and `pending` are
calls on their way: the gateway may execute them at any time, waited for or not
(`Abandon`). `known[e]` remembers which sandboxes there were when `Get` checked
the id, to state what a check is worth. The requests of several environments
interleave as those of several host processes do; one host serialises them.

Identity is checked by one call and acted upon by the next, by name, so a sandbox
that takes the name in between is hit: the repository's test
`release_preserves_a_same_name_replacement` (`lib.rs:3252`) replaces it before
the check. `ChecksProtectReplacements` states what the check achieves. A sandbox
that was replaced can never be released: every release ends with
`sandbox_identity_changed`. A create that takes effect after the prepare looked
for its sandbox leaves one behind (`late`), and so may a prepare whose process
the host killed (`"lost"`); neither is reported as an unconfirmed cleanup.

## Runs

| Run | Instance | Shows |
| --- | --- | --- |
| `LocalHostsSafety` | 3 threads, 2 runtimes, 1 service; three threads meet on one runtime, two on two | `TypeOK`; `OwnAnswers`: whoever waits reads only its own answer; `NoOrphanHost`: a live process is in a map or in some thread's hands; `ReachableRuntimeHoldsService`, `SnapshotTableAgrees`, `DroppedServiceIsOver`; `SessionOrder`: refinement of `HostSession` |
| `LocalHostsLiveness` | 2 threads, 1 runtime, 1 service, 1 failing kill | `EveryCallReturns` under `FairSpec` |
| `LocalHostsReleaseInUse` | 3 threads, 1 runtime, 1 service | violated: see Findings |
| `HostOwnership` | 3 servers, 2 lifecycles | `TypeOK`, `CleanSandbox`: whoever serves does so in a sandbox without leftovers; `SocketIsServed`; `UseIsMarked`; `ExitIsBounded` under `FairSpec` |
| `RuntimeServerSafety` | 2 handlers and shutdown, 3 runtimes, 2 stopped records, 3 stops of each | `TypeOK`, `StopIsFinal`, `PassedRuntimeServes`, `LivingRuntimeIsAddressed`, `LastStopIsRemembered`, `EffectsAreUse`, `OrderlyShutdownIsComplete` |
| `SdkRuntimeSafety` | 2 callers, 2 streams, 2 requests | `TypeOK`, `OneNativeCall`, `InvocationIsUndisturbed`, `StatusIsHonest`, `RegistrationIsOwned`, `ReservationEnds`, `FinalizedOnce` |
| `SdkRuntimeLiveness` | 2 callers, 1 stream, 1 request | `CallsReturn` under `FairSpec` |
| `SdkRuntimeStopInUse` | 2 callers, 2 streams, 1 request | violated: see Findings |
| `SdkRuntimeExit` | 1 caller, 2 streams, 1 request | violated: see Findings |
| `PiCollector` | 2 calls with one request id, the second a stream; 1 record in a queue; 1 failing request | `TypeOK` (with the bound of the queues); `RunningHoldsLease`: the running invocation keeps its lease; `RecordsStayInTheirWindow`: only a release without a fence lets records into another call's queue; `ForgottenLeavesNothing` |
| `OpenShellRuntimes` | 2 threads, 2 runtimes, 3 workers | `TypeOK`; `OrphanBlocksStarts`: as long as a runtime may exist that nobody knows, no start is admitted; `ConfirmedStatesAreTrue`; `ReleaseMeetsNoCommand` |
| `OpenShellProvider` | 2 environments, 4 sandboxes, 2 calls on their way | `TypeOK`; `ChecksProtectReplacements`; `ReleasedMeansGone`; `FailedPrepareLeavesNothing` |

Bounds. Three threads are an invocation, a stop that waits for it and a third
call that meets both (a second stop, a release, a new invocation); two runtimes
make one service shared and one map hold two entries. Three servers over two
lifecycles give a crashed server, one that finds its files, in the same
lifecycle or the next, and one that meets the second; lifecycle ids only matter
by being equal or not. Three runtimes
exceed `MaxStopped = 2` by one, so eviction happens (the code's constant is
128). `MaxGeneration` bounds the stops requested of one runtime.
`MaxKillFailures` bounds failing kills: it is 0 in the safety runs of
`LocalHosts`, since a kill that fails does leave a process nobody holds and a
handle that may answer late (`NoOrphanHost`, `OwnAnswers` and `SessionOrder`
are claims about kills that work), and 1 in the liveness run. Two callers of
`SdkRuntime` are one inside a method and one that gets in its way; two streams
are one that is closed and its successor, with the same request id or another.
Two calls of `PiCollector` are one whose records and deregistrations come late
and one that they meet; the first may be plain or a stream, with the same id,
which is the harder case for the tokens. A queue of one record makes routes wait.
Three calls are needed for a release to reach the call after the next; that
instance, with `LastCall = 3` and `MaxFaults = 0`, has 6.4 million states and was
checked by hand, `Windows` included. The collector keeps at most 1024 tombstones
and 1024 cancelled tokens (`_MAX_PI_COMPLETION_TOMBSTONES`,
`_MAX_CANCELLED_REGISTRATION_TOKENS`); the model keeps all.
Two threads of `OpenShellRuntimes` are a command and a release, a stop or a start
in its way (three threads on one runtime were checked too); three workers are
one more than two threads use at a time. Four sandboxes are the two of the
environments and two of others, before and after them.

Deadlock is checked for `LocalHosts` (`Rest` stands for no caller calling) and
`SdkRuntime` (its methods can be called for ever) and `OpenShellRuntimes`. The
others end: servers are `gone`, `serve()` is over, the calls of `PiCollector` and
the sandboxes of `OpenShellProvider` are used up.

Fairness. `LocalHosts`: strong fairness of each thread's own steps. A thread
waiting for a mutex may lose it to others again and again; the mutexes of the
standard library wake waiters and critical sections are finite, so one that
comes free again and again is had in the end. Waits for answers have timeouts,
so a thread in one of them always can go on. Nothing is assumed of hosts or
callers. `HostOwnership`: weak fairness of the server's own steps, of
the watchdog, which is a timer thread, and of the end of a health check. Nothing
is assumed of native starts, callers or the supervisor. The watchdog is armed by
`request_stop` and cancelled only by a shutdown that has completed
(`transport.py:372-373`), when no native start is under way any more
(`StartsAreWatched`); what the exit still waits for then is a check, and
`fabric-core` gives every check the deadline of its request (`probe_target` in
`check.rs`). So the exit is bounded, but by that deadline, which the caller
chooses, and not by the four seconds of which `runtime_server/README.md:83`
says that they bound it "when native worker threads remain active".
`SdkRuntime`: weak fairness of the stream's task (the event loop
runs, HTTP requests have timeouts, native calls return) and strong fairness of
a caller inside a method, since asyncio's locks are handed to their waiters in
order. Nobody has to call anything.

## Proofs

Each proof module defines `IInv`, shows `Init => IInv`, one lemma per action
that `IInv` is preserved, and concludes `Spec => []IInv` and the theorems.
Assumptions are the `ASSUME`s of the modules: ids are distinct from `None`, the
bounds are naturals.

* `LocalHostsProofs`: `TypeCorrect`, `ServiceHeld`. That a reachable runtime has
  an active service is not inductive. A runtime enters `LOCAL_HOSTS` before its
  id joins the users of its service, and a release only looks at the users.
  `IInv` therefore says who owns a record's mutex (the thread between
  `StartLocked` and `StartRegister`, or the one in a release) and that a
  reachable runtime is among the users *or* its starting thread owns the record.
* `LocalHostsExchangeProofs`: the other properties of `LocalHostsSafety`, on top
  of that `IInv`. `MapsInv` says what each start and stop has already put into or
  taken out of the two maps, and that a host has a process from the moment its id
  is drawn; `SnapshotTableAgrees` and `DroppedServiceIsOver` follow whatever kills
  fail. `OwnAnswers` and `NoOrphanHost` are proved of every state before the first
  kill that fails, whatever `MaxKillFailures` allows, and `SessionOrder` of the
  behaviours without one, by `PipesInv`: whoever exchanges with a host holds its
  mutex or its record, so a host whose mutex is free is in no exchange and has
  empty pipes, and the first request put there finds nothing that could answer in
  its place. That is inductive because a call that timed out lets go of the mutex
  only after the process is gone. `Fresh`, proved along with it, is about hosts that
  have not accepted a start, the rejected ones included: no handle names them, no
  record is in a map, and their start does not take them for ready, because the
  only answer they can have in their pipe is an error. So nothing is sent to a
  host that rejected its start. After a failed kill `PipesInv` is not true: an
  invocation that already waited for the mutex sends to the process that is left.
* `HostOwnershipProofs`: `TypeCorrect`, `SandboxIsClean`, `SocketServed`,
  `LeftoversAreMarked`, and `StartsAreWatched`, which `ExitIsBounded` rests on:
  after the request to stop a native start under way has the watchdog armed until
  the process is gone. `IInv` ties the lock to the one server between claim and
  exit, the marker to its writer and lifecycle, the flag `used` to what has been
  left, and `clean` to there being nothing left.
* `RuntimeServerProofs`: all properties of the run, and `CallsAreSerial`. `IInv` ties
  each lock to the tasks between its acquisition and release (`StartIsAlone`,
  `CallsAreLocked`, `MainIsLocked`), a runtime's generation to its state
  (`RunningIsFresh`, `ChecksAreFresh`) and its state to whether it lives and has a
  record (`LivesAreKnown`). `ShutdownIsAlone` says that a shutdown past its first
  look meets no call and has every living runtime on its list, or a failure.
  `DictAfterStop` is about eviction: what was just stopped is last, no stopped
  record comes after it, so it stays.
* `SdkRuntimeProofs`: all safety properties of `SdkRuntimeSafety`. The key of `IInv` is `OneStream`: every stream but the
  current one is finalized and its task done, so whoever cleans up works for the
  current one. A reservation whose cleanup has not failed is then the current
  stream's, with exactly the phases finished that the stream has finished
  (`PhasesAreTracked`), and the collector keeps nothing of a request after a
  finalizer succeeded (`CollectorIsTracked`), since a stream is finished only
  after its registration was answered (`RegisteredFirst`). `Moved` says what
  the ways out of a method, which many actions share, do.
* `PiCollectorProofs`: `TypeCorrect`, `RunningKeepsLease`, `NothingIsLeft`. `Lease`
  says that the records go to the call that owns the lease, if any, and that its
  queue is open unless its consumer has left. Per call, `Registration`,
  `Progress`, `Deregistered` and `Forgotten` relate what the SDK has sent and knows
  to what the collector keeps: after a handled outcome the call is not routed,
  and a registration still under way will find its token cancelled; after a
  handled finalizer its queue is closed and empty, and who keeps the lease beyond
  that has yet to hear of the outcome. `RecordsKeepToTheirWindow` needs a second
  invariant, `Windows`, about every record that is still to be read or put and
  whose call is `Clean`, without a release up to it. If the call owns the lease,
  its completion has not been seen. If not, the record is behind the fence (`Fence`:
  its turn is not new, its completion is a tombstone, or in recovery mode only a
  turn is accepted), and the owner has accepted nothing yet. That is inductive
  because records come in the order of their calls, each completion last
  (`Order`): once the owner saw a completion, its own or one let through by a
  release, nothing clean is left to come, and the lease may end where the records
  say. Where it ends without that, a reported count is beyond every turn sent so
  far (`Sent`), so it fences them all, and without a valid count nothing is
  accepted at all. `Clean` is part of the invariant, not an assumption: it is how
  the property tells the records a release let through.
* `OpenShellRuntimesProofs`: all properties of the run. The invariant speaks of a
  sandbox that is up. `Starts` and `Unbound` say that one start at a time is
  between claim and end, and that a runtime served but not bound is either the
  one this start will bind or covered by the record of an uncertain start;
  `CommandsOwn` and `Bound` that a command belongs to its binding until a stop
  overtakes it. A failed release puts back what it read before its call, so
  `Releases` keeps that this is still true then, and `DuringRelease` that what
  runs meanwhile cannot change it.
* `OpenShellProviderProofs`: all properties of the run. `ReleasedMeansGone` needs
  that an answer `absent` is only pending while the bound sandbox is gone
  (`AbsentIsGone`), that an answer belongs to the one call that is waited for
  (`Unanswered`, `Waiting`), and that one sandbox at most bears an environment's
  label (`Labels`), for what its prepare made is then what its lookup finds.
  `Checks` says what was known when an id was checked: while a request has not
  sent its call, a sandbox known at the check has the name only if it is the
  bound one, since no sandbox gets a name twice.

Model-checked only: liveness (`EveryCallReturns`, `ExitIsBounded`,
`CallsReturn`), which is beyond TLAPS.

## Findings

`LocalHostsReleaseInUse`. `crates/fabric-core/src/error.rs:258` says of
`ServiceInUse`: "A service cannot be released while runtimes still use it." An
invocation runs; a first `stop_runtime` removes the host from `LOCAL_HOSTS` and
waits for its mutex; a second finds no host, reports `already_stopped` and
removes the runtime from the service's users; `release_service` sees no user and
stops the service under the invocation.

`SdkRuntimeStopInUse`. `RT/runtime.py:797`: "cannot stop while a streaming
invocation is active". `stop` looks at the stream before it awaits the close of
an unconsumed one, and not again. A reader finalizes a stream; a second task
calls `stop`, which waits for the finalize lock; the reader returns and calls
`invoke_stream`, which is admitted; `stop` goes on and stops the runtime while
the new stream's task registers its request.

`SdkRuntimeExit`. `RT/client.py:424-425`: "Use it as an asynchronous context
manager to guarantee runtime shutdown." `__aexit__` closes the active stream
and stops the runtime in one `try`. If the close raises, because the collector's
stream or a DELETE failed, the stop is skipped and the runtime stays active.

## Not modelled

The TypeScript host and ACP runner and the Relay gateway are planned, see below.
The check registry and sampling have too little state of their own: a check
compares the counter of the registration it began with when it ends, and a
sampler thread is told to stop and joined. Of `PiCollector`, routing by request
id (harnesses other than Pi), limits in bytes and HTTP are left out; of the
OpenShell components, checks, inspection and artifacts.
Configuration, planning and descriptors are sequential transformations of
documents. Bindings and the CLI keep no state. The adapters proper translate
the APIs of the harnesses. Formats, logging, telemetry and artifacts are left
out of all models.

## Plan

1. The composition of `PiCollector` with the stream of `SdkRuntime`, which is now
   repeated there in the part that sends requests: the records a caller gets are
   the accepted ones, in order.
2. `AdapterHost`: the host loop with signals and health, replacing the free
   host process of `LocalHosts` in a composition.
3. `HostOwnership` with `RuntimeServer`: that the three-valued summary of the
   start path is implemented by `RuntimeServer`.
4. Proofs: which exchanges of `LocalHosts` are still in order after a kill has
   failed, and the theorems of the compositions above.
