------------------------------ MODULE SdkRuntime ------------------------------
(****************************************************************************)
(* A runtime of the Python SDK with Relay streaming: classes Runtime of     *)
(* nemo_fabric/runtime.py and InvokeStream of nemo_fabric/streaming.py, for *)
(* adapters without Pi correlation.  Tasks of one event loop call it, each  *)
(* stream runs its invocation in a task of its own, native calls run in     *)
(* threads and requests to the collector over HTTP.  A step is what a task  *)
(* does between two awaits.                                                 *)
(****************************************************************************)
EXTENDS Naturals, FiniteSets

CONSTANTS
  Callers,    \* tasks that use the runtime
  Streams,    \* streams that can be made of it
  Requests,   \* request ids, chosen by the callers, so they may be reused
  None        \* "no task", "no stream", "no request"

ASSUME RuntimeAssumption ==
  /\ None \notin Callers \cup Streams \cup Requests
  /\ Callers \cap Streams = {}

VARIABLES
  status,       \* _status
  currentTask,  \* _current_task
  currentStream,\* _current_stream
  closing,      \* _closing
  registered,   \* _registered_requests
  cleanup,      \* cleanup[q]: the cleanup phases of q that are finished
                \* and whether one failed (the three _stream_ sets)
  clientClosed, \* the collector client is closed
  native,       \* "alive" until a native stop succeeded
  collector,    \* collector[q]: what the collector keeps of q
  pc,           \* pc[w]: what caller or stream task w is doing
  request,      \* request[s]: the request of stream s
  ready,        \* ready[s]: registration_ready of s
  finalized,    \* finalized[s]: _finalized of s
  finalizeLock, \* finalizeLock[s]: holder of _finalize_lock
  finishLock,   \* finishLock[s]: holder of _finish_stream_lock
  call,         \* call[c]: the method caller c is in
  stream,       \* stream[c]: the stream it is closing
  raising,      \* raising[c]: it will raise when its cleanup is over
  todo          \* todo[c]: requests its stop has yet to deregister

runtimeVars == <<status, currentTask, currentStream, closing>>
cleanupVars == <<registered, cleanup>>
remoteVars  == <<clientClosed, native, collector>>
streamVars  == <<request, ready, finalized, finalizeLock, finishLock>>
callVars    == <<call, stream, raising, todo>>
vars == <<runtimeVars, cleanupVars, remoteVars, pc, streamVars, callVars>>

Workers == Callers \cup Streams
Phases  == {"outcome", "finalizer"}
Untouched == [done |-> {}, failed |-> FALSE]
Calls   == {"none", "invoke", "next", "aclose", "stop", "exit", "exit_stop"}
StreamPCs == {"unborn", "registering", "invoking", "deleting", "compensating", "done"}
CallerPCs == {"idle", "invoking", "cancel_stop", "finalize_lock", "drain",
              "await_task", "finish_lock", "finalizing", "compensating",
              "close_wait", "exit_stop", "stopping", "deregistering"}

TypeOK ==
  /\ status \in {"active", "stopped", "failed"}
  /\ currentTask \in Workers \cup {None}
  /\ currentStream \in Streams \cup {None}
  /\ {closing, clientClosed} \subseteq BOOLEAN
  /\ registered \subseteq Requests
  /\ cleanup \in [Requests -> [done : SUBSET Phases, failed : BOOLEAN]]
  /\ \A q \in Requests :
       cleanup[q].done # Phases /\ (q \notin registered => cleanup[q] = Untouched)
  /\ native \in {"alive", "gone"}
  /\ collector \in [Requests -> {"none", "open", "queued"}]
  /\ DOMAIN pc = Workers
  /\ \A s \in Streams : pc[s] \in StreamPCs
  /\ \A c \in Callers : pc[c] \in CallerPCs
  /\ request \in [Streams -> Requests \cup {None}]
  /\ ready \in [Streams -> BOOLEAN]
  /\ finalized \in [Streams -> BOOLEAN]
  /\ finalizeLock \in [Streams -> Callers \cup {None}]
  /\ finishLock \in [Streams -> Callers \cup {None}]
  /\ call \in [Callers -> Calls]
  /\ stream \in [Callers -> Streams \cup {None}]
  /\ raising \in [Callers -> BOOLEAN]
  /\ todo \in [Callers -> SUBSET Requests]

Init ==
  /\ status = "active" /\ currentTask = None /\ currentStream = None
  /\ closing = FALSE
  /\ registered = {} /\ cleanup = [q \in Requests |-> Untouched]
  /\ clientClosed = FALSE /\ native = "alive"
  /\ collector = [q \in Requests |-> "none"]
  /\ pc = [w \in Workers |-> IF w \in Callers THEN "idle" ELSE "unborn"]
  /\ request = [s \in Streams |-> None]
  /\ ready = [s \in Streams |-> FALSE]
  /\ finalized = [s \in Streams |-> FALSE]
  /\ finalizeLock = [s \in Streams |-> None]
  /\ finishLock = [s \in Streams |-> None]
  /\ call = [c \in Callers |-> "none"]
  /\ stream = [c \in Callers |-> None]
  /\ raising = [c \in Callers |-> FALSE]
  /\ todo = [c \in Callers |-> {}]

GoTo(w, l) == pc' = [pc EXCEPT ![w] = l]

\* Caller c begins method m, or goes on in it, about stream s.
Enter(c, m, s) ==
  /\ call' = [call EXCEPT ![c] = m]
  /\ stream' = [stream EXCEPT ![c] = s]
  /\ UNCHANGED <<raising, todo>>

\* The method m returns or raises.  Leaving the context closes the client anyway.
Leave(c, m) ==
  /\ GoTo(c, "idle")
  /\ call' = [call EXCEPT ![c] = "none"]
  /\ stream' = [stream EXCEPT ![c] = None]
  /\ raising' = [raising EXCEPT ![c] = FALSE]
  /\ todo' = [todo EXCEPT ![c] = {}]
  /\ clientClosed' = (clientClosed \/ m \in {"exit", "exit_stop"})

Return(c) == Leave(c, call[c])

IsDone(s) == pc[s] = "done"

\* Caller c enters _finalize of s in method m; a free lock is taken at once.
EnterFinalize(c, m, s) ==
  LET free == finalizeLock[s] = None /\ ~finalized[s] IN
  /\ Enter(c, m, s)
  /\ finalizeLock' = [finalizeLock EXCEPT ![s] = IF free THEN c ELSE @]
  /\ GoTo(c, IF free THEN "drain" ELSE "finalize_lock")

NoActiveStream ==
  \A s \in Streams : s = currentStream => finalized[s] /\ IsDone(s)

Invocable == status = "active" /\ ~closing /\ currentTask = None
-------------------------------------------------------------------------------
(* The collector, over HTTP: a request that fails may have been served. *)

\* POST /v1/register
Register(q, ok) ==
  LET opened == [collector EXCEPT ![q] = "open"] IN
  /\ ok => ~clientClosed /\ collector[q] = "none"
  /\ collector' \in {opened} \cup (IF ok THEN {} ELSE {collector})
  /\ collector[q] # "none" => collector' = collector

\* DELETE /v1/deregister-request: a queue that is not removed stays until its
\* reader has drained it.
Deregister(q, removeQueue, ok) ==
  LET removed == [collector EXCEPT ![q] = "none"]
      drained == [collector EXCEPT ![q] = IF @ = "open" THEN "queued" ELSE @] IN
  /\ ok => ~clientClosed
  /\ collector' \in {removed} \cup (IF removeQueue THEN {} ELSE {drained})
                              \cup (IF ok THEN {} ELSE {collector})

\* Slip: the request is given back, what is known of its cleanup stays.
Discard_KeepsPhases(q) ==
  /\ registered' = registered \ {q}
  /\ UNCHANGED cleanup

Discard(q) ==
  /\ registered' = registered \ {q}
  /\ cleanup' = [cleanup EXCEPT ![q] = Untouched]

\* Slip: only the phase that comes last tells whether the cleanup succeeded.
After_LastCounts(q, phase, ok) ==
  [done |-> cleanup[q].done \cup {phase}, failed |-> ~ok]

\* _finish_stream_cleanup_phase: the last of the two phases gives q back, unless
\* one failed and a compensating deregistration has to come first.
After(q, phase, ok) ==
  [done |-> cleanup[q].done \cup {phase}, failed |-> cleanup[q].failed \/ ~ok]

Compensates(q, phase, ok) ==
  /\ q \in registered
  /\ After(q, phase, ok).done = Phases /\ After(q, phase, ok).failed

FinishPhase(q, phase, ok) ==
  IF q \notin registered THEN UNCHANGED cleanupVars
  ELSE IF After(q, phase, ok) = [done |-> Phases, failed |-> FALSE] THEN Discard(q)
  ELSE /\ cleanup' = [cleanup EXCEPT ![q] =
            IF Compensates(q, phase, ok) THEN [Untouched EXCEPT !.failed = TRUE]
                                         ELSE After(q, phase, ok)]
       /\ UNCHANGED registered
-------------------------------------------------------------------------------
(* invoke and invoke_stream *)

Invoke(c) ==
  /\ pc[c] = "idle" /\ NoActiveStream /\ Invocable
  /\ currentTask' = c
  /\ GoTo(c, "invoking")
  /\ Enter(c, "invoke", None)
  /\ UNCHANGED <<status, currentStream, closing, cleanupVars, remoteVars, streamVars>>

\* invoke_stream does not wait: the request is reserved, the task is created.
InvokeStream(c) ==
  /\ pc[c] = "idle" /\ NoActiveStream /\ Invocable
  /\ \E s \in Streams, q \in Requests \ registered :
       /\ pc[s] = "unborn"
       /\ registered' = registered \cup {q}
       /\ request' = [request EXCEPT ![s] = q]
       /\ currentStream' = s
       /\ GoTo(s, "registering")
  /\ UNCHANGED <<status, currentTask, closing, cleanup, remoteVars, ready,
                 finalized, finalizeLock, finishLock, callVars>>

\* Slip: a registration that failed is taken to leave nothing behind.
Outcome_IfReady(s) ==
  IF ready[s] /\ request[s] \in registered THEN "deleting" ELSE "done"

\* The task of s goes on to deregister its request, if it is still reserved.
Outcome(s) == IF request[s] \in registered THEN "deleting" ELSE "done"

\* Slip: the task of the stream relies on the check invoke_stream made.
RegistrationSettles_Unchecked(s) ==
  /\ pc[s] = "registering"
  /\ \E ok \in BOOLEAN :
       /\ Register(request[s], ok)
       /\ ready' = [ready EXCEPT ![s] = ok]
       /\ currentTask' = IF ok THEN s ELSE currentTask
       /\ GoTo(s, IF ok THEN "invoking" ELSE Outcome(s))
  /\ UNCHANGED <<status, currentStream, closing, cleanupVars, clientClosed, native,
                 request, finalized, finalizeLock, finishLock, callVars>>

\* The collector has answered, or not, and the invocation begins if the runtime
\* still is invocable.
RegistrationSettles(s) ==
  /\ pc[s] = "registering"
  /\ \E ok \in BOOLEAN :
       /\ Register(request[s], ok)
       /\ ready' = [ready EXCEPT ![s] = ok]
       /\ currentTask' = IF ok /\ Invocable THEN s ELSE currentTask
       /\ GoTo(s, IF ok /\ Invocable THEN "invoking" ELSE Outcome(s))
  /\ UNCHANGED <<status, currentStream, closing, cleanupVars, clientClosed, native,
                 request, finalized, finalizeLock, finishLock, callVars>>

\* The native invocation of a stream is over.
StreamInvoked(s) ==
  /\ pc[s] = "invoking"
  /\ status' \in {status, "failed"}
  /\ currentTask' = None
  /\ GoTo(s, Outcome(s))
  /\ UNCHANGED <<currentStream, closing, cleanupVars, remoteVars, streamVars, callVars>>

\* The native invocation of a caller is over.  One that was cancelled meanwhile
\* stops the runtime, whatever came of the invocation.
CallerInvoked(c) ==
  /\ pc[c] = "invoking"
  /\ \/ /\ raising[c]
        /\ GoTo(c, "cancel_stop")
        /\ UNCHANGED <<status, currentTask, clientClosed, callVars>>
     \/ /\ ~raising[c]
        /\ status' \in {status, "failed"}
        /\ currentTask' = None
        /\ Return(c)
  /\ UNCHANGED <<currentStream, closing, cleanupVars, native, collector, streamVars>>

\* Slip: the runtime counts as stopped even if the native stop failed.
NativeStop_Assumed ==
  /\ status' = "stopped"
  /\ native' \in {native, "gone"}

\* native.stop_runtime: it stops the runtime, or fails, possibly after it did.
NativeStop ==
  \/ status' = "stopped" /\ native' = "gone"
  \/ status' = "failed"  /\ native' \in {native, "gone"}

CancelStopped(c) ==
  /\ pc[c] = "cancel_stop"
  /\ NativeStop
  /\ currentTask' = None
  /\ Return(c)
  /\ UNCHANGED <<currentStream, closing, cleanupVars, collector, streamVars>>

\* _finish_registered_request of the stream's task: the queue stays for the
\* reader unless the registration itself failed.
OutcomeSettles(s) ==
  LET q == request[s] IN
  /\ pc[s] = "deleting"
  /\ \E ok \in BOOLEAN :
       /\ Deregister(q, ~ready[s], ok)
       /\ FinishPhase(q, "outcome", ok)
       /\ GoTo(s, IF Compensates(q, "outcome", ok) THEN "compensating" ELSE "done")
  /\ UNCHANGED <<runtimeVars, clientClosed, native, streamVars, callVars>>

StreamCompensated(s) ==
  /\ pc[s] = "compensating"
  /\ \E ok \in BOOLEAN :
       /\ Deregister(request[s], TRUE, ok)
       /\ IF ok THEN Discard(request[s]) ELSE UNCHANGED cleanupVars
  /\ GoTo(s, "done")
  /\ UNCHANGED <<runtimeVars, clientClosed, native, streamVars, callVars>>
-------------------------------------------------------------------------------
(* The end of a call that was closing a stream: aclose returned or raised. *)

\* Slip: stop does not look for another one after its await.
StopChecks_Again(c, m) ==
  IF currentTask # None
  THEN Leave(c, m) /\ UNCHANGED closing
  ELSE /\ closing' = TRUE
       /\ GoTo(c, "stopping")
       /\ Enter(c, m, None)
       /\ UNCHANGED clientClosed

\* The checks of stop after its await, then the native stop.
StopChecks(c, m) ==
  IF currentTask # None \/ closing
  THEN Leave(c, m) /\ UNCHANGED closing
  ELSE /\ closing' = TRUE
       /\ GoTo(c, "stopping")
       /\ Enter(c, m, None)
       /\ UNCHANGED clientClosed

\* stop: it refuses while the stream's task runs, and finalizes a stream left
\* unconsumed.  A stopped runtime only closes its collector resources.
BeginStop(c, m) ==
  IF status = "stopped"
  THEN Leave(c, "exit_stop") /\ UNCHANGED <<closing, finalizeLock>>
  ELSE IF currentStream # None /\ ~IsDone(currentStream)
  THEN Leave(c, m) /\ UNCHANGED <<closing, finalizeLock>>
  ELSE IF currentStream # None /\ ~finalized[currentStream]
  THEN EnterFinalize(c, m, currentStream) /\ UNCHANGED <<clientClosed, closing>>
  ELSE StopChecks(c, m) /\ UNCHANGED finalizeLock

Stop(c) ==
  /\ pc[c] = "idle"
  /\ BeginStop(c, "stop")
  /\ UNCHANGED <<status, currentTask, currentStream, cleanupVars, native,
                 collector, request, ready, finalized, finishLock>>

\* __aexit__ closes the active stream; it stops the runtime only if that did
\* not raise.
Exit(c) ==
  /\ pc[c] = "idle"
  /\ IF NoActiveStream THEN BeginStop(c, "exit_stop")
     ELSE /\ EnterFinalize(c, "exit", currentStream)
          /\ UNCHANGED <<clientClosed, closing>>
  /\ UNCHANGED <<status, currentTask, currentStream, cleanupVars, native,
                 collector, request, ready, finalized, finishLock>>

ExitStop(c) ==
  /\ pc[c] = "exit_stop"
  /\ BeginStop(c, "exit_stop")
  /\ UNCHANGED <<status, currentTask, currentStream, cleanupVars, native,
                 collector, request, ready, finalized, finishLock>>

\* What follows an aclose that did not raise.
Closed(c) ==
  \/ call[c] = "aclose" /\ Return(c) /\ UNCHANGED closing
  \/ call[c] = "exit" /\ GoTo(c, "exit_stop") /\ UNCHANGED <<clientClosed, closing, callVars>>
  \/ call[c] \in {"stop", "exit_stop"} /\ StopChecks(c, call[c])
-------------------------------------------------------------------------------
(* InvokeStream: next, aclose, _finalize and _finish_stream *)

\* A reader reaches the end of the records, or closes the stream.
Finalize(c, m) ==
  /\ pc[c] = "idle"
  /\ \E s \in Streams :
       /\ pc[s] # "unborn"
       /\ EnterFinalize(c, m, s)
  /\ UNCHANGED <<runtimeVars, cleanupVars, remoteVars, request, ready, finalized,
                 finishLock>>

\* A reader meets an error and finishes the stream while its turn may go on.
ReadFails(c) ==
  /\ pc[c] = "idle"
  /\ \E s \in Streams :
       /\ ready[s] /\ ~finalized[s]
       /\ Enter(c, "next", s)
  /\ GoTo(c, "finish_lock")
  /\ UNCHANGED <<runtimeVars, cleanupVars, remoteVars, streamVars>>

\* The end of _finalize.  aclose waits for the stream's task after it.
Finalized(c, raises) ==
  IF raises \/ call[c] = "next" THEN Return(c) /\ UNCHANGED closing
  ELSE IF IsDone(stream[c]) THEN Closed(c)
  ELSE GoTo(c, "close_wait") /\ UNCHANGED <<clientClosed, closing, callVars>>

TakeFinalizeLock(c) ==
  LET s == stream[c] IN
  /\ pc[c] = "finalize_lock" /\ finalizeLock[s] = None
  /\ IF finalized[s]
     THEN Finalized(c, FALSE) /\ UNCHANGED finalizeLock
     ELSE /\ finalizeLock' = [finalizeLock EXCEPT ![s] = c]
          /\ GoTo(c, "drain")
          /\ UNCHANGED <<clientClosed, closing, callVars>>
  /\ UNCHANGED <<status, currentTask, currentStream, cleanupVars, native, collector,
                 request, ready, finalized, finishLock>>

\* The records are read to the end, to the timeout or to an error; there are
\* none before the registration.
Drain(c) ==
  LET s == stream[c] IN
  /\ pc[c] = "drain" /\ (ready[s] \/ IsDone(s))
  /\ \/ GoTo(c, "await_task") /\ UNCHANGED raising
     \/ /\ ready[s]
        /\ GoTo(c, "finish_lock")
        /\ raising' = [raising EXCEPT ![c] = TRUE]
  /\ UNCHANGED <<runtimeVars, cleanupVars, remoteVars, streamVars, call, stream, todo>>

\* The task is over; a stream that is not finished yet is finished now.
TaskIsDone(c) ==
  LET s == stream[c] IN
  /\ pc[c] = "await_task" /\ IsDone(s)
  /\ IF finalized[s]
     THEN /\ Finalized(c, raising[c])
          /\ finalizeLock' = [finalizeLock EXCEPT ![s] = None]
     ELSE /\ GoTo(c, "finish_lock")
          /\ UNCHANGED <<finalizeLock, clientClosed, closing, callVars>>
  /\ UNCHANGED <<status, currentTask, currentStream, cleanupVars, native, collector,
                 request, ready, finalized, finishLock>>

\* _finish_stream is over: back to next, or to _finalize, which is over as well
\* if the task of the stream is.
Finish(c, failed) ==
  LET s == stream[c] IN
  /\ finalized' = [finalized EXCEPT ![s] = TRUE]
  /\ finishLock' = [finishLock EXCEPT ![s] = None]
  /\ IF finalizeLock[s] # c
     THEN Return(c) /\ UNCHANGED <<closing, finalizeLock>>
     ELSE IF IsDone(s)
     THEN /\ finalizeLock' = [finalizeLock EXCEPT ![s] = None]
          /\ Finalized(c, raising[c] \/ failed)
     ELSE /\ raising' = [raising EXCEPT ![c] = @ \/ failed]
          /\ GoTo(c, "await_task")
          /\ UNCHANGED <<closing, finalizeLock, clientClosed, call, stream, todo>>

\* Slip: the stream is not looked at again behind the lock.
TakeFinishLock_Unchecked(c) ==
  LET s == stream[c] IN
  /\ pc[c] = "finish_lock" /\ finishLock[s] = None
  /\ finishLock' = [finishLock EXCEPT ![s] = c]
  /\ GoTo(c, "finalizing")
  /\ UNCHANGED <<runtimeVars, cleanupVars, remoteVars, request, ready, finalized,
                 finalizeLock, callVars>>

\* Behind the lock: the stream is finished, has nothing to deregister, or its
\* request is deregistered by this caller.
TakeFinishLock(c) ==
  LET s == stream[c] IN
  /\ pc[c] = "finish_lock" /\ finishLock[s] = None
  /\ IF finalized[s] \/ request[s] \notin registered
     THEN Finish(c, FALSE)
     ELSE /\ finishLock' = [finishLock EXCEPT ![s] = c]
          /\ GoTo(c, "finalizing")
          /\ UNCHANGED <<finalized, clientClosed, closing, finalizeLock, callVars>>
  /\ UNCHANGED <<status, currentTask, currentStream, cleanupVars, native, collector,
                 request, ready>>

FinalizerSettles(c) ==
  LET q == request[stream[c]] IN
  /\ pc[c] = "finalizing"
  /\ \E ok \in BOOLEAN :
       /\ Deregister(q, TRUE, ok)
       /\ FinishPhase(q, "finalizer", ok)
       /\ IF Compensates(q, "finalizer", ok)
          THEN /\ GoTo(c, "compensating")
               /\ raising' = [raising EXCEPT ![c] = @ \/ ~ok]
               /\ UNCHANGED <<finalized, finishLock, finalizeLock, closing,
                              clientClosed, call, stream, todo>>
          ELSE Finish(c, ~ok)
  /\ UNCHANGED <<status, currentTask, currentStream, native, request, ready>>

CallerCompensated(c) ==
  LET q == request[stream[c]] IN
  /\ pc[c] = "compensating"
  /\ \E ok \in BOOLEAN :
       /\ Deregister(q, TRUE, ok)
       /\ IF ok THEN Discard(q) ELSE UNCHANGED cleanupVars
       /\ Finish(c, ~ok)
  /\ UNCHANGED <<status, currentTask, currentStream, native, request, ready>>

CloseWaits(c) ==
  /\ pc[c] = "close_wait" /\ IsDone(stream[c])
  /\ Closed(c)
  /\ UNCHANGED <<status, currentTask, currentStream, cleanupVars, native,
                 collector, streamVars>>
-------------------------------------------------------------------------------
(* The rest of stop *)

\* Whatever came of the native stop, the requests still reserved are next.
Stopped(c) ==
  /\ pc[c] = "stopping"
  /\ NativeStop
  /\ closing' = FALSE
  /\ todo' = [todo EXCEPT ![c] = registered]
  /\ GoTo(c, "deregistering")
  /\ UNCHANGED <<currentTask, currentStream, cleanupVars, clientClosed, collector,
                 streamVars, call, stream, raising>>

StopDeregisters(c) ==
  /\ pc[c] = "deregistering"
  /\ \E q \in todo[c] :
       /\ todo' = [todo EXCEPT ![c] = @ \ {q}]
       /\ \/ /\ q \in registered
             /\ \E ok \in BOOLEAN :
                  /\ Deregister(q, TRUE, ok)
                  /\ IF ok THEN Discard(q) ELSE UNCHANGED cleanupVars
          \/ /\ q \notin registered
             /\ UNCHANGED <<collector, cleanupVars>>
  /\ UNCHANGED <<runtimeVars, clientClosed, native, pc, streamVars, call, stream, raising>>

\* _close_streaming_resources
StopCloses(c) ==
  /\ pc[c] = "deregistering" /\ todo[c] = {}
  /\ Leave(c, "exit_stop")
  /\ UNCHANGED <<runtimeVars, cleanupVars, native, collector, streamVars>>
-------------------------------------------------------------------------------
(* Cancellation of a caller by its owner *)

\* Shielded work goes on; the caller raises when it is over.
CancelShielded(c) ==
  /\ pc[c] \in {"invoking", "cancel_stop", "finalizing", "compensating", "stopping"}
  /\ raising' = [raising EXCEPT ![c] = TRUE]
  /\ UNCHANGED <<runtimeVars, cleanupVars, remoteVars, pc, streamVars, call, stream, todo>>

\* Slip: a cancelled caller keeps its lock.
CancelWait_KeepsLock(c) ==
  /\ pc[c] \in {"finalize_lock", "drain", "await_task", "finish_lock",
                "close_wait", "deregistering"}
  /\ Leave(c, IF pc[c] = "deregistering" THEN "exit_stop" ELSE call[c])
  /\ UNCHANGED <<runtimeVars, cleanupVars, native, collector, streamVars>>

\* Other waits are given up, and locks with them.
CancelWait(c) ==
  /\ pc[c] \in {"finalize_lock", "drain", "await_task", "finish_lock",
                "close_wait", "deregistering"}
  /\ finalizeLock' = [s \in Streams |-> IF finalizeLock[s] = c THEN None
                                        ELSE finalizeLock[s]]
  /\ Leave(c, IF pc[c] = "deregistering" THEN "exit_stop" ELSE call[c])
  /\ UNCHANGED <<runtimeVars, cleanupVars, native, collector, request, ready,
                 finalized, finishLock>>
-------------------------------------------------------------------------------
StreamStep(s) ==
  \/ RegistrationSettles(s) \/ StreamInvoked(s)
  \/ OutcomeSettles(s) \/ StreamCompensated(s)

\* What a caller does in a call it has made.
CallerStep(c) ==
  \/ CallerInvoked(c) \/ CancelStopped(c)
  \/ TakeFinalizeLock(c) \/ Drain(c) \/ TaskIsDone(c)
  \/ TakeFinishLock(c) \/ FinalizerSettles(c) \/ CallerCompensated(c)
  \/ CloseWaits(c) \/ ExitStop(c)
  \/ Stopped(c) \/ StopDeregisters(c) \/ StopCloses(c)

\* Calls and cancellations, as their owners like.
Begin(c) ==
  \/ Invoke(c) \/ InvokeStream(c) \/ Stop(c) \/ Exit(c)
  \/ Finalize(c, "next") \/ Finalize(c, "aclose") \/ ReadFails(c)
  \/ CancelShielded(c) \/ CancelWait(c)

Next ==
  \/ \E s \in Streams : StreamStep(s)
  \/ \E c \in Callers : CallerStep(c) \/ Begin(c)

Spec == Init /\ [][Next]_vars

\* The event loop runs, HTTP requests and native calls end, a lock that comes
\* free again and again is had (asyncio locks are fair).
FairSpec ==
  /\ Spec
  /\ \A s \in Streams : WF_vars(StreamStep(s))
  /\ \A c \in Callers : SF_vars(CallerStep(c))
-------------------------------------------------------------------------------
(* Properties *)

InNative(w) == pc[w] \in {"invoking", "cancel_stop", "stopping"}

\* The native runtime is entered by one task at a time: an invocation, or a
\* stop, whether it was asked for or follows a cancelled invocation.
OneNativeCall == \A v, w \in Workers : InNative(v) /\ InNative(w) => v = w

\* A runtime is not stopped or failed under an invocation.
InvocationIsUndisturbed ==
  \A w \in Workers : pc[w] = "invoking" => status = "active" /\ ~closing

\* The status tells what became of the native runtime: a stopped one is gone,
\* and an active one is not, unless its stop is about to be reported.
StatusIsHonest ==
  /\ status = "stopped" => native = "gone"
  /\ status = "active" => native = "alive"

\* What the collector keeps of a request is still to be deregistered by someone,
\* while the runtime is in service.
RegistrationIsOwned ==
  status = "active" =>
    \A q \in Requests \ registered : collector[q] = "none"

\* A request id is given back when its stream is over: finalized once and its
\* task done.  What stays reserved is one whose cleanup failed.
ReservationEnds ==
  \A q \in registered :
    \/ cleanup[q].failed
    \/ \E s \in Streams : request[s] = q /\ ~(finalized[s] /\ IsDone(s))

\* A stream is finished once: no two callers are in its on_finalize, and none
\* after it.
FinalizedOnce ==
  \A c \in Callers : pc[c] \in {"finalizing", "compensating"} =>
    ~finalized[stream[c]] /\ finishLock[stream[c]] = c

\* Every call returns, if the calls it makes do.
CallsReturn == \A c \in Callers : pc[c] # "idle" ~> pc[c] = "idle"

\* runtime.py: "cannot stop while a streaming invocation is active"
StopsOnlyIdle ==
  \A c \in Callers : pc[c] = "stopping" =>
    \A s \in Streams : pc[s] \in {"unborn", "done"}

\* client.py: "Use it as an asynchronous context manager to guarantee runtime
\* shutdown."  (A cancelled exit is not counted.)
ExitStops ==
  [][\A c \in Callers :
       /\ call[c] \in {"exit", "exit_stop"} /\ call'[c] = "none"
       /\ ~CancelWait(c)
       => status' # "active"]_vars
==============================================================================
