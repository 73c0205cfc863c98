---------------------------- MODULE SdkRuntimeProofs ----------------------------
(****************************************************************************)
(* Proofs about SdkRuntime, for any number of callers, streams and request  *)
(* ids.  There is one stream at a time, the current one: every other is     *)
(* finalized and its task done.  All reservations hang on that one stream.  *)
(****************************************************************************)
EXTENDS SdkRuntime, TLAPS

\* The callers that are busy with a stream, and those that met it registered.
Closing == {"finalize_lock", "drain", "await_task", "finish_lock", "finalizing",
            "compensating", "close_wait"}
Drained == {"await_task", "finish_lock", "finalizing", "compensating"}
Fresh   == {"unborn", "registering"}

\* _current_task is the task in an invocation, or in the stop that follows one.
TaskIsCurrent ==
  \A w \in Workers : pc[w] \in {"invoking", "cancel_stop"} <=> currentTask = w

\* The flag of stop is up for one caller, while no invocation runs.
OneStop ==
  /\ \A c \in Callers : pc[c] = "stopping" => closing /\ currentTask = None
  /\ \A c, d \in Callers : pc[c] = "stopping" /\ pc[d] = "stopping" => c = d

\* A caller is busy with a stream that was born.
StreamsAreBorn ==
  /\ \A s \in Streams : pc[s] # "unborn" => request[s] \in Requests
  /\ \A c \in Callers : pc[c] \in Closing =>
       stream[c] \in Streams /\ pc[stream[c]] # "unborn"
  /\ currentStream # None => pc[currentStream] # "unborn"

\* A stream is finished after its registration.
RegisteredFirst ==
  /\ \A s \in Streams : ready[s] \/ finalized[s] => pc[s] \notin Fresh
  /\ \A c \in Callers : pc[c] \in Drained => pc[stream[c]] \notin Fresh

\* Streams before the current one are over.
OneStream ==
  \A s \in Streams : pc[s] # "unborn" /\ s # currentStream =>
    finalized[s] /\ IsDone(s)

\* A reservation whose cleanup has not failed is the current stream's, and the
\* phases that are finished are those the stream has finished.
PhasesAreTracked ==
  \A q \in registered : ~cleanup[q].failed =>
    /\ currentStream # None /\ request[currentStream] = q
    /\ "outcome" \in cleanup[q].done <=> IsDone(currentStream)
    /\ "finalizer" \in cleanup[q].done <=> finalized[currentStream]

\* A compensating deregistration is made for a cleanup that failed.
CompensationFollowsFailure ==
  /\ \A s \in Streams : pc[s] = "compensating" /\ request[s] \in registered =>
       cleanup[request[s]].failed
  /\ \A c \in Callers :
       pc[c] = "compensating" /\ request[stream[c]] \in registered =>
         cleanup[request[stream[c]]].failed

\* While the runtime is in service the collector keeps nothing of a request
\* that is not reserved, nor after a finalizer succeeded.
CollectorIsTracked ==
  /\ \A c \in Callers : pc[c] = "deregistering" => status # "active"
  /\ status = "active" =>
       /\ \A s \in Streams : pc[s] = "registering" => request[s] \in registered
       /\ \A q \in Requests :
            (q \notin registered
             \/ ("finalizer" \in cleanup[q].done /\ ~cleanup[q].failed))
            => collector[q] = "none"

Control == TaskIsCurrent /\ OneStop /\ InvocationIsUndisturbed /\ StatusIsHonest
Shape   == StreamsAreBorn /\ RegisteredFirst
Cleanup == OneStream /\ PhasesAreTracked /\ CompensationFollowsFailure
           /\ CollectorIsTracked

IInv == TypeOK /\ Control /\ Shape /\ FinalizedOnce /\ Cleanup
-------------------------------------------------------------------------------
(* What the end of a caller's step does: the operators from Leave to Finish *)

CallTypes ==
  /\ DOMAIN pc = Workers
  /\ \A s \in Streams : pc[s] \in StreamPCs
  /\ \A c \in Callers : pc[c] \in CallerPCs
  /\ call \in [Callers -> Calls]
  /\ stream \in [Callers -> Streams \cup {None}]
  /\ raising \in [Callers -> BOOLEAN]
  /\ todo \in [Callers -> SUBSET Requests]
  /\ clientClosed \in BOOLEAN /\ closing \in BOOLEAN

LockTypes ==
  /\ finalizeLock \in [Streams -> Callers \cup {None}]
  /\ finishLock \in [Streams -> Callers \cup {None}]
  /\ finalized \in [Streams -> BOOLEAN]

\* Caller c goes to one of L, busy with s if with any stream; who goes on to
\* stop has raised the flag.
Moved(c, L, s) ==
  /\ CallTypes'
  /\ \A w \in Workers : w # c => pc'[w] = pc[w]
  /\ \A d \in Callers : d # c => stream'[d] = stream[d]
  /\ pc'[c] \in L
  /\ pc'[c] \in Closing => stream'[c] = s
  /\ IF pc'[c] = "stopping" THEN closing' /\ ~closing /\ currentTask = None
                            ELSE closing' = closing

USE RuntimeAssumption DEF runtimeVars, cleanupVars, remoteVars, streamVars, callVars,
    Workers, GoTo

LEMMA LeaveMoves ==
  ASSUME CallTypes, NEW c \in Callers, NEW m, NEW s, Leave(c, m), UNCHANGED closing
  PROVE  Moved(c, {"idle"}, s)
BY DEF Leave, Moved, CallTypes, CallerPCs, Calls, Closing

LEMMA EnterFinalizeMoves ==
  ASSUME CallTypes, LockTypes, NEW c \in Callers, NEW m \in Calls, NEW s \in Streams,
         EnterFinalize(c, m, s), UNCHANGED <<clientClosed, closing>>
  PROVE  /\ Moved(c, {"drain", "finalize_lock"}, s)
         /\ finalizeLock' \in [Streams -> Callers \cup {None}]
BY DEF EnterFinalize, Enter, Moved, CallTypes, LockTypes, CallerPCs, Calls

LEMMA StopChecksMoves ==
  ASSUME CallTypes, NEW c \in Callers, NEW m \in Calls, NEW s, StopChecks(c, m)
  PROVE  Moved(c, {"idle", "stopping"}, s)
<1>1. CASE Leave(c, m) /\ UNCHANGED closing
  BY <1>1, LeaveMoves DEF Moved
<1>2. CASE /\ ~(currentTask # None \/ closing)
           /\ closing' = TRUE /\ GoTo(c, "stopping") /\ Enter(c, m, None)
           /\ UNCHANGED clientClosed
  BY <1>2 DEF Enter, Moved, CallTypes, CallerPCs, Calls, Closing
<1>3. QED
  BY <1>1, <1>2 DEF StopChecks

LEMMA BeginStopMoves ==
  ASSUME CallTypes, LockTypes, NEW c \in Callers, NEW m \in Calls,
         currentStream \in Streams \cup {None}, BeginStop(c, m)
  PROVE  /\ Moved(c, {"idle", "stopping", "drain", "finalize_lock"}, currentStream)
         /\ finalizeLock' \in [Streams -> Callers \cup {None}]
         /\ pc'[c] \in Closing => currentStream # None
<1>1. CASE /\ Leave(c, "exit_stop") \/ Leave(c, m)
           /\ UNCHANGED <<closing, finalizeLock>>
  <2>1. Moved(c, {"idle"}, currentStream)
    BY <1>1, LeaveMoves
  <2>2. QED
    BY <1>1, <2>1 DEF Moved, LockTypes, Closing
<1>2. CASE /\ currentStream # None /\ EnterFinalize(c, m, currentStream)
           /\ UNCHANGED <<clientClosed, closing>>
  <2>1. /\ Moved(c, {"drain", "finalize_lock"}, currentStream)
        /\ finalizeLock' \in [Streams -> Callers \cup {None}]
    BY <1>2, EnterFinalizeMoves
  <2>2. QED
    BY <1>2, <2>1 DEF Moved
<1>3. CASE StopChecks(c, m) /\ UNCHANGED finalizeLock
  <2>1. Moved(c, {"idle", "stopping"}, currentStream)
    BY <1>3, StopChecksMoves
  <2>2. QED
    BY <1>3, <2>1 DEF Moved, LockTypes, Closing
<1>4. QED
  BY <1>1, <1>2, <1>3 DEF BeginStop

LEMMA ClosedMoves ==
  ASSUME CallTypes, NEW c \in Callers, Closed(c)
  PROVE  Moved(c, {"idle", "exit_stop", "stopping"}, stream[c])
<1>1. CASE Return(c) /\ UNCHANGED closing
  BY <1>1, LeaveMoves DEF Return, Moved
<1>2. CASE GoTo(c, "exit_stop") /\ UNCHANGED <<clientClosed, closing, callVars>>
  BY <1>2 DEF Moved, CallTypes, CallerPCs, Closing
<1>3. CASE StopChecks(c, call[c])
  <2>1. call[c] \in Calls
    BY DEF CallTypes
  <2>2. QED
    BY <1>3, <2>1, StopChecksMoves DEF Moved
<1>4. QED
  BY <1>1, <1>2, <1>3 DEF Closed

LEMMA FinalizedMoves ==
  ASSUME CallTypes, NEW c \in Callers, NEW raises, Finalized(c, raises)
  PROVE  Moved(c, {"idle", "close_wait", "exit_stop", "stopping"}, stream[c])
<1>1. CASE Return(c) /\ UNCHANGED closing
  BY <1>1, LeaveMoves DEF Return, Moved
<1>2. CASE Closed(c)
  BY <1>2, ClosedMoves DEF Moved
<1>3. CASE GoTo(c, "close_wait") /\ UNCHANGED <<clientClosed, closing, callVars>>
  BY <1>3 DEF Moved, CallTypes, CallerPCs
<1>4. QED
  BY <1>1, <1>2, <1>3 DEF Finalized

LEMMA FinishMoves ==
  ASSUME CallTypes, LockTypes, NEW c \in Callers, stream[c] \in Streams,
         NEW failed \in BOOLEAN, Finish(c, failed)
  PROVE  /\ Moved(c, {"idle", "close_wait", "exit_stop", "stopping", "await_task"},
                  stream[c])
         /\ finalized' = [finalized EXCEPT ![stream[c]] = TRUE]
         /\ finishLock' = [finishLock EXCEPT ![stream[c]] = None]
         /\ LockTypes'
<1>1. CASE Return(c) /\ UNCHANGED <<closing, finalizeLock>>
  BY <1>1, LeaveMoves DEF Return, Moved, Finish, LockTypes
<1>2. CASE /\ finalizeLock' = [finalizeLock EXCEPT ![stream[c]] = None]
           /\ Finalized(c, raising[c] \/ failed)
  <2>1. Moved(c, {"idle", "close_wait", "exit_stop", "stopping"}, stream[c])
    BY <1>2, FinalizedMoves
  <2>2. QED
    BY <1>2, <2>1 DEF Moved, Finish, LockTypes
<1>3. CASE /\ raising' = [raising EXCEPT ![c] = @ \/ failed]
           /\ GoTo(c, "await_task")
           /\ UNCHANGED <<closing, finalizeLock, clientClosed, call, stream, todo>>
  BY <1>3 DEF Moved, Finish, LockTypes, CallTypes, CallerPCs
<1>4. QED
  BY <1>1, <1>2, <1>3 DEF Finish
-------------------------------------------------------------------------------
(* What a step of a caller preserves that changes little else *)

RuntimeTypes ==
  /\ status \in {"active", "stopped", "failed"}
  /\ currentTask \in Workers \cup {None}
  /\ currentStream \in Streams \cup {None}
  /\ native \in {"alive", "gone"}
  /\ request \in [Streams -> Requests \cup {None}]
  /\ ready \in [Streams -> BOOLEAN]

CleanupTypes ==
  /\ registered \subseteq Requests
  /\ cleanup \in [Requests -> [done : SUBSET Phases, failed : BOOLEAN]]
  /\ \A q \in Requests :
       cleanup[q].done # Phases /\ (q \notin registered => cleanup[q] = Untouched)
  /\ collector \in [Requests -> {"none", "open", "queued"}]

LEMMA TypeParts ==
  /\ TypeOK <=> CallTypes /\ LockTypes /\ RuntimeTypes /\ CleanupTypes
  /\ TypeOK' <=> CallTypes' /\ LockTypes' /\ RuntimeTypes' /\ CleanupTypes'
BY DEF TypeOK, CallTypes, LockTypes, RuntimeTypes, CleanupTypes

\* The program counters in which the native runtime is in use.
Native == {"invoking", "cancel_stop", "stopping"}

LEMMA ControlMoves ==
  ASSUME Control, NEW c \in Callers, NEW L, NEW s, Moved(c, L, s),
         pc[c] \notin Native, L \cap {"invoking", "cancel_stop"} = {},
         UNCHANGED <<status, currentTask, native>>
  PROVE  Control'
<1>1. TaskIsCurrent'
  BY DEF Control, TaskIsCurrent, Moved, Native
<1>2. OneStop'
  BY DEF Control, OneStop, Moved
<1>3. InvocationIsUndisturbed'
  BY DEF Control, InvocationIsUndisturbed, TaskIsCurrent, Moved
<1>4. StatusIsHonest'
  BY DEF Control, StatusIsHonest
<1>5. QED
  BY <1>1, <1>2, <1>3, <1>4 DEF Control

LEMMA ShapeMoves ==
  ASSUME Shape, RuntimeTypes, NEW c \in Callers, NEW L, NEW s, Moved(c, L, s),
         pc'[c] \in Closing => s \in Streams /\ pc[s] # "unborn",
         pc'[c] \in Drained => pc[s] \notin Fresh,
         \A x \in Streams : finalized'[x] => finalized[x] \/ pc[x] \notin Fresh,
         UNCHANGED <<currentStream, request, ready>>
  PROVE  Shape'
<1>1. \A x \in Streams : pc'[x] = pc[x]
  BY DEF Moved
<1>2. \A d \in Callers : pc'[d] \in Closing =>
        stream'[d] \in Streams /\ pc[stream'[d]] # "unborn"
  BY DEF Moved, Shape, StreamsAreBorn
<1>3. \A d \in Callers : pc'[d] \in Drained => pc[stream'[d]] \notin Fresh
  BY DEF Moved, Shape, RegisteredFirst, Drained, Closing
<1>4. StreamsAreBorn'
  BY <1>1, <1>2 DEF Shape, StreamsAreBorn, RuntimeTypes
<1>5. RegisteredFirst'
  BY <1>1, <1>2, <1>3 DEF Shape, RegisteredFirst, Drained, Closing
<1>6. QED
  BY <1>4, <1>5 DEF Shape

\* Where a caller goes that finishes nothing and deregisters nothing.
Plain == CallerPCs \ {"invoking", "cancel_stop", "finalizing", "compensating",
                      "deregistering"}

LEMMA PlainMoves ==
  ASSUME IInv, NEW c \in Callers, NEW s, Moved(c, Plain, s), pc[c] \notin Native,
         pc'[c] \in Closing => s \in Streams /\ pc[s] # "unborn",
         pc'[c] \in Drained => pc[s] \notin Fresh,
         finalizeLock' \in [Streams -> Callers \cup {None}],
         UNCHANGED <<status, currentTask, currentStream, cleanupVars, native,
                     collector, request, ready, finalized, finishLock>>
  PROVE  IInv'
<1>1. TypeOK'
  BY TypeParts DEF IInv, Moved, LockTypes, RuntimeTypes, CleanupTypes
<1>2. Control'
  BY ControlMoves DEF IInv, Plain
<1>3. Shape'
  BY ShapeMoves, TypeParts DEF IInv
<1>4. FinalizedOnce'
  BY DEF IInv, FinalizedOnce, Moved, Plain
<1>5. Cleanup'
  <2>1. /\ \A x \in Streams : pc'[x] = pc[x]
        /\ \A d \in Callers :
             pc'[d] \in {"compensating", "deregistering"} =>
               pc[d] = pc'[d] /\ stream[d] = stream'[d]
    BY DEF Moved, Plain
  <2>2. OneStream' /\ CompensationFollowsFailure' /\ CollectorIsTracked'
    BY <2>1 DEF IInv, Cleanup, OneStream, CompensationFollowsFailure,
       CollectorIsTracked, IsDone
  <2>3. PhasesAreTracked'
    BY <2>1, TypeParts DEF IInv, Cleanup, PhasesAreTracked, IsDone, RuntimeTypes
  <2>4. QED
    BY <2>2, <2>3 DEF Cleanup
<1>6. QED
  BY <1>1, <1>2, <1>3, <1>4, <1>5 DEF IInv
-------------------------------------------------------------------------------
(* The steps that only move a caller *)

LEMMA StopStep == ASSUME IInv, NEW c \in Callers, Stop(c) PROVE IInv'
<1>1. /\ BeginStop(c, "stop") /\ pc[c] = "idle"
      /\ UNCHANGED <<status, currentTask, currentStream, cleanupVars, native,
                     collector, request, ready, finalized, finishLock>>
  BY DEF Stop
<1>2. CallTypes /\ LockTypes /\ RuntimeTypes
  BY TypeParts DEF IInv
<1>3. /\ Moved(c, {"idle", "stopping", "drain", "finalize_lock"}, currentStream)
      /\ finalizeLock' \in [Streams -> Callers \cup {None}]
      /\ pc'[c] \in Closing => currentStream # None
  BY <1>1, <1>2, BeginStopMoves DEF Calls, RuntimeTypes
<1>4. Moved(c, Plain, currentStream) /\ pc'[c] \notin Drained
  BY <1>3 DEF Moved, Plain, CallerPCs, Drained
<1>5. pc'[c] \in Closing => currentStream \in Streams /\ pc[currentStream] # "unborn"
  BY <1>2, <1>3 DEF IInv, Shape, StreamsAreBorn, RuntimeTypes
<1>6. QED
  BY <1>1, <1>3, <1>4, <1>5, PlainMoves DEF Native

LEMMA ExitStopStep == ASSUME IInv, NEW c \in Callers, ExitStop(c) PROVE IInv'
<1>1. /\ BeginStop(c, "exit_stop") /\ pc[c] = "exit_stop"
      /\ UNCHANGED <<status, currentTask, currentStream, cleanupVars, native,
                     collector, request, ready, finalized, finishLock>>
  BY DEF ExitStop
<1>2. CallTypes /\ LockTypes /\ RuntimeTypes
  BY TypeParts DEF IInv
<1>3. /\ Moved(c, {"idle", "stopping", "drain", "finalize_lock"}, currentStream)
      /\ finalizeLock' \in [Streams -> Callers \cup {None}]
      /\ pc'[c] \in Closing => currentStream # None
  BY <1>1, <1>2, BeginStopMoves DEF Calls, RuntimeTypes
<1>4. Moved(c, Plain, currentStream) /\ pc'[c] \notin Drained
  BY <1>3 DEF Moved, Plain, CallerPCs, Drained
<1>5. pc'[c] \in Closing => currentStream \in Streams /\ pc[currentStream] # "unborn"
  BY <1>2, <1>3 DEF IInv, Shape, StreamsAreBorn, RuntimeTypes
<1>6. QED
  BY <1>1, <1>3, <1>4, <1>5, PlainMoves DEF Native

LEMMA ExitStep == ASSUME IInv, NEW c \in Callers, Exit(c) PROVE IInv'
<1>1. /\ pc[c] = "idle"
      /\ UNCHANGED <<status, currentTask, currentStream, cleanupVars, native,
                     collector, request, ready, finalized, finishLock>>
  BY DEF Exit
<1>2. CallTypes /\ LockTypes /\ RuntimeTypes
  BY TypeParts DEF IInv
<1>3. CASE BeginStop(c, "exit_stop")
  <2>1. /\ Moved(c, {"idle", "stopping", "drain", "finalize_lock"}, currentStream)
        /\ finalizeLock' \in [Streams -> Callers \cup {None}]
        /\ pc'[c] \in Closing => currentStream # None
    BY <1>2, <1>3, BeginStopMoves DEF Calls, RuntimeTypes
  <2>2. Moved(c, Plain, currentStream) /\ pc'[c] \notin Drained
    BY <2>1 DEF Moved, Plain, CallerPCs, Drained
  <2>3. pc'[c] \in Closing => currentStream \in Streams /\ pc[currentStream] # "unborn"
    BY <1>2, <2>1 DEF IInv, Shape, StreamsAreBorn, RuntimeTypes
  <2>4. QED
    BY <1>1, <2>1, <2>2, <2>3, PlainMoves DEF Native
<1>4. CASE /\ ~NoActiveStream
           /\ EnterFinalize(c, "exit", currentStream)
           /\ UNCHANGED <<clientClosed, closing>>
  <2>1. currentStream \in Streams /\ pc[currentStream] # "unborn"
    BY <1>2, <1>4 DEF NoActiveStream, IInv, Shape, StreamsAreBorn
  <2>2. /\ Moved(c, {"drain", "finalize_lock"}, currentStream)
        /\ finalizeLock' \in [Streams -> Callers \cup {None}]
    BY <1>2, <1>4, <2>1, EnterFinalizeMoves DEF Calls
  <2>3. Moved(c, Plain, currentStream) /\ pc'[c] \notin Drained
    BY <2>2 DEF Moved, Plain, CallerPCs, Drained
  <2>4. QED
    BY <1>1, <2>1, <2>2, <2>3, PlainMoves DEF Native
<1>5. QED
  BY <1>3, <1>4 DEF Exit

LEMMA FinalizeStep ==
  ASSUME IInv, NEW c \in Callers, NEW m \in Calls, Finalize(c, m)
  PROVE  IInv'
<1>1. /\ pc[c] = "idle"
      /\ UNCHANGED <<runtimeVars, cleanupVars, remoteVars, request, ready, finalized,
                     finishLock>>
  BY DEF Finalize
<1>2. PICK s \in Streams : pc[s] # "unborn" /\ EnterFinalize(c, m, s)
  BY DEF Finalize
<1>3. /\ Moved(c, {"drain", "finalize_lock"}, s)
      /\ finalizeLock' \in [Streams -> Callers \cup {None}]
  BY <1>1, <1>2, EnterFinalizeMoves, TypeParts DEF IInv
<1>4. Moved(c, Plain, s) /\ pc'[c] \notin Drained
  BY <1>3 DEF Moved, Plain, CallerPCs, Drained
<1>5. QED
  BY <1>1, <1>2, <1>3, <1>4, PlainMoves DEF Native

LEMMA ReadFailsStep == ASSUME IInv, NEW c \in Callers, ReadFails(c) PROVE IInv'
<1>1. PICK s \in Streams : ready[s] /\ Enter(c, "next", s)
  BY DEF ReadFails
<1>2. /\ pc[c] = "idle" /\ GoTo(c, "finish_lock")
      /\ UNCHANGED <<runtimeVars, cleanupVars, remoteVars, streamVars>>
  BY DEF ReadFails
<1>3. Moved(c, Plain, s)
  BY <1>1, <1>2, TypeParts DEF IInv, Enter, Moved, CallTypes, CallerPCs, Calls, Plain
<1>4. pc[s] \notin Fresh
  BY <1>1 DEF IInv, Shape, RegisteredFirst
<1>5. finalizeLock' \in [Streams -> Callers \cup {None}]
  BY <1>2, TypeParts DEF IInv, LockTypes
<1>6. QED
  BY <1>2, <1>3, <1>4, <1>5, PlainMoves DEF Native, Fresh

LEMMA TakeFinalizeLockStep ==
  ASSUME IInv, NEW c \in Callers, TakeFinalizeLock(c) PROVE IInv'
<1>1. /\ pc[c] = "finalize_lock"
      /\ UNCHANGED <<status, currentTask, currentStream, cleanupVars, native, collector,
                     request, ready, finalized, finishLock>>
  BY DEF TakeFinalizeLock
<1>2. CallTypes /\ LockTypes /\ stream[c] \in Streams /\ pc[stream[c]] # "unborn"
  BY <1>1, TypeParts DEF IInv, Shape, StreamsAreBorn, Closing
<1>3. CASE Finalized(c, FALSE) /\ UNCHANGED finalizeLock
  <2>1. Moved(c, {"idle", "close_wait", "exit_stop", "stopping"}, stream[c])
    BY <1>2, <1>3, FinalizedMoves
  <2>2. Moved(c, Plain, stream[c]) /\ pc'[c] \notin Drained
    BY <2>1 DEF Moved, Plain, CallerPCs, Drained
  <2>3. QED
    BY <1>1, <1>2, <1>3, <2>2, PlainMoves DEF Native, LockTypes
<1>4. CASE /\ finalizeLock' = [finalizeLock EXCEPT ![stream[c]] = c]
           /\ GoTo(c, "drain") /\ UNCHANGED <<clientClosed, closing, callVars>>
  <2>1. Moved(c, Plain, stream[c]) /\ pc'[c] \notin Drained
    BY <1>2, <1>4 DEF Moved, Plain, CallTypes, CallerPCs, Drained
  <2>2. finalizeLock' \in [Streams -> Callers \cup {None}]
    BY <1>2, <1>4 DEF LockTypes
  <2>3. QED
    BY <1>1, <1>2, <2>1, <2>2, PlainMoves DEF Native
<1>5. QED
  BY <1>3, <1>4 DEF TakeFinalizeLock

LEMMA DrainStep == ASSUME IInv, NEW c \in Callers, Drain(c) PROVE IInv'
<1>1. /\ pc[c] = "drain" /\ (ready[stream[c]] \/ IsDone(stream[c]))
      /\ UNCHANGED <<runtimeVars, cleanupVars, remoteVars, streamVars, call, stream, todo>>
  BY DEF Drain
<1>2. CallTypes /\ LockTypes /\ stream[c] \in Streams
  BY <1>1, TypeParts DEF IInv, Shape, StreamsAreBorn, Closing
<1>3. Moved(c, Plain, stream[c])
  BY <1>1, <1>2 DEF Drain, Moved, Plain, CallTypes, CallerPCs
<1>4. pc[stream[c]] \notin Fresh
  BY <1>1, <1>2 DEF IInv, Shape, RegisteredFirst, Fresh, IsDone
<1>5. QED
  BY <1>1, <1>2, <1>3, <1>4, PlainMoves DEF Native, LockTypes, Fresh

LEMMA TaskIsDoneStep == ASSUME IInv, NEW c \in Callers, TaskIsDone(c) PROVE IInv'
<1>1. /\ pc[c] = "await_task" /\ IsDone(stream[c])
      /\ UNCHANGED <<status, currentTask, currentStream, cleanupVars, native, collector,
                     request, ready, finalized, finishLock>>
  BY DEF TaskIsDone
<1>2. CallTypes /\ LockTypes /\ stream[c] \in Streams /\ pc[stream[c]] \notin Fresh
  BY <1>1, TypeParts DEF IInv, Shape, StreamsAreBorn, Closing, IsDone, Fresh
<1>3. CASE /\ Finalized(c, raising[c])
           /\ finalizeLock' = [finalizeLock EXCEPT ![stream[c]] = None]
  <2>1. Moved(c, {"idle", "close_wait", "exit_stop", "stopping"}, stream[c])
    BY <1>2, <1>3, FinalizedMoves
  <2>2. Moved(c, Plain, stream[c])
    BY <2>1 DEF Moved, Plain, CallerPCs
  <2>3. finalizeLock' \in [Streams -> Callers \cup {None}]
    BY <1>2, <1>3 DEF LockTypes
  <2>4. QED
    BY <1>1, <1>2, <2>2, <2>3, PlainMoves DEF Native, Fresh
<1>4. CASE /\ GoTo(c, "finish_lock")
           /\ UNCHANGED <<finalizeLock, clientClosed, closing, callVars>>
  <2>1. Moved(c, Plain, stream[c])
    BY <1>2, <1>4 DEF Moved, Plain, CallTypes, CallerPCs
  <2>2. QED
    BY <1>1, <1>2, <1>4, <2>1, PlainMoves DEF Native, LockTypes, Fresh
<1>5. QED
  BY <1>3, <1>4 DEF TaskIsDone

LEMMA CloseWaitsStep == ASSUME IInv, NEW c \in Callers, CloseWaits(c) PROVE IInv'
<1>1. /\ pc[c] = "close_wait" /\ Closed(c)
      /\ UNCHANGED <<status, currentTask, currentStream, cleanupVars, native,
                     collector, streamVars>>
  BY DEF CloseWaits
<1>2. Moved(c, {"idle", "exit_stop", "stopping"}, stream[c])
  BY <1>1, ClosedMoves, TypeParts DEF IInv
<1>3. Moved(c, Plain, stream[c]) /\ pc'[c] \notin Closing /\ pc'[c] \notin Drained
  BY <1>2 DEF Moved, Plain, CallerPCs, Closing, Drained
<1>4. finalizeLock' \in [Streams -> Callers \cup {None}]
  BY <1>1, TypeParts DEF IInv, LockTypes
<1>5. QED
  BY <1>1, <1>3, <1>4, PlainMoves DEF Native

LEMMA StopClosesStep == ASSUME IInv, NEW c \in Callers, StopCloses(c) PROVE IInv'
<1>1. /\ pc[c] = "deregistering" /\ Leave(c, "exit_stop")
      /\ UNCHANGED <<runtimeVars, cleanupVars, native, collector, streamVars>>
  BY DEF StopCloses
<1>2. Moved(c, {"idle"}, None)
  BY <1>1, LeaveMoves, TypeParts DEF IInv
<1>3. Moved(c, Plain, None) /\ pc'[c] \notin Closing /\ pc'[c] \notin Drained
  BY <1>2 DEF Moved, Plain, CallerPCs, Closing, Drained
<1>4. finalizeLock' \in [Streams -> Callers \cup {None}]
  BY <1>1, TypeParts DEF IInv, LockTypes
<1>5. QED
  BY <1>1, <1>3, <1>4, PlainMoves DEF Native

LEMMA CancelWaitStep == ASSUME IInv, NEW c \in Callers, CancelWait(c) PROVE IInv'
<1>1. /\ pc[c] \notin Native
      /\ Leave(c, IF pc[c] = "deregistering" THEN "exit_stop" ELSE call[c])
      /\ UNCHANGED <<runtimeVars, cleanupVars, native, collector, request, ready,
                     finalized, finishLock>>
  BY DEF CancelWait, Native
<1>2. Moved(c, {"idle"}, None)
  BY <1>1, LeaveMoves, TypeParts DEF IInv
<1>3. Moved(c, Plain, None) /\ pc'[c] \notin Closing /\ pc'[c] \notin Drained
  BY <1>2 DEF Moved, Plain, CallerPCs, Closing, Drained
<1>4. finalizeLock' \in [Streams -> Callers \cup {None}]
  BY TypeParts DEF IInv, LockTypes, CancelWait
<1>5. QED
  BY <1>1, <1>3, <1>4, PlainMoves

LEMMA CancelShieldedStep ==
  ASSUME IInv, NEW c \in Callers, CancelShielded(c) PROVE IInv'
<1>1. /\ raising' = [raising EXCEPT ![c] = TRUE]
      /\ UNCHANGED <<runtimeVars, cleanupVars, remoteVars, pc, streamVars, call, stream, todo>>
  BY DEF CancelShielded
<1>2. TypeOK'
  BY <1>1, TypeParts DEF IInv, CallTypes, LockTypes, RuntimeTypes, CleanupTypes
<1>3. Control' /\ Shape' /\ FinalizedOnce'
  BY <1>1 DEF IInv, Control, TaskIsCurrent, OneStop, InvocationIsUndisturbed,
     StatusIsHonest, Shape, StreamsAreBorn, RegisteredFirst, FinalizedOnce
<1>4. Cleanup'
  BY <1>1 DEF IInv, Cleanup, OneStream, PhasesAreTracked,
     CompensationFollowsFailure, CollectorIsTracked, IsDone
<1>5. QED
  BY <1>2, <1>3, <1>4 DEF IInv
-------------------------------------------------------------------------------
(* Invocations *)

LEMMA InvokeStep == ASSUME IInv, NEW c \in Callers, Invoke(c) PROVE IInv'
<1>1. /\ pc[c] = "idle" /\ Invocable
      /\ currentTask' = c /\ pc' = [pc EXCEPT ![c] = "invoking"]
      /\ UNCHANGED <<status, currentStream, closing, cleanupVars, remoteVars, streamVars>>
  BY DEF Invoke
<1>2. /\ call' = [call EXCEPT ![c] = "invoke"]
      /\ stream' = [stream EXCEPT ![c] = None]
      /\ UNCHANGED <<raising, todo>>
  BY DEF Invoke, Enter
<1>3. CallTypes /\ LockTypes /\ RuntimeTypes /\ CleanupTypes
  BY TypeParts DEF IInv
<1>4. /\ \A w \in Workers : w # c => pc'[w] = pc[w]
      /\ pc'[c] = "invoking"
      /\ \A d \in Callers : d # c => stream'[d] = stream[d]
  BY <1>1, <1>2, <1>3 DEF CallTypes
<1>5. TypeOK'
  <2>1. CallTypes'
    BY <1>1, <1>2, <1>3 DEF CallTypes, Calls, CallerPCs
  <2>2. LockTypes' /\ RuntimeTypes' /\ CleanupTypes'
    BY <1>1, <1>3 DEF LockTypes, RuntimeTypes, CleanupTypes
  <2>3. QED
    BY <2>1, <2>2, TypeParts
<1>6. Control'
  BY <1>1, <1>4 DEF IInv, Control, TaskIsCurrent, OneStop, InvocationIsUndisturbed,
     StatusIsHonest, Invocable
<1>7. Shape' /\ FinalizedOnce'
  BY <1>1, <1>3, <1>4 DEF IInv, Shape, StreamsAreBorn, RegisteredFirst,
     FinalizedOnce, Closing, Drained, RuntimeTypes
<1>8. Cleanup'
  BY <1>1, <1>3, <1>4 DEF IInv, Cleanup, OneStream, PhasesAreTracked, RuntimeTypes,
     CompensationFollowsFailure, CollectorIsTracked, IsDone
<1>9. QED
  BY <1>5, <1>6, <1>7, <1>8 DEF IInv

\* When a stream begins, the last one is over: every reservation left is one
\* whose cleanup failed.
LEMMA InvokeStreamStep == ASSUME IInv, NEW c \in Callers, InvokeStream(c) PROVE IInv'
<1>1. /\ NoActiveStream /\ Invocable
      /\ UNCHANGED <<status, currentTask, closing, cleanup, remoteVars, ready,
                     finalized, finalizeLock, finishLock, callVars>>
  BY DEF InvokeStream
<1>2. PICK s \in Streams, q \in Requests \ registered :
        /\ pc[s] = "unborn"
        /\ registered' = registered \cup {q}
        /\ request' = [request EXCEPT ![s] = q]
        /\ currentStream' = s
        /\ pc' = [pc EXCEPT ![s] = "registering"]
  BY DEF InvokeStream
<1>3. CallTypes /\ LockTypes /\ RuntimeTypes /\ CleanupTypes
  BY TypeParts DEF IInv
<1>4. /\ \A w \in Workers : w # s => pc'[w] = pc[w]
      /\ pc'[s] = "registering"
      /\ \A x \in Streams : x # s => request'[x] = request[x]
      /\ request'[s] = q
  BY <1>2, <1>3 DEF CallTypes, RuntimeTypes
<1>5. TypeOK'
  <2>1. CallTypes'
    BY <1>1, <1>2, <1>3 DEF CallTypes, StreamPCs
  <2>2. LockTypes' /\ RuntimeTypes' /\ CleanupTypes'
    BY <1>1, <1>2, <1>3 DEF LockTypes, RuntimeTypes, CleanupTypes
  <2>3. QED
    BY <2>1, <2>2, TypeParts
<1>6. Control'
  BY <1>1, <1>2, <1>4 DEF IInv, Control, TaskIsCurrent, OneStop,
     InvocationIsUndisturbed, StatusIsHonest
<1>7. Shape' /\ FinalizedOnce'
  BY <1>1, <1>2, <1>4 DEF IInv, Shape, StreamsAreBorn, RegisteredFirst,
     FinalizedOnce, Closing, Drained, Fresh
<1>8. \A x \in Streams : pc[x] # "unborn" => finalized[x] /\ IsDone(x)
  BY <1>1 DEF IInv, Cleanup, OneStream, NoActiveStream
<1>9. \A p \in registered : cleanup[p].failed
  <2>1. SUFFICES ASSUME NEW p \in registered, ~cleanup[p].failed PROVE FALSE
    BY <1>3 DEF CleanupTypes
  <2>2. {"outcome", "finalizer"} \subseteq cleanup[p].done
    BY <1>3, <1>8, <2>1 DEF IInv, Cleanup, PhasesAreTracked, Shape, StreamsAreBorn,
       RuntimeTypes
  <2>3. cleanup[p].done \subseteq Phases /\ cleanup[p].done # Phases
    BY <1>3, <2>1 DEF CleanupTypes
  <2>4. QED
    BY <2>2, <2>3 DEF Phases
<1>10. cleanup[q] = Untouched
  BY <1>2, <1>3 DEF CleanupTypes
<1>11. OneStream'
  BY <1>1, <1>2, <1>4, <1>8 DEF OneStream, IsDone
<1>12. PhasesAreTracked'
  <2>1. ~finalized[s] /\ s # None
    BY <1>2, <1>3 DEF IInv, Shape, RegisteredFirst, Fresh, LockTypes
  <2>2. "outcome" \notin cleanup[q].done /\ "finalizer" \notin cleanup[q].done
    BY <1>10 DEF Untouched
  <2>3. QED
    BY <1>1, <1>2, <1>4, <1>9, <2>1, <2>2 DEF PhasesAreTracked, IsDone
<1>13. CompensationFollowsFailure'
  <2>1. \A x \in Streams : pc'[x] # "compensating"
    BY <1>4, <1>8 DEF IsDone
  <2>2. \A d \in Callers : pc[d] = "compensating" =>
          stream[d] \in Streams /\ pc[stream[d]] # "unborn" /\ ~finalized[stream[d]]
    BY DEF IInv, Shape, StreamsAreBorn, Closing, FinalizedOnce
  <2>3. \A d \in Callers : pc'[d] # "compensating"
    BY <1>4, <1>8, <2>2
  <2>4. QED
    BY <2>1, <2>3 DEF CompensationFollowsFailure
<1>14. CollectorIsTracked'
  BY <1>1, <1>2, <1>4, <1>8, <1>10 DEF IInv, Cleanup, CollectorIsTracked, IsDone,
     Untouched
<1>15. QED
  BY <1>5, <1>6, <1>7, <1>11, <1>12, <1>13, <1>14 DEF IInv, Cleanup

\* The registration is answered: only a runtime that still is invocable is
\* invoked, and only while it is in service is the request sure to be reserved.
LEMMA RegistrationSettlesStep ==
  ASSUME IInv, NEW s \in Streams, RegistrationSettles(s) PROVE IInv'
<1>1. /\ pc[s] = "registering"
      /\ UNCHANGED <<status, currentStream, closing, cleanupVars, clientClosed, native,
                     request, finalized, finalizeLock, finishLock, callVars>>
  BY DEF RegistrationSettles
<1>2. PICK ok \in BOOLEAN :
        /\ Register(request[s], ok)
        /\ ready' = [ready EXCEPT ![s] = ok]
        /\ currentTask' = IF ok /\ Invocable THEN s ELSE currentTask
        /\ pc' = [pc EXCEPT ![s] = IF ok /\ Invocable THEN "invoking" ELSE Outcome(s)]
  BY DEF RegistrationSettles
<1>3. /\ CallTypes /\ LockTypes /\ RuntimeTypes /\ CleanupTypes
      /\ request[s] \in Requests /\ s # None
  BY <1>1, TypeParts DEF IInv, Shape, StreamsAreBorn
<1>4. /\ \A w \in Workers : w # s => pc'[w] = pc[w]
      /\ pc'[s] \in {"invoking", "deleting", "done"}
      /\ pc'[s] = "invoking" => Invocable /\ currentTask' = s
      /\ pc'[s] # "invoking" => currentTask' = currentTask
      /\ pc'[s] = "done" => request[s] \notin registered
      /\ \A x \in Streams : x # s => ready'[x] = ready[x]
  BY <1>2, <1>3 DEF CallTypes, RuntimeTypes, Outcome
<1>5. /\ collector' \in [Requests -> {"none", "open", "queued"}]
      /\ \A p \in Requests : p # request[s] => collector'[p] = collector[p]
  BY <1>2, <1>3 DEF Register, CleanupTypes
<1>6. TypeOK'
  <2>1. CallTypes'
    BY <1>1, <1>3, <1>4, <1>2 DEF CallTypes, StreamPCs
  <2>2. LockTypes' /\ CleanupTypes'
    BY <1>1, <1>3, <1>5 DEF LockTypes, CleanupTypes
  <2>3. RuntimeTypes'
    BY <1>1, <1>2, <1>3 DEF RuntimeTypes
  <2>4. QED
    BY <2>1, <2>2, <2>3, TypeParts
<1>7. Control'
  BY <1>1, <1>4 DEF IInv, Control, TaskIsCurrent, OneStop, InvocationIsUndisturbed,
     StatusIsHonest, Invocable
<1>8. Shape' /\ FinalizedOnce'
  BY <1>1, <1>4, <1>3 DEF IInv, Shape, StreamsAreBorn, RegisteredFirst,
     FinalizedOnce, Closing, Drained, Fresh, RuntimeTypes
<1>9. ~finalized[s] /\ s = currentStream
  BY <1>1 DEF IInv, Shape, RegisteredFirst, Fresh, Cleanup, OneStream, IsDone
<1>10. OneStream' /\ PhasesAreTracked' /\ CompensationFollowsFailure'
  BY <1>1, <1>3, <1>4, <1>9 DEF IInv, Cleanup, OneStream, PhasesAreTracked,
     CompensationFollowsFailure, IsDone
<1>11. CollectorIsTracked'
  <2>1. SUFFICES ASSUME status = "active" PROVE CollectorIsTracked'
    BY <1>1, <1>4 DEF IInv, Cleanup, CollectorIsTracked
  <2>2. request[s] \in registered
    BY <1>1, <2>1 DEF IInv, Cleanup, CollectorIsTracked
  <2>3. ~("finalizer" \in cleanup[request[s]].done /\ ~cleanup[request[s]].failed)
    BY <1>9, <2>2 DEF IInv, Cleanup, PhasesAreTracked
  <2>4. QED
    BY <1>1, <1>4, <1>5, <2>2, <2>3 DEF IInv, Cleanup, CollectorIsTracked
<1>12. QED
  BY <1>6, <1>7, <1>8, <1>10, <1>11 DEF IInv, Cleanup

LEMMA StreamInvokedStep ==
  ASSUME IInv, NEW s \in Streams, StreamInvoked(s) PROVE IInv'
<1>1. /\ pc[s] = "invoking" /\ status' \in {status, "failed"} /\ currentTask' = None
      /\ pc' = [pc EXCEPT ![s] = Outcome(s)]
      /\ UNCHANGED <<currentStream, closing, cleanupVars, remoteVars, streamVars, callVars>>
  BY DEF StreamInvoked
<1>2. CallTypes /\ LockTypes /\ RuntimeTypes /\ CleanupTypes
  BY TypeParts DEF IInv
<1>3. /\ \A w \in Workers : w # s => pc'[w] = pc[w]
      /\ pc'[s] \in {"deleting", "done"}
      /\ pc'[s] = "done" => request[s] \notin registered
  BY <1>1, <1>2 DEF CallTypes, Outcome
<1>4. currentTask = s
  BY <1>1 DEF IInv, Control, TaskIsCurrent
<1>5. TypeOK'
  <2>1. CallTypes'
    BY <1>1, <1>2, <1>3 DEF CallTypes, StreamPCs
  <2>2. LockTypes' /\ RuntimeTypes' /\ CleanupTypes'
    BY <1>1, <1>2 DEF LockTypes, RuntimeTypes, CleanupTypes
  <2>3. QED
    BY <2>1, <2>2, TypeParts
<1>6. Control'
  BY <1>1, <1>2, <1>3, <1>4 DEF IInv, Control, TaskIsCurrent, OneStop,
     InvocationIsUndisturbed, StatusIsHonest, RuntimeTypes
<1>7. Shape' /\ FinalizedOnce'
  BY <1>1, <1>2, <1>3 DEF IInv, Shape, StreamsAreBorn, RegisteredFirst,
     FinalizedOnce, Closing, Drained, Fresh
<1>8. s = currentStream
  BY <1>1 DEF IInv, Cleanup, OneStream, IsDone
<1>9. Cleanup'
  BY <1>1, <1>2, <1>3, <1>8 DEF IInv, Cleanup, OneStream, PhasesAreTracked,
     CompensationFollowsFailure, CollectorIsTracked, IsDone
<1>10. QED
  BY <1>5, <1>6, <1>7, <1>9 DEF IInv

\* The runtime is failed or stopped, or as before; nothing else of it is changed
\* but its current task.
LEMMA StatusMoves ==
  ASSUME IInv, NEW c \in Callers, NEW L, Moved(c, L, None), pc'[c] \notin Closing,
         TaskIsCurrent', OneStop', InvocationIsUndisturbed', StatusIsHonest',
         status' \in {status, "failed", "stopped"},
         pc'[c] = "deregistering" => status' # "active",
         native' \in {"alive", "gone"}, currentTask' \in Workers \cup {None},
         UNCHANGED <<currentStream, cleanupVars, collector, streamVars>>
  PROVE  IInv'
<1>1. CallTypes /\ LockTypes /\ RuntimeTypes /\ CleanupTypes
  BY TypeParts DEF IInv
<1>2. TypeOK'
  BY <1>1, TypeParts DEF Moved, LockTypes, RuntimeTypes, CleanupTypes
<1>3. Shape'
  BY <1>1, ShapeMoves DEF IInv, Drained, Closing
<1>4. FinalizedOnce'
  BY DEF IInv, FinalizedOnce, Moved, Closing
<1>5. Cleanup'
  <2>1. /\ \A x \in Streams : pc'[x] = pc[x]
        /\ \A d \in Callers : pc'[d] = "compensating" =>
             pc[d] = pc'[d] /\ stream[d] = stream'[d]
        /\ \A d \in Callers : d # c => pc'[d] = pc[d]
        /\ status' = "active" => status = "active"
    BY <1>1 DEF Moved, Closing, RuntimeTypes
  <2>2. OneStream' /\ CompensationFollowsFailure' /\ PhasesAreTracked'
    BY <2>1, <1>1 DEF IInv, Cleanup, OneStream, CompensationFollowsFailure,
       PhasesAreTracked, IsDone, RuntimeTypes
  <2>3. CollectorIsTracked'
    BY <2>1 DEF IInv, Cleanup, CollectorIsTracked
  <2>4. QED
    BY <2>2, <2>3 DEF Cleanup
<1>6. QED
  BY <1>2, <1>3, <1>4, <1>5 DEF IInv, Control

LEMMA CallerInvokedStep ==
  ASSUME IInv, NEW c \in Callers, CallerInvoked(c) PROVE IInv'
<1>1. /\ pc[c] = "invoking"
      /\ UNCHANGED <<currentStream, closing, cleanupVars, native, collector, streamVars>>
  BY DEF CallerInvoked
<1>2. CallTypes /\ RuntimeTypes /\ currentTask = c
  BY <1>1, TypeParts DEF IInv, Control, TaskIsCurrent
<1>3. CASE GoTo(c, "cancel_stop") /\ UNCHANGED <<status, currentTask, clientClosed, callVars>>
  <2>1. Moved(c, {"cancel_stop"}, None) /\ pc'[c] \notin Closing /\ pc'[c] = "cancel_stop"
    BY <1>1, <1>2, <1>3 DEF Moved, CallTypes, CallerPCs, Closing
  <2>2. TaskIsCurrent' /\ OneStop' /\ InvocationIsUndisturbed' /\ StatusIsHonest'
    BY <1>1, <1>2, <1>3, <2>1 DEF IInv, Control, TaskIsCurrent, OneStop,
       InvocationIsUndisturbed, StatusIsHonest, Moved
  <2>3. QED
    BY <1>1, <1>2, <1>3, <2>1, <2>2, StatusMoves DEF RuntimeTypes
<1>4. CASE status' \in {status, "failed"} /\ currentTask' = None /\ Return(c)
  <2>1. Moved(c, {"idle"}, None) /\ pc'[c] \notin Closing /\ pc'[c] = "idle"
    BY <1>1, <1>2, <1>4, LeaveMoves DEF Return, Moved, Closing
  <2>2. TaskIsCurrent' /\ OneStop' /\ InvocationIsUndisturbed' /\ StatusIsHonest'
    BY <1>1, <1>2, <1>4, <2>1 DEF IInv, Control, TaskIsCurrent, OneStop,
       InvocationIsUndisturbed, StatusIsHonest, Moved
  <2>3. QED
    BY <1>1, <1>2, <1>4, <2>1, <2>2, StatusMoves DEF RuntimeTypes
<1>5. QED
  BY <1>3, <1>4 DEF CallerInvoked

LEMMA CancelStoppedStep ==
  ASSUME IInv, NEW c \in Callers, CancelStopped(c) PROVE IInv'
<1>1. /\ pc[c] = "cancel_stop" /\ NativeStop /\ currentTask' = None /\ Return(c)
      /\ UNCHANGED <<currentStream, closing, cleanupVars, collector, streamVars>>
  BY DEF CancelStopped
<1>2. CallTypes /\ RuntimeTypes /\ currentTask = c
  BY <1>1, TypeParts DEF IInv, Control, TaskIsCurrent
<1>3. Moved(c, {"idle"}, None) /\ pc'[c] \notin Closing /\ pc'[c] = "idle"
  BY <1>1, <1>2, LeaveMoves DEF Return, Moved, Closing
<1>4. TaskIsCurrent' /\ OneStop' /\ InvocationIsUndisturbed' /\ StatusIsHonest'
  BY <1>1, <1>2, <1>3 DEF IInv, Control, TaskIsCurrent, OneStop,
     InvocationIsUndisturbed, StatusIsHonest, Moved, NativeStop
<1>5. QED
  BY <1>1, <1>2, <1>3, <1>4, StatusMoves DEF RuntimeTypes, NativeStop

LEMMA StoppedStep == ASSUME IInv, NEW c \in Callers, Stopped(c) PROVE IInv'
<1>1. /\ pc[c] = "stopping" /\ NativeStop /\ closing' = FALSE
      /\ todo' = [todo EXCEPT ![c] = registered]
      /\ pc' = [pc EXCEPT ![c] = "deregistering"]
      /\ UNCHANGED <<currentTask, currentStream, cleanupVars, clientClosed, collector,
                     streamVars, call, stream, raising>>
  BY DEF Stopped
<1>2. CallTypes /\ LockTypes /\ RuntimeTypes /\ CleanupTypes /\ currentTask = None
  BY <1>1, TypeParts DEF IInv, Control, OneStop
<1>3. /\ \A w \in Workers : w # c => pc'[w] = pc[w]
      /\ pc'[c] = "deregistering" /\ status' # "active"
  BY <1>1, <1>2 DEF CallTypes, NativeStop
<1>4. TypeOK'
  <2>1. CallTypes'
    BY <1>1, <1>2 DEF CallTypes, CallerPCs, CleanupTypes
  <2>2. LockTypes' /\ RuntimeTypes' /\ CleanupTypes'
    BY <1>1, <1>2 DEF LockTypes, RuntimeTypes, CleanupTypes, NativeStop
  <2>3. QED
    BY <2>1, <2>2, TypeParts
<1>5. Control'
  BY <1>1, <1>2, <1>3 DEF IInv, Control, TaskIsCurrent, OneStop,
     InvocationIsUndisturbed, StatusIsHonest, NativeStop
<1>6. Shape' /\ FinalizedOnce'
  BY <1>1, <1>2, <1>3 DEF IInv, Shape, StreamsAreBorn, RegisteredFirst,
     FinalizedOnce, Closing, Drained, RuntimeTypes
<1>7. Cleanup'
  BY <1>1, <1>2, <1>3 DEF IInv, Cleanup, OneStream, PhasesAreTracked, RuntimeTypes,
     CompensationFollowsFailure, CollectorIsTracked, IsDone
<1>8. QED
  BY <1>4, <1>5, <1>6, <1>7 DEF IInv
-------------------------------------------------------------------------------
(* Deregistrations *)

\* What is kept of other requests than q stays.
Elsewhere(q) ==
  \A p \in Requests : p # q =>
    /\ p \in registered' <=> p \in registered
    /\ cleanup'[p] = cleanup[p]
    /\ collector'[p] = collector[p]

LEMMA DeregisterCollector ==
  ASSUME CleanupTypes, NEW q \in Requests, NEW removes, NEW ok, Deregister(q, removes, ok)
  PROVE  /\ collector' \in [Requests -> {"none", "open", "queued"}]
         /\ \A p \in Requests : p # q => collector'[p] = collector[p]
         /\ collector[q] = "none" => collector'[q] = "none"
         /\ removes /\ ok => collector'[q] = "none"
<1>1. \/ collector' = [collector EXCEPT ![q] = "none"]
      \/ ~removes /\ collector' = [collector EXCEPT
                         ![q] = IF @ = "open" THEN "queued" ELSE @]
      \/ ~ok /\ collector' = collector
  BY DEF Deregister
<1>2. QED
  BY <1>1 DEF CleanupTypes

\* A phase that ends gives the request back if it is the last, and neither failed.
LEMMA FinishPhaseCleanup ==
  ASSUME CleanupTypes, NEW q \in Requests, NEW phase \in Phases, NEW ok \in BOOLEAN,
         NEW removes, Deregister(q, removes, ok), FinishPhase(q, phase, ok)
  PROVE  /\ CleanupTypes' /\ Elsewhere(q)
         /\ q \in registered' => q \in registered
         /\ q \in registered' /\ ~cleanup'[q].failed =>
              ~cleanup[q].failed /\ ok /\ cleanup'[q].done = cleanup[q].done \cup {phase}
         /\ q \in registered /\ q \notin registered' =>
              /\ ok /\ ~cleanup[q].failed
              /\ cleanup[q].done \cup {phase} = Phases
         /\ q \notin registered => q \notin registered' /\ cleanup' = cleanup
         /\ Compensates(q, phase, ok) => cleanup'[q].failed
         /\ cleanup[q].failed /\ q \in registered' => cleanup'[q].failed
<1>1. /\ collector' \in [Requests -> {"none", "open", "queued"}]
      /\ \A p \in Requests : p # q => collector'[p] = collector[p]
  BY DeregisterCollector
<1>2. CASE q \notin registered
  BY <1>1, <1>2 DEF FinishPhase, CleanupTypes, Elsewhere, Compensates
<1>3. CASE q \in registered /\ After(q, phase, ok) = [done |-> Phases, failed |-> FALSE]
  <2>1. /\ registered' = registered \ {q}
        /\ cleanup' = [cleanup EXCEPT ![q] = Untouched]
    BY <1>3 DEF FinishPhase, Discard
  <2>2. ok /\ ~cleanup[q].failed /\ cleanup[q].done \cup {phase} = Phases
    BY <1>3 DEF After, CleanupTypes
  <2>3. Untouched \in [done : SUBSET Phases, failed : BOOLEAN] /\ Untouched.done # Phases
    BY DEF Untouched, Phases
  <2>4. CleanupTypes'
    BY <1>1, <2>1, <2>3 DEF CleanupTypes
  <2>5. Elsewhere(q)
    BY <1>1, <2>1 DEF Elsewhere, CleanupTypes
  <2>6. ~Compensates(q, phase, ok)
    BY <1>3 DEF Compensates
  <2>7. QED
    BY <1>3, <2>1, <2>2, <2>4, <2>5, <2>6
<1>4. CASE q \in registered /\ After(q, phase, ok) # [done |-> Phases, failed |-> FALSE]
  <2>1. /\ registered' = registered
        /\ cleanup' = [cleanup EXCEPT ![q] =
             IF Compensates(q, phase, ok) THEN [Untouched EXCEPT !.failed = TRUE]
                                          ELSE After(q, phase, ok)]
    BY <1>4 DEF FinishPhase
  <2>2. /\ After(q, phase, ok).done = cleanup[q].done \cup {phase}
        /\ After(q, phase, ok).failed <=> (cleanup[q].failed \/ ~ok)
        /\ After(q, phase, ok) \in [done : SUBSET Phases, failed : BOOLEAN]
    BY DEF After, CleanupTypes
  <2>3. CASE Compensates(q, phase, ok)
    <3>1. /\ cleanup'[q] = [done |-> {}, failed |-> TRUE]
          /\ \A p \in Requests : p # q => cleanup'[p] = cleanup[p]
          /\ cleanup' \in [Requests -> [done : SUBSET Phases, failed : BOOLEAN]]
      BY <2>1, <2>3 DEF CleanupTypes, Untouched
    <3>2. {} # Phases
      BY DEF Phases
    <3>3. CleanupTypes'
      BY <1>1, <1>4, <2>1, <3>1, <3>2 DEF CleanupTypes
    <3>4. QED
      BY <1>1, <1>4, <2>1, <3>1, <3>3 DEF Elsewhere
  <2>4. CASE ~Compensates(q, phase, ok)
    <3>1. /\ cleanup'[q] = After(q, phase, ok)
          /\ \A p \in Requests : p # q => cleanup'[p] = cleanup[p]
          /\ cleanup' \in [Requests -> [done : SUBSET Phases, failed : BOOLEAN]]
      BY <2>1, <2>2, <2>4 DEF CleanupTypes
    <3>2. After(q, phase, ok).done # Phases
      <4>1. SUFFICES ASSUME After(q, phase, ok).done = Phases PROVE FALSE
        OBVIOUS
      <4>2. After(q, phase, ok).failed = FALSE
        BY <1>4, <2>2, <2>4, <4>1 DEF Compensates
      <4>3. After(q, phase, ok) = [done |-> Phases, failed |-> FALSE]
        BY <2>2, <4>1, <4>2
      <4>4. QED
        BY <1>4, <4>3
    <3>3. CleanupTypes'
      BY <1>1, <1>4, <2>1, <3>1, <3>2 DEF CleanupTypes
    <3>4. QED
      BY <1>1, <1>4, <2>1, <2>2, <2>4, <3>1, <3>3 DEF Elsewhere
  <2>5. QED
    BY <2>3, <2>4
<1>5. QED
  BY <1>2, <1>3, <1>4

\* A compensating deregistration, or one of stop, gives the request back if it
\* succeeds.
LEMMA DiscardCleanup ==
  ASSUME CleanupTypes, NEW q \in Requests, NEW ok \in BOOLEAN, Deregister(q, TRUE, ok),
         IF ok THEN Discard(q) ELSE UNCHANGED cleanupVars
  PROVE  /\ CleanupTypes' /\ Elsewhere(q)
         /\ q \in registered' => q \in registered /\ cleanup' = cleanup
         /\ q \notin registered' => collector'[q] = "none" \/ q \notin registered
         /\ collector[q] = "none" => collector'[q] = "none"
<1>1. /\ collector' \in [Requests -> {"none", "open", "queued"}]
      /\ \A p \in Requests : p # q => collector'[p] = collector[p]
      /\ collector[q] = "none" => collector'[q] = "none"
      /\ ok => collector'[q] = "none"
  BY DeregisterCollector
<1>2. CASE ok
  <2>1. Untouched \in [done : SUBSET Phases, failed : BOOLEAN] /\ Untouched.done # Phases
    BY DEF Untouched, Phases
  <2>2. /\ registered' = registered \ {q}
        /\ cleanup' = [cleanup EXCEPT ![q] = Untouched]
    BY <1>2 DEF Discard
  <2>3. CleanupTypes'
    BY <1>1, <2>1, <2>2 DEF CleanupTypes
  <2>4. Elsewhere(q)
    BY <1>1, <2>2 DEF Elsewhere, CleanupTypes
  <2>5. QED
    BY <1>1, <1>2, <2>2, <2>3, <2>4
<1>3. CASE ~ok
  BY <1>1, <1>3 DEF CleanupTypes, Elsewhere
<1>4. QED
  BY <1>2, <1>3

\* Whoever is not over is the current stream.
LEMMA OnlyCurrent ==
  ASSUME IInv
  PROVE  /\ \A s \in Streams : pc[s] \notin {"unborn", "done"} => s = currentStream
         /\ \A c \in Callers : pc[c] \in {"finalizing", "compensating"} =>
              /\ stream[c] \in Streams /\ stream[c] = currentStream
              /\ request[stream[c]] \in Requests
              /\ ~finalized[stream[c]] /\ finishLock[stream[c]] = c
              /\ pc[stream[c]] \notin Fresh
BY TypeParts DEF IInv, Cleanup, OneStream, IsDone, Shape, StreamsAreBorn,
   RegisteredFirst, Closing, Drained, FinalizedOnce, LockTypes, Fresh

LEMMA OutcomeSettlesStep ==
  ASSUME IInv, NEW s \in Streams, OutcomeSettles(s) PROVE IInv'
<1> DEFINE q == request[s]
<1>1. /\ pc[s] = "deleting"
      /\ UNCHANGED <<runtimeVars, clientClosed, native, streamVars, callVars>>
  BY DEF OutcomeSettles
<1>2. PICK ok \in BOOLEAN :
        /\ Deregister(q, ~ready[s], ok)
        /\ FinishPhase(q, "outcome", ok)
        /\ pc' = [pc EXCEPT ![s] = IF Compensates(q, "outcome", ok)
                                   THEN "compensating" ELSE "done"]
  BY DEF OutcomeSettles
<1>3. /\ CallTypes /\ LockTypes /\ RuntimeTypes /\ CleanupTypes
      /\ q \in Requests /\ s = currentStream /\ s # None
  BY <1>1, TypeParts, OnlyCurrent DEF IInv, Shape, StreamsAreBorn
<1> HIDE DEF q
<1>4. /\ \A w \in Workers : w # s => pc'[w] = pc[w]
      /\ pc'[s] = IF Compensates(q, "outcome", ok) THEN "compensating" ELSE "done"
      /\ request[s] = q
  BY <1>2, <1>3 DEF CallTypes, q
<1>5. /\ CleanupTypes' /\ Elsewhere(q)
      /\ q \in registered' => q \in registered
      /\ q \in registered' /\ ~cleanup'[q].failed =>
           ~cleanup[q].failed /\ cleanup'[q].done = cleanup[q].done \cup {"outcome"}
      /\ q \in registered /\ q \notin registered' =>
           ~cleanup[q].failed /\ cleanup[q].done \cup {"outcome"} = Phases
      /\ Compensates(q, "outcome", ok) => cleanup'[q].failed
      /\ cleanup[q].failed /\ q \in registered' => cleanup'[q].failed
  BY <1>2, <1>3, FinishPhaseCleanup DEF Phases
<1>6. TypeOK'
  <2>1. CallTypes'
    BY <1>1, <1>2, <1>3 DEF CallTypes, StreamPCs
  <2>2. LockTypes' /\ RuntimeTypes'
    BY <1>1, <1>3 DEF LockTypes, RuntimeTypes
  <2>3. QED
    BY <1>5, <2>1, <2>2, TypeParts
<1>7. Control'
  BY <1>1, <1>4 DEF IInv, Control, TaskIsCurrent, OneStop, InvocationIsUndisturbed,
     StatusIsHonest
<1>8. Shape' /\ FinalizedOnce'
  BY <1>1, <1>3, <1>4 DEF IInv, Shape, StreamsAreBorn, RegisteredFirst,
     FinalizedOnce, Closing, Drained, Fresh
<1>9. OneStream'
  BY <1>1, <1>3, <1>4 DEF IInv, Cleanup, OneStream, IsDone
<1>10. PhasesAreTracked'
  <2>1. SUFFICES ASSUME NEW p \in registered', ~cleanup'[p].failed
                 PROVE  /\ request[s] = p
                        /\ "outcome" \in cleanup'[p].done <=> pc'[s] = "done"
                        /\ "finalizer" \in cleanup'[p].done <=> finalized[s]
    BY <1>1, <1>3 DEF PhasesAreTracked, IsDone
  <2>2. p \in Requests
    BY <1>5 DEF CleanupTypes
  <2>3. p = q
    BY <1>3, <1>4, <1>5, <2>1, <2>2 DEF IInv, Cleanup, PhasesAreTracked, Elsewhere
  <2>4. QED
    BY <1>3, <1>4, <1>5, <2>1, <2>3 DEF IInv, Cleanup, PhasesAreTracked
<1>11. CompensationFollowsFailure'
  <2>1. ASSUME NEW x \in Streams, pc'[x] = "compensating", request[x] \in registered'
        PROVE  cleanup'[request[x]].failed
    <3>1. x = s
      BY <1>3, <1>4, <2>1, OnlyCurrent
    <3>2. QED
      BY <1>4, <1>5, <2>1, <3>1
  <2>2. ASSUME NEW d \in Callers, pc'[d] = "compensating",
               request[stream[d]] \in registered'
        PROVE  cleanup'[request[stream[d]]].failed
    <3>1. pc[d] = "compensating" /\ request[stream[d]] = q
      BY <1>3, <1>4, <2>2, OnlyCurrent
    <3>2. QED
      BY <1>5, <2>2, <3>1 DEF IInv, Cleanup, CompensationFollowsFailure
  <2>3. QED
    BY <1>1, <2>1, <2>2 DEF CompensationFollowsFailure
<1>12. CollectorIsTracked'
  <2>1. \A d \in Callers : pc'[d] = "deregistering" => status' # "active"
    BY <1>1, <1>3, <1>4 DEF IInv, Cleanup, CollectorIsTracked
  <2>2. \A x \in Streams : pc'[x] # "registering"
    BY <1>1, <1>3, <1>4, OnlyCurrent
  <2>3. ASSUME status = "active", NEW p \in Requests,
               p \notin registered'
               \/ ("finalizer" \in cleanup'[p].done /\ ~cleanup'[p].failed)
        PROVE  collector'[p] = "none"
    <3>1. CASE p # q
      BY <1>5, <2>3, <3>1 DEF IInv, Cleanup, CollectorIsTracked, Elsewhere
    <3>2. CASE p = q
      <4>1. q \in registered => "finalizer" \in cleanup[q].done /\ ~cleanup[q].failed
        BY <1>5, <2>3, <3>2 DEF Phases
      <4>2. collector[q] = "none"
        BY <1>3, <2>3, <4>1 DEF IInv, Cleanup, CollectorIsTracked
      <4>3. QED
        BY <1>2, <1>3, <3>2, <4>2, DeregisterCollector
    <3>3. QED
      BY <3>1, <3>2
  <2>4. QED
    BY <1>1, <2>1, <2>2, <2>3 DEF CollectorIsTracked
<1>13. QED
  BY <1>6, <1>7, <1>8, <1>9, <1>10, <1>11, <1>12 DEF IInv, Cleanup

\* A compensating deregistration, by the stream's task or by a caller: there is
\* no reservation left whose cleanup has not failed.
LEMMA CompensationCleanup ==
  ASSUME IInv, NEW q \in Requests, currentStream # None, request[currentStream] = q,
         q \in registered => cleanup[q].failed, NEW ok \in BOOLEAN,
         Deregister(q, TRUE, ok), IF ok THEN Discard(q) ELSE UNCHANGED cleanupVars
  PROVE  /\ CleanupTypes' /\ Elsewhere(q)
         /\ \A p \in registered' : p \in registered /\ cleanup'[p] = cleanup[p]
         /\ \A p \in registered' : cleanup'[p].failed
         /\ status = "active" => \A p \in Requests \ registered' : collector'[p] = "none"
<1>1. CleanupTypes
  BY TypeParts DEF IInv
<1>2. /\ CleanupTypes' /\ Elsewhere(q)
      /\ q \in registered' => q \in registered /\ cleanup' = cleanup
      /\ q \notin registered' => collector'[q] = "none" \/ q \notin registered
      /\ collector[q] = "none" => collector'[q] = "none"
  BY <1>1, DiscardCleanup
<1>3. \A p \in registered' : p \in registered /\ cleanup'[p] = cleanup[p]
  BY <1>2 DEF CleanupTypes, Elsewhere
<1>4. \A p \in registered : cleanup[p].failed
  <2>1. SUFFICES ASSUME NEW p \in registered, ~cleanup[p].failed PROVE FALSE
    BY <1>1 DEF CleanupTypes
  <2>2. QED
    BY <2>1 DEF IInv, Cleanup, PhasesAreTracked
<1>5. status = "active" => \A p \in Requests \ registered' : collector'[p] = "none"
  BY <1>2 DEF IInv, Cleanup, CollectorIsTracked, Elsewhere
<1>6. QED
  BY <1>2, <1>3, <1>4, <1>5

LEMMA StreamCompensatedStep ==
  ASSUME IInv, NEW s \in Streams, StreamCompensated(s) PROVE IInv'
<1> DEFINE q == request[s]
<1>1. /\ pc[s] = "compensating" /\ pc' = [pc EXCEPT ![s] = "done"]
      /\ UNCHANGED <<runtimeVars, clientClosed, native, streamVars, callVars>>
  BY DEF StreamCompensated
<1>2. PICK ok \in BOOLEAN :
        Deregister(q, TRUE, ok) /\ IF ok THEN Discard(q) ELSE UNCHANGED cleanupVars
  BY DEF StreamCompensated
<1>3. /\ CallTypes /\ LockTypes /\ RuntimeTypes
      /\ q \in Requests /\ s = currentStream /\ s # None
      /\ q \in registered => cleanup[q].failed
  BY <1>1, TypeParts, OnlyCurrent DEF IInv, Shape, StreamsAreBorn, Cleanup,
     CompensationFollowsFailure
<1>4. /\ CleanupTypes'
      /\ \A p \in registered' : p \in registered /\ cleanup'[p] = cleanup[p]
      /\ \A p \in registered' : cleanup'[p].failed
      /\ status = "active" => \A p \in Requests \ registered' : collector'[p] = "none"
  BY <1>2, <1>3, CompensationCleanup
<1> HIDE DEF q
<1>5. (\A w \in Workers : w # s => pc'[w] = pc[w]) /\ pc'[s] = "done"
  BY <1>1, <1>3 DEF CallTypes
<1>6. TypeOK'
  <2>1. CallTypes'
    BY <1>1, <1>3 DEF CallTypes, StreamPCs
  <2>2. LockTypes' /\ RuntimeTypes'
    BY <1>1, <1>3 DEF LockTypes, RuntimeTypes
  <2>3. QED
    BY <1>4, <2>1, <2>2, TypeParts
<1>7. Control'
  BY <1>1, <1>5 DEF IInv, Control, TaskIsCurrent, OneStop, InvocationIsUndisturbed,
     StatusIsHonest
<1>8. Shape' /\ FinalizedOnce'
  BY <1>1, <1>3, <1>5 DEF IInv, Shape, StreamsAreBorn, RegisteredFirst,
     FinalizedOnce, Closing, Drained, Fresh
<1>9. OneStream' /\ PhasesAreTracked'
  BY <1>1, <1>4, <1>5 DEF IInv, Cleanup, OneStream, PhasesAreTracked, IsDone
<1>10. CompensationFollowsFailure'
  BY <1>1, <1>4, <1>5 DEF CompensationFollowsFailure
<1>11. CollectorIsTracked'
  <2>1. \A x \in Streams : pc'[x] # "registering"
    BY <1>1, <1>3, <1>5, OnlyCurrent
  <2>2. QED
    BY <1>1, <1>3, <1>4, <1>5, <2>1 DEF IInv, Cleanup, CollectorIsTracked
<1>12. QED
  BY <1>6, <1>7, <1>8, <1>9, <1>10, <1>11 DEF IInv, Cleanup

LEMMA StopDeregistersStep ==
  ASSUME IInv, NEW c \in Callers, StopDeregisters(c) PROVE IInv'
<1>1. /\ pc[c] = "deregistering"
      /\ UNCHANGED <<runtimeVars, clientClosed, native, pc, streamVars, call, stream, raising>>
  BY DEF StopDeregisters
<1>2. CallTypes /\ LockTypes /\ RuntimeTypes /\ CleanupTypes
  BY TypeParts DEF IInv
<1>3. PICK q \in todo[c] :
        /\ todo' = [todo EXCEPT ![c] = @ \ {q}]
        /\ \/ \E ok \in BOOLEAN :
                Deregister(q, TRUE, ok) /\ IF ok THEN Discard(q) ELSE UNCHANGED cleanupVars
           \/ UNCHANGED <<collector, cleanupVars>>
  BY DEF StopDeregisters
<1>4. q \in Requests
  BY <1>2, <1>3 DEF CallTypes
<1>5. /\ CleanupTypes'
      /\ \A p \in registered' : p \in registered /\ cleanup'[p] = cleanup[p]
  <2>1. ASSUME NEW ok \in BOOLEAN, Deregister(q, TRUE, ok),
               IF ok THEN Discard(q) ELSE UNCHANGED cleanupVars
        PROVE  /\ CleanupTypes'
               /\ \A p \in registered' : p \in registered /\ cleanup'[p] = cleanup[p]
    <3>1. /\ CleanupTypes' /\ Elsewhere(q)
          /\ q \in registered' => q \in registered /\ cleanup' = cleanup
      BY <1>2, <1>4, <2>1, DiscardCleanup
    <3>2. QED
      BY <3>1 DEF CleanupTypes, Elsewhere
  <2>2. ASSUME UNCHANGED <<collector, cleanupVars>>
        PROVE  /\ CleanupTypes'
               /\ \A p \in registered' : p \in registered /\ cleanup'[p] = cleanup[p]
    BY <1>2, <2>2 DEF CleanupTypes
  <2>3. QED
    BY <1>3, <2>1, <2>2
<1>6. TypeOK'
  <2>1. CallTypes'
    BY <1>1, <1>2, <1>3 DEF CallTypes
  <2>2. LockTypes' /\ RuntimeTypes'
    BY <1>1, <1>2 DEF LockTypes, RuntimeTypes
  <2>3. QED
    BY <1>5, <2>1, <2>2, TypeParts
<1>7. Control' /\ Shape' /\ FinalizedOnce'
  BY <1>1 DEF IInv, Control, TaskIsCurrent, OneStop, InvocationIsUndisturbed,
     StatusIsHonest, Shape, StreamsAreBorn, RegisteredFirst, FinalizedOnce
<1>8. status # "active"
  BY <1>1 DEF IInv, Cleanup, CollectorIsTracked
<1>9. Cleanup'
  BY <1>1, <1>5, <1>8 DEF IInv, Cleanup, OneStream, PhasesAreTracked,
     CompensationFollowsFailure, CollectorIsTracked, IsDone
<1>10. QED
  BY <1>6, <1>7, <1>9 DEF IInv
-------------------------------------------------------------------------------
(* The finalizer *)

\* What the end of _finish_stream preserves, whatever became of the request.
LEMMA FinishParts ==
  ASSUME IInv, NEW c \in Callers, NEW failed \in BOOLEAN, Finish(c, failed),
         pc[c] \in {"finish_lock", "finalizing", "compensating"},
         finishLock[stream[c]] \in {None, c}, CleanupTypes',
         UNCHANGED <<status, currentTask, currentStream, native, request, ready>>
  PROVE  /\ TypeOK' /\ Control' /\ Shape' /\ FinalizedOnce' /\ OneStream'
         /\ \A w \in Workers : w # c => pc'[w] = pc[w]
         /\ \A d \in Callers : d # c => stream'[d] = stream[d]
         /\ pc'[c] \notin {"compensating", "deregistering"}
         /\ finalized' = [finalized EXCEPT ![stream[c]] = TRUE]
<1> DEFINE L == {"idle", "close_wait", "exit_stop", "stopping", "await_task"}
<1>1. /\ CallTypes /\ LockTypes /\ RuntimeTypes
      /\ stream[c] \in Streams /\ pc[stream[c]] \notin Fresh
  BY TypeParts DEF IInv, Shape, StreamsAreBorn, RegisteredFirst, Closing, Drained
<1>2. /\ Moved(c, L, stream[c])
      /\ finalized' = [finalized EXCEPT ![stream[c]] = TRUE]
      /\ finishLock' = [finishLock EXCEPT ![stream[c]] = None]
      /\ LockTypes'
  BY <1>1, FinishMoves
<1>3. /\ \A w \in Workers : w # c => pc'[w] = pc[w]
      /\ \A d \in Callers : d # c => stream'[d] = stream[d]
      /\ pc'[c] \in L
  BY <1>2 DEF Moved
<1>4. TypeOK'
  BY <1>1, <1>2, TypeParts DEF Moved, RuntimeTypes
<1>5. Control'
  BY <1>2, ControlMoves DEF IInv, Native
<1>6. Shape'
  <2>1. \A x \in Streams : finalized'[x] => finalized[x] \/ pc[x] \notin Fresh
    BY <1>1, <1>2 DEF LockTypes
  <2>2. pc[stream[c]] # "unborn"
    BY <1>1 DEF Fresh
  <2>3. QED
    BY <1>1, <1>2, <2>1, <2>2, ShapeMoves DEF IInv
<1>7. FinalizedOnce'
  <2>1. SUFFICES ASSUME NEW d \in Callers, pc'[d] \in {"finalizing", "compensating"}
                 PROVE  ~finalized'[stream'[d]] /\ finishLock'[stream'[d]] = d
    BY DEF FinalizedOnce
  <2>2. d # c /\ pc[d] \in {"finalizing", "compensating"} /\ stream'[d] = stream[d]
    BY <1>3, <2>1
  <2>3. ~finalized[stream[d]] /\ finishLock[stream[d]] = d /\ stream[d] \in Streams
    BY <2>2, OnlyCurrent
  <2>4. stream[d] # stream[c]
    BY <2>2, <2>3
  <2>5. QED
    BY <1>1, <1>2, <2>2, <2>3, <2>4 DEF LockTypes
<1>8. OneStream'
  BY <1>1, <1>2, <1>3 DEF IInv, Cleanup, OneStream, IsDone, LockTypes
<1>9. QED
  BY <1>2, <1>3, <1>4, <1>5, <1>6, <1>7, <1>8

LEMMA TakeFinishLockStep ==
  ASSUME IInv, NEW c \in Callers, TakeFinishLock(c) PROVE IInv'
<1> DEFINE s == stream[c]
<1>1. /\ pc[c] = "finish_lock" /\ finishLock[s] = None
      /\ UNCHANGED <<status, currentTask, currentStream, cleanupVars, native, collector,
                     request, ready>>
  BY DEF TakeFinishLock
<1>2. /\ CallTypes /\ LockTypes /\ RuntimeTypes /\ CleanupTypes
      /\ s \in Streams /\ pc[s] \notin Fresh
  BY <1>1, TypeParts DEF IInv, Shape, StreamsAreBorn, RegisteredFirst, Closing, Drained
<1>3. CleanupTypes'
  BY <1>1, <1>2 DEF CleanupTypes
<1>4. CASE Finish(c, FALSE) /\ (finalized[s] \/ request[s] \notin registered)
  <2>1. /\ TypeOK' /\ Control' /\ Shape' /\ FinalizedOnce' /\ OneStream'
        /\ \A w \in Workers : w # c => pc'[w] = pc[w]
        /\ \A d \in Callers : d # c => stream'[d] = stream[d]
        /\ pc'[c] \notin {"compensating", "deregistering"}
        /\ finalized' = [finalized EXCEPT ![s] = TRUE]
    BY <1>1, <1>3, <1>4, FinishParts
  <2>2. PhasesAreTracked'
    <3>1. ASSUME NEW p \in registered, ~cleanup[p].failed
          PROVE  finalized'[currentStream] <=> finalized[currentStream]
      <4>1. currentStream # None /\ request[currentStream] = p
        BY <3>1 DEF IInv, Cleanup, PhasesAreTracked
      <4>2. CASE currentStream = s
        BY <1>2, <1>4, <2>1, <3>1, <4>1, <4>2 DEF LockTypes
      <4>3. CASE currentStream # s
        BY <1>2, <2>1, <4>1, <4>3 DEF LockTypes, RuntimeTypes
      <4>4. QED
        BY <4>2, <4>3
    <3>2. QED
      BY <1>1, <1>2, <2>1, <3>1 DEF IInv, Cleanup, PhasesAreTracked, IsDone, RuntimeTypes
  <2>3. CompensationFollowsFailure' /\ CollectorIsTracked'
    BY <1>1, <2>1 DEF IInv, Cleanup, CompensationFollowsFailure, CollectorIsTracked
  <2>4. QED
    BY <2>1, <2>2, <2>3 DEF IInv, Cleanup
<1>5. CASE /\ ~finalized[s]
           /\ finishLock' = [finishLock EXCEPT ![s] = c]
           /\ pc' = [pc EXCEPT ![c] = "finalizing"]
           /\ UNCHANGED <<finalized, clientClosed, closing, finalizeLock, callVars>>
  <2>1. (\A w \in Workers : w # c => pc'[w] = pc[w]) /\ pc'[c] = "finalizing"
    BY <1>2, <1>5 DEF CallTypes
  <2>2. TypeOK'
    <3>1. CallTypes'
      BY <1>2, <1>5 DEF CallTypes, CallerPCs
    <3>2. LockTypes' /\ RuntimeTypes'
      BY <1>1, <1>2, <1>5 DEF LockTypes, RuntimeTypes
    <3>3. QED
      BY <1>3, <3>1, <3>2, TypeParts
  <2>3. Control'
    BY <1>1, <1>5, <2>1 DEF IInv, Control, TaskIsCurrent, OneStop,
       InvocationIsUndisturbed, StatusIsHonest
  <2>4. Shape'
    BY <1>1, <1>2, <1>5, <2>1 DEF IInv, Shape, StreamsAreBorn, RegisteredFirst,
       Closing, Drained, Fresh, RuntimeTypes
  <2>5. FinalizedOnce'
    <3>1. SUFFICES ASSUME NEW d \in Callers, pc'[d] \in {"finalizing", "compensating"}
                   PROVE  ~finalized[stream[d]] /\ finishLock'[stream[d]] = d
      BY <1>5 DEF FinalizedOnce
    <3>2. CASE d = c
      BY <1>2, <1>5, <3>2 DEF LockTypes
    <3>3. CASE d # c
      BY <1>1, <1>2, <1>5, <2>1, <3>1, <3>3, OnlyCurrent DEF LockTypes
    <3>4. QED
      BY <3>2, <3>3
  <2>6. Cleanup'
    BY <1>1, <1>2, <1>5, <2>1 DEF IInv, Cleanup, OneStream, PhasesAreTracked,
       CompensationFollowsFailure, CollectorIsTracked, IsDone, RuntimeTypes
  <2>7. QED
    BY <2>2, <2>3, <2>4, <2>5, <2>6 DEF IInv
<1>6. QED
  BY <1>4, <1>5 DEF TakeFinishLock

LEMMA CallerCompensatedStep ==
  ASSUME IInv, NEW c \in Callers, CallerCompensated(c) PROVE IInv'
<1> DEFINE s == stream[c]
           q == request[s]
<1>1. /\ pc[c] = "compensating"
      /\ UNCHANGED <<status, currentTask, currentStream, native, request, ready>>
  BY DEF CallerCompensated
<1>2. PICK ok \in BOOLEAN :
        /\ Deregister(q, TRUE, ok)
        /\ IF ok THEN Discard(q) ELSE UNCHANGED cleanupVars
        /\ Finish(c, ~ok)
  BY DEF CallerCompensated
<1>3. /\ s \in Streams /\ s = currentStream /\ s # None /\ q \in Requests
      /\ finishLock[s] = c /\ pc[s] \notin Fresh
      /\ q \in registered => cleanup[q].failed
  BY <1>1, OnlyCurrent DEF IInv, Cleanup, CompensationFollowsFailure
<1>4. /\ CleanupTypes'
      /\ \A p \in registered' : p \in registered /\ cleanup'[p] = cleanup[p]
      /\ \A p \in registered' : cleanup'[p].failed
      /\ status = "active" => \A p \in Requests \ registered' : collector'[p] = "none"
  BY <1>2, <1>3, CompensationCleanup
<1>5. /\ TypeOK' /\ Control' /\ Shape' /\ FinalizedOnce' /\ OneStream'
      /\ \A w \in Workers : w # c => pc'[w] = pc[w]
      /\ \A d \in Callers : d # c => stream'[d] = stream[d]
      /\ pc'[c] \notin {"compensating", "deregistering"}
  BY <1>1, <1>2, <1>3, <1>4, FinishParts
<1>6. PhasesAreTracked'
  BY <1>4 DEF PhasesAreTracked
<1>7. CompensationFollowsFailure'
  BY <1>4 DEF CompensationFollowsFailure
<1>8. CollectorIsTracked'
  <2>1. \A x \in Streams : pc'[x] # "registering"
    BY <1>3, <1>5, OnlyCurrent DEF Fresh
  <2>2. QED
    BY <1>1, <1>4, <1>5, <2>1 DEF IInv, Cleanup, CollectorIsTracked
<1>9. QED
  BY <1>5, <1>6, <1>7, <1>8 DEF IInv, Cleanup

LEMMA FinalizerSettlesStep ==
  ASSUME IInv, NEW c \in Callers, FinalizerSettles(c) PROVE IInv'
<1> DEFINE s == stream[c]
           q == request[s]
<1>1. /\ pc[c] = "finalizing"
      /\ UNCHANGED <<status, currentTask, currentStream, native, request, ready>>
  BY DEF FinalizerSettles
<1>2. PICK ok \in BOOLEAN :
        /\ Deregister(q, TRUE, ok)
        /\ FinishPhase(q, "finalizer", ok)
        /\ IF Compensates(q, "finalizer", ok)
           THEN /\ pc' = [pc EXCEPT ![c] = "compensating"]
                /\ raising' = [raising EXCEPT ![c] = @ \/ ~ok]
                /\ UNCHANGED <<finalized, finishLock, finalizeLock, closing,
                               clientClosed, call, stream, todo>>
           ELSE Finish(c, ~ok)
  BY DEF FinalizerSettles
<1>3. /\ CallTypes /\ LockTypes /\ RuntimeTypes /\ CleanupTypes
      /\ s \in Streams /\ s = currentStream /\ s # None /\ q \in Requests
      /\ ~finalized[s] /\ finishLock[s] = c /\ pc[s] \notin Fresh
  BY <1>1, TypeParts, OnlyCurrent DEF IInv
<1>4. /\ CleanupTypes' /\ Elsewhere(q)
      /\ q \in registered' => q \in registered
      /\ q \in registered' /\ ~cleanup'[q].failed =>
           ~cleanup[q].failed /\ ok
           /\ cleanup'[q].done = cleanup[q].done \cup {"finalizer"}
      /\ q \in registered /\ q \notin registered' => ok
      /\ Compensates(q, "finalizer", ok) => cleanup'[q].failed
      /\ cleanup[q].failed /\ q \in registered' => cleanup'[q].failed
  BY <1>2, <1>3, FinishPhaseCleanup DEF Phases
<1>5. \A p \in registered' : ~cleanup'[p].failed => p = q
  BY <1>3, <1>4 DEF IInv, Cleanup, PhasesAreTracked, Elsewhere, CleanupTypes
<1>6. status = "active" =>
        \A p \in Requests :
          (p \notin registered'
           \/ ("finalizer" \in cleanup'[p].done /\ ~cleanup'[p].failed))
          => collector'[p] = "none"
  <2>1. SUFFICES ASSUME status = "active", NEW p \in Requests,
                        p \notin registered'
                        \/ ("finalizer" \in cleanup'[p].done /\ ~cleanup'[p].failed)
                 PROVE  collector'[p] = "none"
    OBVIOUS
  <2>2. CASE p # q
    BY <1>4, <2>1, <2>2 DEF IInv, Cleanup, CollectorIsTracked, Elsewhere
  <2>3. CASE p = q
    <3>1. ok => collector'[q] = "none"
      BY <1>2, <1>3, DeregisterCollector
    <3>2. q \notin registered => collector'[q] = "none"
      BY <1>2, <1>3, <2>1, DeregisterCollector DEF IInv, Cleanup, CollectorIsTracked
    <3>3. QED
      BY <1>4, <2>1, <2>3, <3>1, <3>2
  <2>4. QED
    BY <2>2, <2>3
<1>7. CASE Compensates(q, "finalizer", ok)
  <2>1. /\ pc' = [pc EXCEPT ![c] = "compensating"]
        /\ raising' = [raising EXCEPT ![c] = @ \/ ~ok]
        /\ UNCHANGED <<finalized, finishLock, finalizeLock, closing,
                       clientClosed, call, stream, todo>>
    BY <1>2, <1>7
  <2>2. (\A w \in Workers : w # c => pc'[w] = pc[w]) /\ pc'[c] = "compensating"
    BY <1>3, <2>1 DEF CallTypes
  <2>3. TypeOK'
    <3>1. CallTypes'
      BY <1>3, <2>1 DEF CallTypes, CallerPCs
    <3>2. LockTypes' /\ RuntimeTypes'
      BY <1>1, <1>3, <2>1 DEF LockTypes, RuntimeTypes
    <3>3. QED
      BY <1>4, <3>1, <3>2, TypeParts
  <2>4. Control'
    BY <1>1, <2>1, <2>2 DEF IInv, Control, TaskIsCurrent, OneStop,
       InvocationIsUndisturbed, StatusIsHonest
  <2>5. Shape' /\ FinalizedOnce' /\ OneStream'
    BY <1>1, <1>3, <2>1, <2>2 DEF IInv, Shape, StreamsAreBorn, RegisteredFirst,
       Closing, Drained, Fresh, RuntimeTypes, FinalizedOnce, Cleanup, OneStream, IsDone
  <2>6. \A p \in registered' : cleanup'[p].failed
    BY <1>4, <1>5, <1>7
  <2>7. PhasesAreTracked' /\ CompensationFollowsFailure'
    BY <2>6 DEF PhasesAreTracked, CompensationFollowsFailure
  <2>8. CollectorIsTracked'
    <3>1. \A x \in Streams : pc'[x] # "registering"
      BY <1>3, <2>2, OnlyCurrent DEF Fresh
    <3>2. QED
      BY <1>1, <1>6, <2>2, <3>1 DEF IInv, Cleanup, CollectorIsTracked
  <2>9. QED
    BY <2>3, <2>4, <2>5, <2>7, <2>8 DEF IInv, Cleanup
<1>8. CASE ~Compensates(q, "finalizer", ok)
  <2>1. /\ TypeOK' /\ Control' /\ Shape' /\ FinalizedOnce' /\ OneStream'
        /\ \A w \in Workers : w # c => pc'[w] = pc[w]
        /\ \A d \in Callers : d # c => stream'[d] = stream[d]
        /\ pc'[c] \notin {"compensating", "deregistering"}
        /\ finalized' = [finalized EXCEPT ![s] = TRUE]
    BY <1>1, <1>2, <1>3, <1>4, <1>8, FinishParts
  <2>2. PhasesAreTracked'
    <3>1. SUFFICES ASSUME NEW p \in registered', ~cleanup'[p].failed
                   PROVE  /\ request[s] = p
                          /\ "outcome" \in cleanup'[p].done <=> pc'[s] = "done"
                          /\ "finalizer" \in cleanup'[p].done <=> finalized'[s]
      BY <1>1, <1>3 DEF PhasesAreTracked, IsDone
    <3>2. p = q
      BY <1>5, <3>1
    <3>3. pc'[s] = pc[s] /\ finalized'[s]
      BY <1>3, <2>1 DEF LockTypes
    <3>4. QED
      BY <1>3, <1>4, <3>1, <3>2, <3>3 DEF IInv, Cleanup, PhasesAreTracked, IsDone
  <2>3. CompensationFollowsFailure'
    <3>1. \A x \in Streams : pc'[x] = "compensating" =>
            pc[x] = "compensating" /\ x = s
      BY <1>3, <2>1, OnlyCurrent
    <3>2. \A d \in Callers : pc'[d] # "compensating"
      BY <1>3, <2>1, OnlyCurrent
    <3>3. QED
      BY <1>1, <1>4, <3>1, <3>2 DEF IInv, Cleanup, CompensationFollowsFailure
  <2>4. CollectorIsTracked'
    <3>1. \A x \in Streams : pc'[x] # "registering"
      BY <1>3, <2>1, OnlyCurrent DEF Fresh
    <3>2. QED
      BY <1>1, <1>6, <2>1, <3>1 DEF IInv, Cleanup, CollectorIsTracked
  <2>5. QED
    BY <2>1, <2>2, <2>3, <2>4 DEF IInv, Cleanup
<1>9. QED
  BY <1>7, <1>8
-------------------------------------------------------------------------------
(* The theorems *)

LEMMA InitInvariant == Init => IInv
<1> SUFFICES ASSUME Init PROVE IInv
  OBVIOUS
<1>1. TypeOK
  BY DEF Init, TypeOK, Untouched, Phases, Calls, StreamPCs, CallerPCs
<1>2. Control /\ Shape /\ FinalizedOnce
  BY DEF Init, Control, TaskIsCurrent, OneStop, InvocationIsUndisturbed,
     StatusIsHonest, Shape, StreamsAreBorn, RegisteredFirst, FinalizedOnce, Closing,
     Drained
<1>3. Cleanup
  BY DEF Init, Cleanup, OneStream, PhasesAreTracked, CompensationFollowsFailure,
     CollectorIsTracked
<1>4. QED
  BY <1>1, <1>2, <1>3 DEF IInv

LEMMA NextInvariant == IInv /\ [Next]_vars => IInv'
<1> SUFFICES ASSUME IInv, [Next]_vars PROVE IInv'
  OBVIOUS
<1>1. ASSUME NEW s \in Streams, StreamStep(s) PROVE IInv'
  BY <1>1, RegistrationSettlesStep, StreamInvokedStep, OutcomeSettlesStep,
     StreamCompensatedStep DEF StreamStep
<1>2. ASSUME NEW c \in Callers, CallerStep(c) PROVE IInv'
  BY <1>2, CallerInvokedStep, CancelStoppedStep, TakeFinalizeLockStep, DrainStep,
     TaskIsDoneStep, TakeFinishLockStep, FinalizerSettlesStep, CallerCompensatedStep,
     CloseWaitsStep, ExitStopStep, StoppedStep, StopDeregistersStep, StopClosesStep
     DEF CallerStep
<1>3. ASSUME NEW c \in Callers, Begin(c) PROVE IInv'
  BY <1>3, InvokeStep, InvokeStreamStep, StopStep, ExitStep, FinalizeStep,
     ReadFailsStep, CancelShieldedStep, CancelWaitStep DEF Begin, Calls
<1>4. ASSUME UNCHANGED vars PROVE IInv'
  <2>1. TypeOK' /\ Control' /\ Shape' /\ FinalizedOnce'
    BY <1>4 DEF vars, IInv, TypeOK, Control, TaskIsCurrent, OneStop,
       InvocationIsUndisturbed, StatusIsHonest, Shape, StreamsAreBorn,
       RegisteredFirst, FinalizedOnce
  <2>2. Cleanup'
    BY <1>4 DEF vars, IInv, Cleanup, OneStream, PhasesAreTracked,
       CompensationFollowsFailure, CollectorIsTracked, IsDone
  <2>3. QED
    BY <2>1, <2>2 DEF IInv
<1>5. QED
  BY <1>1, <1>2, <1>3, <1>4 DEF Next

\* The invariant of the SDK runtime, whatever its callers do.
THEOREM Invariance == Spec => []IInv
  BY InitInvariant, NextInvariant, PTL DEF Spec

\* The state of the SDK runtime is what its types say, the phases of a cleanup
\* included: both finished means the request was given back or is compensated.
THEOREM TypeCorrect == Spec => []TypeOK
<1>1. IInv => TypeOK
  BY DEF IInv
<1>2. QED
  BY <1>1, Invariance, PTL

\* One task at a time is in the native runtime: invocations, stops, and the
\* stops that follow cancelled invocations exclude each other.
THEOREM NativeCallsAreSerial == Spec => []OneNativeCall
<1>1. IInv => OneNativeCall
  BY DEF IInv, Control, TaskIsCurrent, OneStop, OneNativeCall, InNative, TypeOK,
     StreamPCs
<1>2. QED
  BY <1>1, Invariance, PTL

\* No invocation runs on a runtime that is stopping, stopped or failed, although
\* a stream waits for its registration before it is invoked.
THEOREM InvocationsAreUndisturbed == Spec => []InvocationIsUndisturbed
<1>1. IInv => InvocationIsUndisturbed
  BY DEF IInv, Control
<1>2. QED
  BY <1>1, Invariance, PTL

\* The status never says stopped of a native runtime that lives, nor active of one that
\* is gone, with calls that are cancelled and stops that fail after they took effect.
THEOREM StatusTellsTheTruth == Spec => []StatusIsHonest
<1>1. IInv => StatusIsHonest
  BY DEF IInv, Control
<1>2. QED
  BY <1>1, Invariance, PTL

\* on_finalize of a stream runs once, for any number of readers, closers and
\* stops that finish it.
THEOREM StreamsFinishOnce == Spec => []FinalizedOnce
<1>1. IInv => FinalizedOnce
  BY DEF IInv
<1>2. QED
  BY <1>1, Invariance, PTL

\* A reservation outlives its stream only if its cleanup failed, whichever of the
\* task and the finalizer comes last.
THEOREM ReservationsEnd == Spec => []ReservationEnds
<1>1. IInv => ReservationEnds
  <2>1. SUFFICES ASSUME IInv, NEW q \in registered, ~cleanup[q].failed
                 PROVE  \E s \in Streams : request[s] = q /\ ~(finalized[s] /\ IsDone(s))
    BY DEF ReservationEnds
  <2>2. /\ currentStream \in Streams /\ request[currentStream] = q
        /\ cleanup[q].done \subseteq Phases /\ cleanup[q].done # Phases
    BY <2>1, TypeParts DEF IInv, Cleanup, PhasesAreTracked, RuntimeTypes, CleanupTypes
  <2>3. ~("outcome" \in cleanup[q].done /\ "finalizer" \in cleanup[q].done)
    BY <2>2 DEF Phases
  <2>4. QED
    BY <2>1, <2>2, <2>3 DEF IInv, Cleanup, PhasesAreTracked
<1>2. QED
  BY <1>1, Invariance, PTL

\* While the runtime is in service the collector keeps nothing that no one would
\* deregister, whatever requests to it fail.
THEOREM RegistrationsAreOwned == Spec => []RegistrationIsOwned
<1>1. IInv => RegistrationIsOwned
  BY DEF IInv, Cleanup, CollectorIsTracked, RegistrationIsOwned
<1>2. QED
  BY <1>1, Invariance, PTL
=================================================================================
