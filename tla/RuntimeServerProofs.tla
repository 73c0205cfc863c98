-------------------------- MODULE RuntimeServerProofs --------------------------
(****************************************************************************)
(* Proofs about RuntimeServer, for any number of handlers and runtimes: the *)
(* locks keep starts, and the calls of one runtime, apart; a stop is final, *)
(* a living runtime keeps its record, and an orderly shutdown leaves none.  *)
(****************************************************************************)
EXTENDS RuntimeServer, FiniteSetTheorems, TLAPS

\* The parts of TypeOK.
DictTypes ==
  /\ records \subseteq Runtimes /\ order \subseteq records \X records
  /\ \A q, r \in records : <<q, r>> \in order <=> q # r /\ <<r, q>> \notin order
RuntimeTypes ==
  /\ state \in [Runtimes -> {"none", "running", "unknown", "stopping", "stopped"}]
  /\ generation \in [Runtimes -> Nat]
  /\ owner \in [Runtimes -> Tasks \cup {None}]
  /\ status \in [Runtimes -> {"active", "failed", "stopped"}]
  /\ alive \subseteq Runtimes /\ todo \subseteq Runtimes
  /\ startLock \in Tasks \cup {None} /\ main \in Mains
FlagTypes ==
  /\ orphan \in BOOLEAN /\ effects \in BOOLEAN /\ shuttingDown \in BOOLEAN
  /\ startUncertain \in BOOLEAN /\ hasUsed \in BOOLEAN /\ failures \in BOOLEAN
HandlerTypes ==
  /\ pc \in [Handlers -> PCs] /\ target \in [Handlers -> Runtimes \cup {None}]
  /\ before \in [Handlers -> BOOLEAN] /\ seen \in [Handlers -> Nat]
  /\ probe \in [Handlers -> Probes]

\* A request about a runtime is about one that had a record.
Targets ==
  \A h \in Handlers :
    pc[h] \in {"stop_lock", "stopping", "invoke_lock", "invoking", "checking"} =>
      target[h] \in Runtimes /\ state[target[h]] # "none"

\* The handler of the native start in progress holds the start lock, and has
\* raised the flags; what it would restore is not lower than the effects.
StartIsAlone ==
  \A h \in Handlers : pc[h] = "starting" =>
    startLock = h /\ hasUsed /\ startUncertain /\ ~orphan /\ (effects => before[h])

\* The shutdown holds the start lock while it visits the runtimes.
VisitsAreLocked == main \in {"visiting", "stopping"} => startLock = Main

\* Who calls the SDK runtime holds its lock, and the record says it is no longer
\* in service if the call is a stop.
CallsAreLocked ==
  \A h \in Handlers :
    /\ pc[h] \in {"invoking", "stopping"} =>
         owner[target[h]] = h /\ state[target[h]] \notin {"none", "stopped"}
    /\ pc[h] = "stopping" => state[target[h]] # "running"

\* The shutdown holds one lock at a time, that of the runtime it stops.
MainIsLocked ==
  \A r \in Runtimes : owner[r] = Main =>
    /\ main = "stopping" /\ state[r] \notin {"none", "stopped", "running"}
    /\ \A q \in Runtimes : owner[q] = Main => q = r

\* Every stop leaves its trace in the generation and in the state.
RunningIsFresh ==
  \A r \in Runtimes : state[r] \in {"none", "running"} => generation[r] = 0

\* What the states say of the world and of the records.
LivesAreKnown ==
  \A r \in Runtimes :
    /\ r \in alive => state[r] \notin {"none", "stopped"}
    /\ state[r] = "running" => r \in alive
    /\ state[r] \notin {"none", "stopped"} => r \in records
    /\ r \in records => state[r] # "none"

OrphansAreUncertain == orphan => startUncertain

\* A generation that is still the one a check began with is that of a runtime in
\* service.
ChecksAreFresh ==
  \A h \in Handlers : pc[h] = "checking" =>
    seen[h] = 0 /\ (generation[target[h]] = 0 => state[target[h]] = "running")

\* A shutdown that has got past its first look meets no call of a handler, and has
\* every living runtime on its list, or a failure.
ShutdownIsAlone ==
  /\ main # "serving" => shuttingDown
  /\ main \in {"start_lock", "visiting", "stopping", "done"} =>
       ~startUncertain /\ \A h \in Handlers : pc[h] \notin {"starting", "invoking", "stopping"}
  /\ main \in {"visiting", "stopping"} /\ ~failures => alive \subseteq todo
  /\ \A r \in todo : state[r] # "none"
  /\ main = "done" => alive = {}

IInv ==
  /\ TypeOK
  /\ Targets /\ StartIsAlone /\ VisitsAreLocked /\ CallsAreLocked /\ MainIsLocked
  /\ RunningIsFresh /\ LivesAreKnown /\ OrphansAreUncertain /\ ChecksAreFresh
  /\ ShutdownIsAlone /\ EffectsAreUse
-------------------------------------------------------------------------------
USE ServerAssumption DEF dictVars, runtimeVars, nativeVars, startVars, locals,
    handlerVars, mainVars, GoTo, Answer

LEMMA TypeParts == TypeOK <=> DictTypes /\ RuntimeTypes /\ FlagTypes /\ HandlerTypes
  BY Zenon DEF DictTypes, RuntimeTypes, FlagTypes, HandlerTypes, TypeOK

LEMMA TypePartsNext ==
  TypeOK' <=> DictTypes' /\ RuntimeTypes' /\ FlagTypes' /\ HandlerTypes'
  BY Zenon DEF DictTypes, RuntimeTypes, FlagTypes, HandlerTypes, TypeOK

LEMMA AnswerTypes ==
  ASSUME HandlerTypes, NEW h \in Handlers, Answer(h)
  PROVE  HandlerTypes'
<1>1. pc' \in [Handlers -> PCs] /\ target' \in [Handlers -> Runtimes \cup {None}]
  BY DEF HandlerTypes, PCs
<1>2. before' \in [Handlers -> BOOLEAN]
  BY DEF HandlerTypes
<1>3. seen' \in [Handlers -> Nat] /\ probe' \in [Handlers -> Probes]
  BY DEF HandlerTypes, Probes
<1>4. QED
  BY <1>1, <1>2, <1>3 DEF HandlerTypes

\* What the end of a stop does to the records: the one just stopped is the last and
\* stays, and what goes is stopped.
LEMMA DictAfterStop ==
  ASSUME TypeOK, NEW r \in Runtimes, StopEnds(r)
  PROVE  /\ records' \subseteq records \cup {r} /\ r \in records'
         /\ order' \subseteq records' \X records'
         /\ \A p, q \in records' : <<p, q>> \in order' <=> p # q /\ <<q, p>> \notin order'
         /\ \A q \in records : q \in records' \/ state[q] = "stopped"
<1> DEFINE stopped == {q \in records \cup {r} : state'[q] = "stopped"}
           after(p) == {q \in stopped : <<p, q>> \in Touch(r)}
<1>1. records' = (records \cup {r}) \ {p \in stopped : Cardinality(after(p)) >= MaxStopped}
  BY DEF StopEnds, Evict
<1>2. after(r) = {}
  BY DEF Touch
<1>3. Cardinality(after(r)) = 0
  BY <1>2, FS_EmptySet
<1>4. ~(Cardinality(after(r)) >= MaxStopped)
  BY <1>3
<1> HIDE DEF after
<1>5. r \in records' /\ records' \subseteq records \cup {r}
  BY <1>1, <1>4
<1>6. order' \subseteq records' \X records'
  BY DEF StopEnds
<1>7. ASSUME NEW p \in records', NEW q \in records'
      PROVE  <<p, q>> \in order' <=> p # q /\ <<q, p>> \notin order'
  <2>1. <<p, q>> \in order' <=> <<p, q>> \in Touch(r)
    BY DEF StopEnds
  <2>2. <<q, p>> \in order' <=> <<q, p>> \in Touch(r)
    BY DEF StopEnds
  <2>3. p \in records \cup {r} /\ q \in records \cup {r}
    BY <1>5
  <2>4. QED
    BY <2>1, <2>2, <2>3 DEF Touch, TypeOK
<1>8. ASSUME NEW q \in records, state[q] # "stopped"
      PROVE  q \in records'
  <2>1. CASE q = r
    BY <2>1, <1>5
  <2>2. CASE q # r
    BY <1>1, <1>8, <2>2 DEF StopEnds, TypeOK
  <2>3. QED
    BY <2>1, <2>2
<1>9. QED
  BY <1>5, <1>6, <1>7, <1>8

LEMMA LivesAfterStop ==
  ASSUME IInv, NEW r \in Runtimes, StopEnds(r)
  PROVE  LivesAreKnown'
<1>1. /\ r \in records' /\ records' \subseteq records \cup {r}
      /\ \A q \in records : q \in records' \/ state[q] = "stopped"
  BY DictAfterStop DEF IInv
<1>2. state' = [state EXCEPT ![r] = "stopped"] /\ alive' = alive \ {r}
  BY DEF StopEnds
<1>3. state'[r] = "stopped" /\ r \notin alive'
  BY <1>2 DEF TypeOK, IInv
<1>4. ASSUME NEW q \in Runtimes, q # r
      PROVE  /\ q \in alive' => state'[q] \notin {"none", "stopped"}
             /\ state'[q] = "running" => q \in alive'
             /\ state'[q] \notin {"none", "stopped"} => q \in records'
             /\ q \in records' => state'[q] # "none"
  <2>1. state'[q] = state[q] /\ (q \in alive' <=> q \in alive)
    BY <1>2, <1>4
  <2>2. QED
    BY <1>1, <1>4, <2>1 DEF IInv, LivesAreKnown
<1>5. QED
  BY <1>1, <1>3, <1>4 DEF LivesAreKnown

LEMMA StartRequestStep == ASSUME IInv, NEW h \in Handlers, StartRequest(h) PROVE IInv'
<1>1. TypeOK'
  BY DEF StartRequest, PCs, TypeOK, IInv
<1>2. Targets' /\ CallsAreLocked' /\ MainIsLocked'
  BY DEF StartRequest, IInv, Targets, CallsAreLocked, MainIsLocked
<1>3. StartIsAlone' /\ VisitsAreLocked' /\ OrphansAreUncertain' /\ EffectsAreUse'
  BY DEF StartRequest, IInv, StartIsAlone, VisitsAreLocked, OrphansAreUncertain,
     EffectsAreUse
<1>4. RunningIsFresh' /\ LivesAreKnown' /\ ChecksAreFresh'
  BY DEF StartRequest, IInv, RunningIsFresh, LivesAreKnown, ChecksAreFresh
<1>5. ShutdownIsAlone'
  BY DEF StartRequest, IInv, ShutdownIsAlone
<1>6. QED
  BY <1>1, <1>2, <1>3, <1>4, <1>5 DEF IInv

LEMMA StartLockedStep == ASSUME IInv, NEW h \in Handlers, StartLocked(h) PROVE IInv'
<1>1. TypeOK'
  <2>1. DictTypes /\ RuntimeTypes /\ FlagTypes /\ HandlerTypes
    BY TypeParts DEF IInv
  <2>2. DictTypes'
    BY <2>1 DEF StartLocked, DictTypes
  <2>3. RuntimeTypes'
    BY <2>1 DEF StartLocked, RuntimeTypes, Tasks
  <2>4. FlagTypes'
    BY <2>1 DEF StartLocked, FlagTypes, HandlerTypes
  <2>5. HandlerTypes'
    <3>1. CASE Answer(h)
      BY <2>1, <3>1, AnswerTypes
    <3>2. CASE /\ before' = [before EXCEPT ![h] = hasUsed]
               /\ GoTo(h, "starting", None) /\ UNCHANGED <<seen, probe>>
      <4>1. pc' \in [Handlers -> PCs] /\ target' \in [Handlers -> Runtimes \cup {None}]
        BY <2>1, <3>2 DEF HandlerTypes, PCs
      <4>2. before' \in [Handlers -> BOOLEAN]
        BY <2>1, <3>2 DEF HandlerTypes, FlagTypes
      <4>3. QED
        BY <2>1, <3>2, <4>1, <4>2 DEF HandlerTypes
    <3>3. QED
      BY <3>1, <3>2 DEF StartLocked
  <2>6. QED
    BY <2>2, <2>3, <2>4, <2>5, TypePartsNext
<1>2. Targets' /\ CallsAreLocked' /\ MainIsLocked'
  BY DEF StartLocked, TypeOK, IInv, Targets, CallsAreLocked, MainIsLocked
<1>3. StartIsAlone' /\ VisitsAreLocked' /\ OrphansAreUncertain' /\ EffectsAreUse'
  BY DEF StartLocked, TypeOK, IInv, StartIsAlone, VisitsAreLocked, OrphansAreUncertain,
     EffectsAreUse
<1>4. RunningIsFresh' /\ LivesAreKnown' /\ ChecksAreFresh'
  BY DEF StartLocked, TypeOK, IInv, RunningIsFresh, LivesAreKnown, ChecksAreFresh
<1>5. ShutdownIsAlone'
  BY DEF StartLocked, TypeOK, IInv, ShutdownIsAlone
<1>6. QED
  BY <1>1, <1>2, <1>3, <1>4, <1>5 DEF IInv

LEMMA StartRejectedStep == ASSUME IInv, NEW h \in Handlers, StartRejected(h) PROVE IInv'
<1>1. TypeOK'
  <2>1. DictTypes /\ RuntimeTypes /\ FlagTypes /\ HandlerTypes
    BY TypeParts DEF IInv
  <2>2. DictTypes'
    BY <2>1 DEF StartRejected, DictTypes
  <2>3. RuntimeTypes'
    BY <2>1 DEF StartRejected, RuntimeTypes
  <2>4. FlagTypes'
    BY <2>1 DEF StartRejected, FlagTypes, HandlerTypes
  <2>5. HandlerTypes'
    BY <2>1 DEF StartRejected, HandlerTypes, FlagTypes, PCs, Probes
  <2>6. QED
    BY <2>2, <2>3, <2>4, <2>5, TypePartsNext
<1>2. Targets' /\ CallsAreLocked' /\ MainIsLocked'
  BY DEF StartRejected, IInv, Targets, CallsAreLocked, MainIsLocked
<1>3. StartIsAlone' /\ VisitsAreLocked' /\ OrphansAreUncertain' /\ EffectsAreUse'
  BY DEF StartRejected, TypeOK, IInv, StartIsAlone, VisitsAreLocked,
     OrphansAreUncertain, EffectsAreUse
<1>4. RunningIsFresh' /\ LivesAreKnown' /\ ChecksAreFresh'
  BY DEF StartRejected, IInv, RunningIsFresh, LivesAreKnown, ChecksAreFresh
<1>5. ShutdownIsAlone'
  BY DEF StartRejected, IInv, ShutdownIsAlone
<1>6. QED
  BY <1>1, <1>2, <1>3, <1>4, <1>5 DEF IInv

LEMMA StartFailsStep == ASSUME IInv, NEW h \in Handlers, StartFails(h) PROVE IInv'
<1>1. TypeOK'
  BY DEF StartFails, PCs, Probes, TypeOK, IInv
<1>2. Targets' /\ CallsAreLocked' /\ MainIsLocked'
  BY DEF StartFails, IInv, Targets, CallsAreLocked, MainIsLocked
<1>3. StartIsAlone' /\ VisitsAreLocked' /\ OrphansAreUncertain' /\ EffectsAreUse'
  BY DEF StartFails, TypeOK, IInv, StartIsAlone, VisitsAreLocked, OrphansAreUncertain,
     EffectsAreUse
<1>4. RunningIsFresh' /\ LivesAreKnown' /\ ChecksAreFresh'
  BY DEF StartFails, IInv, RunningIsFresh, LivesAreKnown, ChecksAreFresh
<1>5. ShutdownIsAlone'
  BY DEF StartFails, IInv, ShutdownIsAlone
<1>6. QED
  BY <1>1, <1>2, <1>3, <1>4, <1>5 DEF IInv

LEMMA StartReturnsStep == ASSUME IInv, NEW h \in Handlers, StartReturns(h) PROVE IInv'
<1>1. TypeOK'
  <2>1. DictTypes /\ RuntimeTypes /\ FlagTypes /\ HandlerTypes
    BY TypeParts DEF IInv
  <2>2. DictTypes'
    BY <2>1 DEF StartReturns, DictTypes, IInv, LivesAreKnown
  <2>3. RuntimeTypes'
    BY <2>1 DEF StartReturns, RuntimeTypes
  <2>4. FlagTypes'
    BY <2>1 DEF StartReturns, FlagTypes, HandlerTypes
  <2>5. HandlerTypes'
    BY <2>1 DEF StartReturns, HandlerTypes, FlagTypes, PCs, Probes
  <2>6. QED
    BY <2>2, <2>3, <2>4, <2>5, TypePartsNext
<1>2. Targets' /\ CallsAreLocked' /\ MainIsLocked'
  BY DEF StartReturns, IInv, Targets, CallsAreLocked, MainIsLocked
<1>3. StartIsAlone' /\ VisitsAreLocked' /\ OrphansAreUncertain' /\ EffectsAreUse'
  BY DEF StartReturns, TypeOK, IInv, StartIsAlone, VisitsAreLocked, OrphansAreUncertain,
     EffectsAreUse
<1>4. RunningIsFresh' /\ LivesAreKnown' /\ ChecksAreFresh'
  BY DEF StartReturns, TypeOK, IInv, RunningIsFresh, LivesAreKnown, ChecksAreFresh
<1>5. ShutdownIsAlone'
  BY DEF StartReturns, IInv, ShutdownIsAlone
<1>6. QED
  BY <1>1, <1>2, <1>3, <1>4, <1>5 DEF IInv

LEMMA StopRequestStep == ASSUME IInv, NEW h \in Handlers, StopRequest(h) PROVE IInv'
<1>1. TypeOK'
  BY DEF StopRequest, PCs, TypeOK, IInv
<1>2. Targets' /\ CallsAreLocked' /\ MainIsLocked'
  BY DEF StopRequest, TypeOK, IInv, Targets, CallsAreLocked, MainIsLocked
<1>3. StartIsAlone' /\ VisitsAreLocked' /\ OrphansAreUncertain' /\ EffectsAreUse'
  BY DEF StopRequest, IInv, StartIsAlone, VisitsAreLocked, OrphansAreUncertain,
     EffectsAreUse
<1>4. RunningIsFresh' /\ LivesAreKnown' /\ ChecksAreFresh'
  BY DEF StopRequest, TypeOK, IInv, Targets, RunningIsFresh, LivesAreKnown, ChecksAreFresh
<1>5. ShutdownIsAlone'
  BY DEF StopRequest, TypeOK, IInv, ShutdownIsAlone
<1>6. QED
  BY <1>1, <1>2, <1>3, <1>4, <1>5 DEF IInv

LEMMA StopLockedStep == ASSUME IInv, NEW h \in Handlers, StopLocked(h) PROVE IInv'
<1>1. TypeOK'
  <2>1. DictTypes /\ RuntimeTypes /\ FlagTypes /\ HandlerTypes
    BY TypeParts DEF IInv
  <2>2. DictTypes'
    BY <2>1 DEF StopLocked, DictTypes
  <2>3. RuntimeTypes'
    BY <2>1 DEF StopLocked, RuntimeTypes, Tasks, StopBegins
  <2>4. FlagTypes'
    BY <2>1 DEF StopLocked, FlagTypes, HandlerTypes
  <2>5. HandlerTypes'
    <3>1. CASE Answer(h)
      BY <2>1, <3>1, AnswerTypes
    <3>2. CASE GoTo(h, "stopping", target[h]) /\ UNCHANGED locals
      BY <2>1, <3>2 DEF HandlerTypes, PCs
    <3>3. QED
      BY <3>1, <3>2 DEF StopLocked
  <2>6. QED
    BY <2>2, <2>3, <2>4, <2>5, TypePartsNext
<1>2. Targets' /\ CallsAreLocked' /\ MainIsLocked'
  BY DEF StopLocked, StopBegins, TypeOK, IInv, Targets, CallsAreLocked, MainIsLocked
<1>3. StartIsAlone' /\ VisitsAreLocked' /\ OrphansAreUncertain' /\ EffectsAreUse'
  BY DEF StopLocked, TypeOK, IInv, StartIsAlone, VisitsAreLocked, OrphansAreUncertain,
     EffectsAreUse
<1>4. RunningIsFresh' /\ LivesAreKnown' /\ ChecksAreFresh'
  BY DEF StopLocked, StopBegins, TypeOK, IInv, Targets, RunningIsFresh, LivesAreKnown,
     ChecksAreFresh
<1>5. ShutdownIsAlone'
  BY DEF StopLocked, StopBegins, TypeOK, IInv, ShutdownIsAlone
<1>6. QED
  BY <1>1, <1>2, <1>3, <1>4, <1>5 DEF IInv

LEMMA StopReturnsStep == ASSUME IInv, NEW h \in Handlers, StopReturns(h) PROVE IInv'
<1> DEFINE r == target[h]
<1>0. /\ r \in Runtimes
      /\ records' \subseteq records \cup {r} /\ r \in records'
      /\ order' \subseteq records' \X records'
      /\ \A p, q \in records' : <<p, q>> \in order' <=> p # q /\ <<q, p>> \notin order'
      /\ \A q \in records : q \in records' \/ state[q] = "stopped"
  BY DictAfterStop DEF StopReturns, IInv, Targets
<1>1. TypeOK'
  <2>1. DictTypes /\ RuntimeTypes /\ FlagTypes /\ HandlerTypes
    BY TypeParts DEF IInv
  <2>2. DictTypes'
    BY <2>1, <1>0 DEF DictTypes
  <2>3. RuntimeTypes'
    BY <2>1 DEF StopReturns, RuntimeTypes, StopEnds
  <2>4. FlagTypes'
    BY <2>1 DEF StopReturns, FlagTypes, HandlerTypes, StopEnds
  <2>5. HandlerTypes'
    BY <2>1 DEF StopReturns, HandlerTypes, FlagTypes, StopEnds, PCs, Probes
  <2>6. QED
    BY <2>2, <2>3, <2>4, <2>5, TypePartsNext
<1>2. Targets' /\ CallsAreLocked' /\ MainIsLocked'
  BY DEF StopReturns, StopEnds, TypeOK, IInv, Targets, CallsAreLocked, MainIsLocked
<1>3. StartIsAlone' /\ VisitsAreLocked' /\ OrphansAreUncertain' /\ EffectsAreUse'
  BY DEF StopReturns, StopEnds, IInv, StartIsAlone, VisitsAreLocked,
     OrphansAreUncertain, EffectsAreUse
<1>4. RunningIsFresh' /\ LivesAreKnown' /\ ChecksAreFresh'
  <2>1. LivesAreKnown'
    BY <1>0, LivesAfterStop DEF StopReturns
  <2>2. RunningIsFresh' /\ ChecksAreFresh'
    BY DEF StopReturns, StopEnds, IInv, CallsAreLocked, RunningIsFresh, ChecksAreFresh
  <2>3. QED
    BY <2>1, <2>2
<1>5. ShutdownIsAlone'
  BY DEF StopReturns, StopEnds, IInv, ShutdownIsAlone
<1>6. QED
  BY <1>1, <1>2, <1>3, <1>4, <1>5 DEF IInv

LEMMA StopFailsStep == ASSUME IInv, NEW h \in Handlers, StopFails(h) PROVE IInv'
<1>1. TypeOK'
  BY DEF StopFails, PCs, Probes, TypeOK, IInv
<1>2. Targets' /\ CallsAreLocked' /\ MainIsLocked'
  BY DEF StopFails, TypeOK, IInv, Targets, CallsAreLocked, MainIsLocked
<1>3. StartIsAlone' /\ VisitsAreLocked' /\ OrphansAreUncertain' /\ EffectsAreUse'
  BY DEF StopFails, IInv, StartIsAlone, VisitsAreLocked, OrphansAreUncertain,
     EffectsAreUse
<1>4. RunningIsFresh' /\ LivesAreKnown' /\ ChecksAreFresh'
  BY DEF StopFails, IInv, RunningIsFresh, LivesAreKnown, ChecksAreFresh
<1>5. ShutdownIsAlone'
  BY DEF StopFails, IInv, ShutdownIsAlone
<1>6. QED
  BY <1>1, <1>2, <1>3, <1>4, <1>5 DEF IInv

LEMMA InvokeRequestStep == ASSUME IInv, NEW h \in Handlers, InvokeRequest(h) PROVE IInv'
<1>1. TypeOK'
  BY DEF InvokeRequest, PCs, TypeOK, IInv
<1>2. Targets' /\ CallsAreLocked' /\ MainIsLocked'
  BY DEF InvokeRequest, TypeOK, IInv, Targets, CallsAreLocked, MainIsLocked, LivesAreKnown
<1>3. StartIsAlone' /\ VisitsAreLocked' /\ OrphansAreUncertain' /\ EffectsAreUse'
  BY DEF InvokeRequest, IInv, StartIsAlone, VisitsAreLocked, OrphansAreUncertain,
     EffectsAreUse
<1>4. RunningIsFresh' /\ LivesAreKnown' /\ ChecksAreFresh'
  BY DEF InvokeRequest, IInv, RunningIsFresh, LivesAreKnown, ChecksAreFresh
<1>5. ShutdownIsAlone'
  BY DEF InvokeRequest, IInv, ShutdownIsAlone
<1>6. QED
  BY <1>1, <1>2, <1>3, <1>4, <1>5 DEF IInv

LEMMA InvokeLockedStep == ASSUME IInv, NEW h \in Handlers, InvokeLocked(h) PROVE IInv'
<1>1. TypeOK'
  <2>1. DictTypes /\ RuntimeTypes /\ FlagTypes /\ HandlerTypes
    BY TypeParts DEF IInv
  <2>2. DictTypes'
    BY <2>1 DEF InvokeLocked, DictTypes
  <2>3. RuntimeTypes'
    BY <2>1 DEF InvokeLocked, RuntimeTypes, Tasks
  <2>4. FlagTypes'
    BY <2>1 DEF InvokeLocked, FlagTypes, HandlerTypes
  <2>5. HandlerTypes'
    <3>1. CASE Answer(h)
      BY <2>1, <3>1, AnswerTypes
    <3>2. CASE GoTo(h, "invoking", target[h]) /\ UNCHANGED locals
      BY <2>1, <3>2 DEF HandlerTypes, PCs
    <3>3. QED
      BY <3>1, <3>2 DEF InvokeLocked
  <2>6. QED
    BY <2>2, <2>3, <2>4, <2>5, TypePartsNext
<1>2. Targets' /\ CallsAreLocked' /\ MainIsLocked'
  BY DEF InvokeLocked, Invocable, TypeOK, IInv, Targets, CallsAreLocked, MainIsLocked
<1>3. StartIsAlone' /\ VisitsAreLocked' /\ OrphansAreUncertain' /\ EffectsAreUse'
  BY DEF InvokeLocked, TypeOK, IInv, StartIsAlone, VisitsAreLocked, OrphansAreUncertain,
     EffectsAreUse
<1>4. RunningIsFresh' /\ LivesAreKnown' /\ ChecksAreFresh'
  BY DEF InvokeLocked, TypeOK, IInv, RunningIsFresh, LivesAreKnown, ChecksAreFresh
<1>5. ShutdownIsAlone'
  BY DEF InvokeLocked, TypeOK, IInv, ShutdownIsAlone
<1>6. QED
  BY <1>1, <1>2, <1>3, <1>4, <1>5 DEF IInv

LEMMA InvokeReturnsStep == ASSUME IInv, NEW h \in Handlers, InvokeReturns(h) PROVE IInv'
<1>1. TypeOK'
  BY DEF InvokeReturns, PCs, Probes, TypeOK, IInv, Targets
<1>2. Targets' /\ CallsAreLocked' /\ MainIsLocked'
  BY DEF InvokeReturns, TypeOK, IInv, Targets, CallsAreLocked, MainIsLocked
<1>3. StartIsAlone' /\ VisitsAreLocked' /\ OrphansAreUncertain' /\ EffectsAreUse'
  BY DEF InvokeReturns, IInv, StartIsAlone, VisitsAreLocked, OrphansAreUncertain,
     EffectsAreUse
<1>4. RunningIsFresh' /\ LivesAreKnown' /\ ChecksAreFresh'
  BY DEF InvokeReturns, IInv, RunningIsFresh, LivesAreKnown, ChecksAreFresh
<1>5. ShutdownIsAlone'
  BY DEF InvokeReturns, IInv, ShutdownIsAlone
<1>6. QED
  BY <1>1, <1>2, <1>3, <1>4, <1>5 DEF IInv

LEMMA CheckRequestStep == ASSUME IInv, NEW h \in Handlers, CheckRequest(h) PROVE IInv'
<1>1. TypeOK'
  BY DEF CheckRequest, PCs, TypeOK, IInv
<1>2. Targets' /\ CallsAreLocked' /\ MainIsLocked'
  BY DEF CheckRequest, TypeOK, IInv, Targets, CallsAreLocked, MainIsLocked, LivesAreKnown
<1>3. StartIsAlone' /\ VisitsAreLocked' /\ OrphansAreUncertain' /\ EffectsAreUse'
  BY DEF CheckRequest, IInv, StartIsAlone, VisitsAreLocked, OrphansAreUncertain,
     EffectsAreUse
<1>4. RunningIsFresh' /\ LivesAreKnown' /\ ChecksAreFresh'
  BY DEF CheckRequest, Invocable, TypeOK, IInv, RunningIsFresh, LivesAreKnown,
     ChecksAreFresh
<1>5. ShutdownIsAlone'
  BY DEF CheckRequest, IInv, ShutdownIsAlone
<1>6. QED
  BY <1>1, <1>2, <1>3, <1>4, <1>5 DEF IInv

LEMMA CheckObservesStep == ASSUME IInv, NEW h \in Handlers, CheckObserves(h) PROVE IInv'
<1>1. TypeOK'
  BY DEF CheckObserves, Probes, TypeOK, IInv
<1>2. Targets' /\ CallsAreLocked' /\ MainIsLocked'
  BY DEF CheckObserves, IInv, Targets, CallsAreLocked, MainIsLocked
<1>3. StartIsAlone' /\ VisitsAreLocked' /\ OrphansAreUncertain' /\ EffectsAreUse'
  BY DEF CheckObserves, IInv, StartIsAlone, VisitsAreLocked, OrphansAreUncertain,
     EffectsAreUse
<1>4. RunningIsFresh' /\ LivesAreKnown' /\ ChecksAreFresh'
  BY DEF CheckObserves, IInv, RunningIsFresh, LivesAreKnown, ChecksAreFresh
<1>5. ShutdownIsAlone'
  BY DEF CheckObserves, IInv, ShutdownIsAlone
<1>6. QED
  BY <1>1, <1>2, <1>3, <1>4, <1>5 DEF IInv

LEMMA CheckReturnsStep == ASSUME IInv, NEW h \in Handlers, CheckReturns(h) PROVE IInv'
<1>1. TypeOK'
  BY DEF CheckReturns, PCs, Probes, TypeOK, IInv
<1>2. Targets' /\ CallsAreLocked' /\ MainIsLocked'
  BY DEF CheckReturns, TypeOK, IInv, Targets, CallsAreLocked, MainIsLocked
<1>3. StartIsAlone' /\ VisitsAreLocked' /\ OrphansAreUncertain' /\ EffectsAreUse'
  BY DEF CheckReturns, IInv, StartIsAlone, VisitsAreLocked, OrphansAreUncertain,
     EffectsAreUse
<1>4. RunningIsFresh' /\ LivesAreKnown' /\ ChecksAreFresh'
  BY DEF CheckReturns, TypeOK, IInv, RunningIsFresh, LivesAreKnown, ChecksAreFresh
<1>5. ShutdownIsAlone'
  BY DEF CheckReturns, IInv, ShutdownIsAlone
<1>6. QED
  BY <1>1, <1>2, <1>3, <1>4, <1>5 DEF IInv

LEMMA SignalStep == ASSUME IInv, Signal PROVE IInv'
<1>1. TypeOK'
  BY DEF Signal, Mains, TypeOK, IInv
<1>2. Targets' /\ CallsAreLocked' /\ MainIsLocked'
  BY DEF Signal, IInv, Targets, CallsAreLocked, MainIsLocked
<1>3. StartIsAlone' /\ VisitsAreLocked' /\ OrphansAreUncertain' /\ EffectsAreUse'
  BY DEF Signal, IInv, StartIsAlone, VisitsAreLocked, OrphansAreUncertain, EffectsAreUse
<1>4. RunningIsFresh' /\ LivesAreKnown' /\ ChecksAreFresh'
  BY DEF Signal, IInv, RunningIsFresh, LivesAreKnown, ChecksAreFresh
<1>5. ShutdownIsAlone'
  BY DEF Signal, IInv, ShutdownIsAlone
<1>6. QED
  BY <1>1, <1>2, <1>3, <1>4, <1>5 DEF IInv

LEMMA ShutdownBeginsStep == ASSUME IInv, ShutdownBegins PROVE IInv'
<1>1. TypeOK'
  BY DEF ShutdownBegins, Mains, TypeOK, IInv
<1>2. Targets' /\ CallsAreLocked' /\ MainIsLocked'
  BY DEF ShutdownBegins, IInv, Targets, CallsAreLocked, MainIsLocked
<1>3. StartIsAlone' /\ VisitsAreLocked' /\ OrphansAreUncertain' /\ EffectsAreUse'
  BY DEF ShutdownBegins, IInv, StartIsAlone, VisitsAreLocked, OrphansAreUncertain,
     EffectsAreUse
<1>4. RunningIsFresh' /\ LivesAreKnown' /\ ChecksAreFresh'
  BY DEF ShutdownBegins, IInv, RunningIsFresh, LivesAreKnown, ChecksAreFresh
<1>5. ShutdownIsAlone'
  BY DEF ShutdownBegins, IInv, Targets, StartIsAlone, CallsAreLocked, LivesAreKnown,
     ShutdownIsAlone
<1>6. QED
  BY <1>1, <1>2, <1>3, <1>4, <1>5 DEF IInv

LEMMA ShutdownListsStep == ASSUME IInv, ShutdownLists PROVE IInv'
<1>1. TypeOK'
  BY DEF ShutdownLists, Mains, Tasks, TypeOK, IInv
<1>2. Targets' /\ CallsAreLocked' /\ MainIsLocked'
  BY DEF ShutdownLists, IInv, Targets, CallsAreLocked, MainIsLocked
<1>3. StartIsAlone' /\ VisitsAreLocked' /\ OrphansAreUncertain' /\ EffectsAreUse'
  BY DEF ShutdownLists, IInv, StartIsAlone, VisitsAreLocked, OrphansAreUncertain,
     EffectsAreUse
<1>4. RunningIsFresh' /\ LivesAreKnown' /\ ChecksAreFresh'
  BY DEF ShutdownLists, IInv, RunningIsFresh, LivesAreKnown, ChecksAreFresh
<1>5. ShutdownIsAlone'
  BY DEF ShutdownLists, TypeOK, IInv, LivesAreKnown, ShutdownIsAlone
<1>6. QED
  BY <1>1, <1>2, <1>3, <1>4, <1>5 DEF IInv

LEMMA ShutdownVisitsStep == ASSUME IInv, ShutdownVisits PROVE IInv'
<1>1. TypeOK'
  BY DEF ShutdownVisits, Mains, Tasks, StopBegins, TypeOK, IInv
<1>2. Targets' /\ CallsAreLocked' /\ MainIsLocked'
  BY DEF ShutdownVisits, StopBegins, TypeOK, IInv, Targets, CallsAreLocked, MainIsLocked
<1>3. StartIsAlone' /\ VisitsAreLocked' /\ OrphansAreUncertain' /\ EffectsAreUse'
  BY DEF ShutdownVisits, IInv, StartIsAlone, VisitsAreLocked, OrphansAreUncertain,
     EffectsAreUse
<1>4. RunningIsFresh' /\ LivesAreKnown' /\ ChecksAreFresh'
  BY DEF ShutdownVisits, StopBegins, TypeOK, IInv, Targets, RunningIsFresh,
     LivesAreKnown, ChecksAreFresh, ShutdownIsAlone
<1>5. ShutdownIsAlone'
  BY DEF ShutdownVisits, StopBegins, TypeOK, IInv, LivesAreKnown, ShutdownIsAlone
<1>6. QED
  BY <1>1, <1>2, <1>3, <1>4, <1>5 DEF IInv

LEMMA ShutdownStopsStep == ASSUME IInv, ShutdownStops PROVE IInv'
<1>1. PICK r \in todo :
        /\ owner[r] = Main
        /\ \/ StopEnds(r) /\ UNCHANGED failures
           \/ /\ status' = [status EXCEPT ![r] = "failed"]
              /\ owner' = [owner EXCEPT ![r] = None]
              /\ failures' = TRUE
              /\ UNCHANGED <<dictVars, state, alive>>
        /\ todo' = todo \ {r}
  BY DEF ShutdownStops
<1>2. /\ main = "stopping" /\ main' = "visiting" /\ r \in Runtimes
      /\ UNCHANGED <<generation, orphan, effects, startVars, handlerVars, shuttingDown>>
  BY DEF ShutdownStops, TypeOK, IInv
<1>3. CASE StopEnds(r) /\ UNCHANGED failures
  <2>1. /\ records' \subseteq records \cup {r} /\ r \in records'
        /\ order' \subseteq records' \X records'
        /\ \A p, q \in records' : <<p, q>> \in order' <=> p # q /\ <<q, p>> \notin order'
        /\ \A q \in records : q \in records' \/ state[q] = "stopped"
    BY <1>2, <1>3, DictAfterStop DEF IInv
  <2>2. TypeOK'
    <3>1. DictTypes /\ RuntimeTypes /\ FlagTypes /\ HandlerTypes
      BY TypeParts DEF IInv
    <3>2. DictTypes'
      BY <1>2, <2>1, <3>1 DEF DictTypes
    <3>3. RuntimeTypes'
      BY <1>1, <1>2, <1>3, <3>1 DEF RuntimeTypes, StopEnds, Mains
    <3>4. FlagTypes' /\ HandlerTypes'
      BY <1>2, <1>3, <3>1 DEF FlagTypes, HandlerTypes
    <3>5. QED
      BY <3>2, <3>3, <3>4, TypePartsNext
  <2>3. Targets' /\ CallsAreLocked' /\ MainIsLocked'
    BY <1>1, <1>2, <1>3 DEF StopEnds, TypeOK, IInv, Targets, CallsAreLocked, MainIsLocked
  <2>4. StartIsAlone' /\ VisitsAreLocked' /\ OrphansAreUncertain' /\ EffectsAreUse'
    BY <1>2 DEF IInv, StartIsAlone, VisitsAreLocked, OrphansAreUncertain, EffectsAreUse
  <2>5. LivesAreKnown'
    BY <1>2, <1>3, LivesAfterStop
  <2>6. RunningIsFresh' /\ ChecksAreFresh'
    BY <1>1, <1>2, <1>3 DEF StopEnds, IInv, MainIsLocked, RunningIsFresh, ChecksAreFresh
  <2>7. ShutdownIsAlone'
    BY <1>1, <1>2, <1>3 DEF StopEnds, IInv, ShutdownIsAlone
  <2>8. QED
    BY <2>2, <2>3, <2>4, <2>5, <2>6, <2>7 DEF IInv
<1>4. CASE /\ status' = [status EXCEPT ![r] = "failed"]
           /\ owner' = [owner EXCEPT ![r] = None]
           /\ failures' = TRUE
           /\ UNCHANGED <<dictVars, state, alive>>
  <2>1. TypeOK'
    BY <1>1, <1>2, <1>4 DEF Mains, TypeOK, IInv
  <2>2. Targets' /\ CallsAreLocked' /\ MainIsLocked'
    BY <1>1, <1>2, <1>4 DEF TypeOK, IInv, Targets, CallsAreLocked, MainIsLocked
  <2>3. StartIsAlone' /\ VisitsAreLocked' /\ OrphansAreUncertain' /\ EffectsAreUse'
    BY <1>2 DEF IInv, StartIsAlone, VisitsAreLocked, OrphansAreUncertain, EffectsAreUse
  <2>4. RunningIsFresh' /\ LivesAreKnown' /\ ChecksAreFresh'
    BY <1>2, <1>4 DEF IInv, RunningIsFresh, LivesAreKnown, ChecksAreFresh
  <2>5. ShutdownIsAlone'
    BY <1>1, <1>2, <1>4 DEF IInv, ShutdownIsAlone
  <2>6. QED
    BY <2>1, <2>2, <2>3, <2>4, <2>5 DEF IInv
<1>5. QED
  BY <1>1, <1>3, <1>4

LEMMA ShutdownEndsStep == ASSUME IInv, ShutdownEnds PROVE IInv'
<1>1. TypeOK'
  BY DEF ShutdownEnds, Mains, TypeOK, IInv
<1>2. Targets' /\ CallsAreLocked' /\ MainIsLocked'
  BY DEF ShutdownEnds, IInv, Targets, CallsAreLocked, MainIsLocked
<1>3. StartIsAlone' /\ VisitsAreLocked' /\ OrphansAreUncertain' /\ EffectsAreUse'
  BY DEF ShutdownEnds, IInv, StartIsAlone, VisitsAreLocked, OrphansAreUncertain,
     EffectsAreUse
<1>4. RunningIsFresh' /\ LivesAreKnown' /\ ChecksAreFresh'
  BY DEF ShutdownEnds, IInv, RunningIsFresh, LivesAreKnown, ChecksAreFresh
<1>5. ShutdownIsAlone'
  BY DEF ShutdownEnds, IInv, ShutdownIsAlone
<1>6. QED
  BY <1>1, <1>2, <1>3, <1>4, <1>5 DEF IInv

LEMMA ShutdownTimesOutStep == ASSUME IInv, ShutdownTimesOut PROVE IInv'
<1>1. TypeOK'
  BY DEF ShutdownTimesOut, Mains, TypeOK, IInv
<1>2. Targets' /\ CallsAreLocked' /\ MainIsLocked'
  BY DEF ShutdownTimesOut, IInv, Targets, CallsAreLocked, MainIsLocked
<1>3. StartIsAlone' /\ VisitsAreLocked' /\ OrphansAreUncertain' /\ EffectsAreUse'
  BY DEF ShutdownTimesOut, IInv, StartIsAlone, VisitsAreLocked, OrphansAreUncertain,
     EffectsAreUse
<1>4. RunningIsFresh' /\ LivesAreKnown' /\ ChecksAreFresh'
  BY DEF ShutdownTimesOut, IInv, RunningIsFresh, LivesAreKnown, ChecksAreFresh
<1>5. ShutdownIsAlone'
  BY DEF ShutdownTimesOut, IInv, ShutdownIsAlone
<1>6. QED
  BY <1>1, <1>2, <1>3, <1>4, <1>5 DEF IInv

-------------------------------------------------------------------------------
LEMMA InitInvariant == Init => IInv
<1> SUFFICES ASSUME Init PROVE IInv
  OBVIOUS
<1>1. DictTypes /\ RuntimeTypes
  BY DEF Init, DictTypes, RuntimeTypes, Mains
<1>2. FlagTypes
  BY Zenon DEF Init, FlagTypes
<1>3. HandlerTypes
  BY DEF Init, HandlerTypes, PCs, Probes
<1>4. pc = [h \in Handlers |-> "idle"] /\ main = "serving" /\ todo = {} /\ alive = {}
  BY DEF Init
<1>5. ~effects /\ ~orphan
  BY Zenon DEF Init
<1>6. Targets /\ StartIsAlone /\ VisitsAreLocked /\ CallsAreLocked /\ ChecksAreFresh
  BY <1>4 DEF Targets, StartIsAlone, VisitsAreLocked, CallsAreLocked, ChecksAreFresh
<1>7. MainIsLocked /\ RunningIsFresh /\ LivesAreKnown
  BY DEF Init, MainIsLocked, RunningIsFresh, LivesAreKnown
<1>8. OrphansAreUncertain /\ ShutdownIsAlone /\ EffectsAreUse
  BY <1>4, <1>5 DEF OrphansAreUncertain, ShutdownIsAlone, EffectsAreUse
<1>9. QED
  BY <1>1, <1>2, <1>3, <1>6, <1>7, <1>8, TypeParts DEF IInv

LEMMA NextInvariant == IInv /\ [Next]_vars => IInv'
<1> SUFFICES ASSUME IInv, [Next]_vars PROVE IInv'
  OBVIOUS
<1>1. ASSUME NEW h \in Handlers, Handle(h) PROVE IInv'
  <2> QED
    BY <1>1, StartRequestStep, StartLockedStep, StartRejectedStep, StartFailsStep,
       StartReturnsStep, StopRequestStep, StopLockedStep, StopReturnsStep,
       StopFailsStep, InvokeRequestStep, InvokeLockedStep, InvokeReturnsStep,
       CheckRequestStep, CheckObservesStep, CheckReturnsStep DEF Handle
<1>2. ASSUME Shutdown PROVE IInv'
  <2> QED
    BY <1>2, SignalStep, ShutdownBeginsStep, ShutdownListsStep, ShutdownVisitsStep,
       ShutdownStopsStep, ShutdownEndsStep, ShutdownTimesOutStep DEF Shutdown
<1>3. ASSUME UNCHANGED vars PROVE IInv'
  <2>1. DictTypes' /\ RuntimeTypes'
    BY <1>3, TypeParts DEF vars, DictTypes, RuntimeTypes, IInv
  <2>2. FlagTypes' /\ HandlerTypes'
    BY <1>3, TypeParts DEF vars, FlagTypes, HandlerTypes, IInv
  <2>3. Targets' /\ StartIsAlone' /\ VisitsAreLocked' /\ CallsAreLocked' /\ MainIsLocked'
         /\ RunningIsFresh' /\ LivesAreKnown' /\ OrphansAreUncertain' /\ ChecksAreFresh' /\ ShutdownIsAlone' /\ EffectsAreUse'
    BY <1>3 DEF vars, IInv, Targets, StartIsAlone, VisitsAreLocked, CallsAreLocked,
       MainIsLocked, RunningIsFresh, LivesAreKnown, OrphansAreUncertain, ChecksAreFresh,
       ShutdownIsAlone, EffectsAreUse
  <2>4. QED
    BY <2>1, <2>2, <2>3, TypePartsNext DEF IInv
<1>4. QED
  BY <1>1, <1>2, <1>3 DEF Next

\* IInv is an invariant of the server, whatever is requested of it.
THEOREM Invariance == Spec => []IInv
<1> QED
  BY InitInvariant, NextInvariant, PTL DEF Spec

\* Type correctness; the records are in one order, each once.
THEOREM TypeCorrect == Spec => []TypeOK
<1>1. IInv => TypeOK
  BY Zenon DEF IInv
<1>2. QED
  BY <1>1, Invariance, PTL

\* A start that had effects shows in has_used_runtime for good, whatever starts
\* are rejected, fail or are made after it.
THEOREM UseIsSticky == Spec => []EffectsAreUse
<1>1. IInv => EffectsAreUse
  BY DEF IInv
<1>2. QED
  BY <1>1, Invariance, PTL

\* Whatever is evicted, stop can reach every runtime that may live, or no other is
\* started.
THEOREM LivingKeepRecords == Spec => []LivingRuntimeIsAddressed
<1>1. IInv => LivingRuntimeIsAddressed
  BY DEF LivingRuntimeIsAddressed, TypeOK, IInv, LivesAreKnown, OrphansAreUncertain
<1>2. QED
  BY <1>1, Invariance, PTL

\* A shutdown that reports success has left no runtime and cut off no call.
THEOREM ShutdownIsComplete == Spec => []OrderlyShutdownIsComplete
<1>1. IInv => OrderlyShutdownIsComplete
  BY DEF OrderlyShutdownIsComplete, IInv, OrphansAreUncertain, ShutdownIsAlone
<1>2. QED
  BY <1>1, Invariance, PTL

\* An SDK runtime is in one call at a time, those of the shutdown included, however
\* many handlers there are (OwnedRuntime.lock).
InCall(h, r) == pc[h] \in {"invoking", "stopping"} /\ target[h] = r
OneCallPerRuntime ==
  \A r \in Runtimes, h \in Handlers : InCall(h, r) =>
    owner[r] # Main /\ \A k \in Handlers \ {h} : ~InCall(k, r)

THEOREM CallsAreSerial == Spec => []OneCallPerRuntime
<1>1. IInv => OneCallPerRuntime
  BY DEF OneCallPerRuntime, InCall, IInv, CallsAreLocked
<1>2. QED
  BY <1>1, Invariance, PTL

\* No invocation begins on a runtime that was ever asked to stop.
THEOREM StopEndsService == Spec => StopIsFinal
<1>1. ASSUME IInv, [Next]_vars, NEW h \in Handlers, NEW r \in Runtimes,
             pc[h] # "invoking", pc'[h] = "invoking", target'[h] = r
      PROVE  generation[r] = 0
  <2>1. InvokeLocked(h)
    <3>1. ASSUME NEW k \in Handlers, Handle(k) PROVE InvokeLocked(h)
      <4>1. ~(StartRequest(k) \/ StartLocked(k) \/ StartRejected(k) \/ StartFails(k)
                \/ StartReturns(k))
        BY <1>1 DEF TypeOK, IInv, StartRequest, StartLocked, StartRejected, StartFails,
           StartReturns
      <4>2. ~(StopRequest(k) \/ StopLocked(k) \/ StopReturns(k) \/ StopFails(k))
        BY <1>1 DEF TypeOK, IInv, StopRequest, StopLocked, StopReturns, StopFails
      <4>3. ~(InvokeRequest(k) \/ InvokeReturns(k))
        BY <1>1 DEF TypeOK, IInv, InvokeRequest, InvokeReturns
      <4>4. ~(CheckRequest(k) \/ CheckObserves(k) \/ CheckReturns(k))
        BY <1>1 DEF TypeOK, IInv, CheckRequest, CheckObserves, CheckReturns
      <4>5. InvokeLocked(k) => k = h
        BY <1>1 DEF TypeOK, IInv, InvokeLocked
      <4>6. QED
        BY <3>1, <4>1, <4>2, <4>3, <4>4, <4>5 DEF Handle
    <3>2. ~Shutdown
      BY <1>1 DEF Shutdown, Signal, ShutdownBegins, ShutdownLists, ShutdownVisits,
         ShutdownStops, ShutdownEnds, ShutdownTimesOut
    <3>3. ~UNCHANGED vars
      BY <1>1 DEF vars
    <3>4. QED
      BY <1>1, <3>1, <3>2, <3>3 DEF Next
  <2>2. QED
    BY <1>1, <2>1 DEF InvokeLocked, Invocable, TypeOK, IInv, RunningIsFresh
<1>2. IInv /\ [Next]_vars =>
        [\A h \in Handlers, r \in Runtimes :
           pc[h] # "invoking" /\ pc'[h] = "invoking" /\ target'[h] = r
           => generation[r] = 0]_vars
  BY <1>1
<1>3. QED
  BY <1>2, Invariance, PTL DEF Spec, StopIsFinal

\* What has just been stopped is the last to be forgotten, for any MaxStopped > 0.
THEOREM LastStopStays == Spec => LastStopIsRemembered
<1>1. ASSUME IInv, [Next]_vars, NEW r \in Runtimes,
             state[r] # "stopped", state'[r] = "stopped"
      PROVE  r \in records'
  <2>1. \E q \in Runtimes : StopEnds(q)
    <3>1. ASSUME NEW h \in Handlers, Handle(h) PROVE StopReturns(h)
      <4>1. ~(StartRequest(h) \/ StartLocked(h) \/ StartRejected(h) \/ StartFails(h)
                \/ StartReturns(h))
        BY <1>1 DEF TypeOK, IInv, StartRequest, StartLocked, StartRejected, StartFails,
           StartReturns
      <4>2. ~(StopRequest(h) \/ StopLocked(h) \/ StopFails(h))
        BY <1>1 DEF TypeOK, IInv, StopBegins, StopRequest, StopLocked, StopFails
      <4>3. ~(InvokeRequest(h) \/ InvokeLocked(h) \/ InvokeReturns(h) \/ CheckRequest(h)
                \/ CheckObserves(h) \/ CheckReturns(h))
        BY <1>1 DEF InvokeRequest, InvokeLocked, InvokeReturns, CheckRequest,
           CheckObserves, CheckReturns
      <4>4. QED
        BY <3>1, <4>1, <4>2, <4>3 DEF Handle
    <3>2. ASSUME Shutdown PROVE ShutdownStops
      BY <1>1, <3>2 DEF Shutdown, Signal, ShutdownBegins, ShutdownLists, ShutdownVisits,
         ShutdownEnds, ShutdownTimesOut, StopBegins, TypeOK, IInv
    <3>3. ~UNCHANGED vars
      BY <1>1 DEF vars
    <3>4. ASSUME NEW h \in Handlers, StopReturns(h) PROVE \E q \in Runtimes : StopEnds(q)
      BY <1>1, <3>4 DEF StopReturns, IInv, Targets
    <3>5. ASSUME ShutdownStops PROVE \E q \in Runtimes : StopEnds(q)
      BY <1>1, <3>5 DEF ShutdownStops, TypeOK, IInv
    <3>6. QED
      BY <1>1, <3>1, <3>2, <3>3, <3>4, <3>5 DEF Next
  <2>2. PICK q \in Runtimes : StopEnds(q)
    BY <2>1
  <2>3. q = r
    BY <1>1, <2>2 DEF StopEnds
  <2>4. QED
    BY <1>1, <2>2, <2>3, DictAfterStop DEF IInv
<1>2. IInv /\ [Next]_vars =>
        [\A r \in Runtimes : state[r] # "stopped" /\ state'[r] = "stopped"
           => r \in records']_vars
  BY <1>1
<1>3. QED
  BY <1>2, Invariance, PTL DEF Spec, LastStopIsRemembered

\* A check says passed of living runtimes in service only, whatever stops race it.
THEOREM ChecksAreHonest == Spec => PassedRuntimeServes
<1>1. ASSUME IInv, NEW h \in Handlers, pc[h] = "checking", Report(h) = "passed"
      PROVE  target[h] \in alive /\ state[target[h]] = "running"
  <2>1. ~Changed(h)
    BY <1>1 DEF Report
  <2>2. state[target[h]] = "running"
    BY <1>1, <2>1 DEF Changed, IInv, ChecksAreFresh
  <2>3. QED
    BY <1>1, <2>2 DEF IInv, Targets, LivesAreKnown
<1>2. IInv /\ [Next]_vars =>
        [\A h \in Handlers :
           pc[h] = "checking" /\ pc'[h] = "idle" /\ Report(h) = "passed"
           => target[h] \in alive /\ state[target[h]] = "running"]_vars
  BY <1>1
<1>3. QED
  BY <1>2, Invariance, PTL DEF Spec, PassedRuntimeServes
================================================================================
