-------------------------- MODULE HostOwnershipProofs --------------------------
(****************************************************************************)
(* Proofs about HostOwnership, for any number of servers and lifecycles: no *)
(* server serves next to what another one may have left running.            *)
(****************************************************************************)
EXTENDS HostOwnership, TLAPS

\* At most one server is between its flock and the end of its process.
Exclusive == \A s \in Servers : pc[s] \in Holding => lock = s

\* What a server read as its lifecycle is the current one, if anything.
ReadCurrent == \A s \in Servers : pc[s] \in Holding \ {"claim"} =>
                 read[s] \in {Empty, lifecycle}

\* A server that is about to mark the sandbox found it free of leftovers.
FoundClean ==
  \A s \in Servers : pc[s] \in {"unlink", "bind", "mark", "write"} => leftovers = {}

\* A marker is in place while the server can start runtimes.
ServingIsMarked ==
  \A s \in Servers :
    /\ pc[s] = "write" => marker = [by |-> s, id |-> Empty]
    /\ pc[s] \in {"serving", "stop"} =>
         marker \in Marker /\ marker.id \in {Empty, lifecycle}

\* A start in progress belongs to a server that has not finished its cleanup;
\* without earlier use its leftovers are those of this start.
StartsAreUsed ==
  \A s \in Servers :
    /\ InStart(s) => /\ pc[s] \in {"serving", "stop", "drain", "cancel"}
                     /\ used[s] /\ ~clean[s]
                     /\ marker \in Marker /\ marker.id \in {Empty, lifecycle}
    /\ starting[s] = "pending" /\ ~before[s] => s \notin leftovers

\* A server's own leftovers show in its flag.
LeftoversAreUsed == \A s \in leftovers : used[s]

\* Who finds its lifecycle unused leaves no leftovers of anyone.
CleanIsUnused ==
  \A s \in Servers :
    /\ pc[s] \in {"claim", "unlink", "bind", "mark", "write", "serving", "stop"} => ~clean[s]
    /\ pc[s] \in {"drain", "cancel", "unmark"} /\ clean[s] => leftovers = {}

\* A server that has not looked at the sandbox yet has not judged it.
Fresh == \A s \in Servers : pc[s] \in {"off", "lock"} => ~clean[s]

\* From its bind to its own cleanup the server's socket is at the path.
Bound ==
  \A s \in Servers : pc[s] \in {"mark", "write", "serving", "stop", "drain"} => socket = s

\* A native start that outlives the request to stop is under the watchdog.
LateStartsAreWatched ==
  \A s \in Servers : InStart(s) /\ pc[s] # "serving" => watchdog[s]

IInv ==
  /\ TypeOK /\ Exclusive /\ ReadCurrent /\ FoundClean /\ ServingIsMarked
  /\ StartsAreUsed /\ LeftoversAreUsed /\ CleanIsUnused /\ Fresh
  /\ Bound /\ CleanSandbox /\ UseIsMarked /\ LateStartsAreWatched

-------------------------------------------------------------------------------
(* One lemma for each action.  The conjuncts of IInv depend on one another in *)
(* almost every step, so all of them are visible.                             *)

USE OwnershipAssumption DEF Holding, PCs, Empty, Marker, GoTo, external, files,
    runtime, local, threads, InStart, IInv, TypeOK, Exclusive, ReadCurrent, FoundClean,
    ServingIsMarked, StartsAreUsed, LeftoversAreUsed, CleanIsUnused, Fresh,
    Bound, CleanSandbox, UseIsMarked, LateStartsAreWatched

LEMMA LaunchStep == ASSUME IInv, NEW s \in Servers, Launch(s) PROVE IInv'
  BY DEF Launch

LEMMA LockStep == ASSUME IInv, NEW s \in Servers, Lock(s) PROVE IInv'
  BY DEF Lock

\* Without a marker, or with one of another lifecycle, UseIsMarked leaves no
\* leftovers.
LEMMA ClaimStep == ASSUME IInv, NEW s \in Servers, Claim(s) PROVE IInv'
  BY DEF Claim, Confirmed

LEMMA UnlinkStep == ASSUME IInv, NEW s \in Servers, Unlink(s) PROVE IInv'
  BY DEF Unlink

LEMMA BindStep == ASSUME IInv, NEW s \in Servers, Bind(s) PROVE IInv'
  BY DEF Bind

LEMMA MarkStep == ASSUME IInv, NEW s \in Servers, Mark(s) PROVE IInv'
  BY DEF Mark

LEMMA WriteStep == ASSUME IInv, NEW s \in Servers, Write(s) PROVE IInv'
  BY DEF Write

LEMMA StartBeginsStep == ASSUME IInv, NEW s \in Servers, StartBegins(s) PROVE IInv'
  BY DEF StartBegins

\* The new leftovers belong to the one server that holds the lock.
LEMMA StartSpawnsStep == ASSUME IInv, NEW s \in Servers, StartSpawns(s) PROVE IInv'
  BY DEF StartSpawns

LEMMA StartEndsStep == ASSUME IInv, NEW s \in Servers, StartEnds(s) PROVE IInv'
  BY DEF StartEnds

LEMMA SignalStep == ASSUME IInv, NEW s \in Servers, Signal(s) PROVE IInv'
  BY DEF Signal

LEMMA ShutdownStep == ASSUME IInv, NEW s \in Servers, Shutdown(s) PROVE IInv'
<1>1. /\ pc[s] = "stop" /\ pc' = [pc EXCEPT ![s] = "drain"]
      /\ UNCHANGED <<external, files, runtime, read, threads>>
  BY DEF Shutdown
<1>2. \A u \in Servers : u # s => clean'[u] = clean[u] /\ pc'[u] = pc[u] /\ pc[u] \notin Holding
  BY <1>1 DEF Shutdown
<1>3. clean'[s] => leftovers = {} /\ ~InStart(s)
  <2>1. CASE starting[s] = "no" /\ clean' = [clean EXCEPT ![s] = ~used[s]]
    BY <1>1, <2>1
  <2>2. CASE UNCHANGED clean
    BY <1>1, <2>2 DEF Shutdown
  <2>3. QED
    BY <2>1, <2>2 DEF Shutdown
<1>4. TypeOK'
  <2>1. ASSUME NEW b \in BOOLEAN PROVE [clean EXCEPT ![s] = b] \in [Servers -> BOOLEAN]
    OBVIOUS
  <2>2. (~used[s]) \in BOOLEAN
    BY Zenon
  <2>3. clean' \in [Servers -> BOOLEAN]
    BY <2>1, <2>2, Zenon DEF Shutdown
  <2>4. completed' \in [Servers -> BOOLEAN]
    BY DEF Shutdown
  <2>5. QED
    BY <1>1, <2>3, <2>4
<1>5. pc'[s] = "drain"
  BY <1>1
<1>6. Exclusive' /\ ReadCurrent' /\ FoundClean' /\ ServingIsMarked'
  BY <1>1
<1>7. StartsAreUsed'
  BY <1>1, <1>2, <1>3, <1>5
<1>8. CleanIsUnused' /\ Fresh'
  BY <1>1, <1>2, <1>3, <1>5
<1>9. LeftoversAreUsed' /\ Bound' /\ CleanSandbox' /\ UseIsMarked' /\ LateStartsAreWatched'
  BY <1>1
<1>10. QED
  BY <1>4, <1>6, <1>7, <1>8, <1>9

LEMMA DrainStep == ASSUME IInv, NEW s \in Servers, Drain(s) PROVE IInv'
  BY DEF Drain

LEMMA CancelStep == ASSUME IInv, NEW s \in Servers, Cancel(s) PROVE IInv'
  BY DEF Cancel

\* A marker is only removed where CleanIsUnused found no leftovers.
LEMMA UnmarkStep == ASSUME IInv, NEW s \in Servers, Unmark(s) PROVE IInv'
  BY DEF Unmark

\* The server has cleaned up; who takes the lock next finds what it left.
LEMMA ExitStep == ASSUME IInv, NEW s \in Servers, Exit(s) PROVE IInv'
<1>1. /\ pc[s] = "exit" /\ pc' = [pc EXCEPT ![s] = "joining"] /\ lock' = NoFile
      /\ UNCHANGED <<external, marker, socket, runtime, read, completed, clean, checking>>
      /\ \A u \in Servers \ {s} : watchdog'[u] = watchdog[u] /\ pc'[u] = pc[u]
  BY DEF Exit
<1>2. watchdog' \in [Servers -> BOOLEAN]
  <2>1. (watchdog[s] /\ ~completed[s]) \in BOOLEAN
    BY Zenon
  <2>2. QED
    BY <2>1 DEF Exit
<1>3. \A u \in Servers \ {s} : pc[u] \notin Holding
  BY <1>1
<1>4. TypeOK'
  BY <1>1, <1>2
<1>5. ~InStart(s)
  BY <1>1
<1>6. LateStartsAreWatched'
  BY <1>1, <1>5
<1>7. QED
  BY <1>1, <1>3, <1>4, <1>6

LEMMA JoinStep == ASSUME IInv, NEW s \in Servers, Join(s) PROVE IInv'
  BY DEF Join, Dies

LEMMA CheckStep ==
  ASSUME IInv, NEW s \in Servers, CheckBegins(s) \/ CheckEnds(s)
  PROVE  IInv'
<1>1. checking' \in [Servers -> BOOLEAN]
  <2>1. PICK b \in BOOLEAN : checking' = [checking EXCEPT ![s] = b]
    BY Zenon DEF CheckBegins, CheckEnds
  <2>2. QED
    BY <2>1
<1>2. UNCHANGED <<external, files, pc, runtime, read, completed, clean, watchdog>>
  BY DEF CheckBegins, CheckEnds
<1>3. QED
  BY <1>1, <1>2

LEMMA WatchdogFiresStep == ASSUME IInv, NEW s \in Servers, WatchdogFires(s) PROVE IInv'
  BY DEF WatchdogFires, Dies

LEMMA CrashStep == ASSUME IInv, NEW s \in Servers, Crash(s) PROVE IInv'
  BY DEF Crash, Dies

\* A new lifecycle ends every server and every leftover.
LEMMA NewLifecycleStep == ASSUME IInv, NewLifecycle PROVE IInv'
  BY DEF NewLifecycle
-------------------------------------------------------------------------------
LEMMA InitInvariant == Init => IInv
  BY DEF Init

LEMMA NextInvariant == IInv /\ [Next]_vars => IInv'
<1> SUFFICES ASSUME IInv, [Next]_vars PROVE IInv'
  OBVIOUS
<1>1. ASSUME NEW s \in Servers, Serve(s) PROVE IInv'
  BY <1>1, LockStep, ClaimStep, UnlinkStep, BindStep, MarkStep, WriteStep,
     ShutdownStep, DrainStep, CancelStep, UnmarkStep, ExitStep, JoinStep DEF Serve
<1>2. ASSUME NEW s \in Servers, Environment(s) PROVE IInv'
  BY <1>2, LaunchStep, SignalStep, CrashStep, StartBeginsStep, StartSpawnsStep,
     StartEndsStep, CheckStep DEF Environment
<1>3. ASSUME UNCHANGED vars PROVE IInv'
  BY <1>3 DEF vars
<1>4. QED
  BY <1>1, <1>2, <1>3, WatchdogFiresStep, CheckStep, NewLifecycleStep DEF Next

\* IInv is an invariant of servers that start, serve, crash and are replaced.
THEOREM Invariance == Spec => []IInv
<1> USE DEF IInv
<1>1. QED
  BY InitInvariant, NextInvariant, PTL DEF Spec

\* Every variable keeps its type.
THEOREM TypeCorrect == Spec => []TypeOK
<1>1. IInv => TypeOK
  OBVIOUS
<1>2. QED
  BY <1>1, Invariance, PTL

\* However many servers were started and killed before, and at whatever point
\* of their start-up or shutdown, one that serves is alone with its harnesses.
THEOREM SandboxIsClean == Spec => []CleanSandbox
<1>1. IInv => CleanSandbox
  OBVIOUS
<1>2. QED
  BY <1>1, Invariance, PTL

\* No server loses its socket to another one while it serves.
THEOREM SocketServed == Spec => []SocketIsServed
<1>1. IInv => SocketIsServed
  BY DEF SocketIsServed
<1>2. QED
  BY <1>1, Invariance, PTL

\* Leftovers are always behind a marker that blocks the next server.
THEOREM LeftoversAreMarked == Spec => []UseIsMarked
<1>1. IInv => UseIsMarked
  OBVIOUS
<1>2. QED
  BY <1>1, Invariance, PTL

\* Until the process of a server that was told to stop is gone, a native start
\* that does not end is watched: what ExitIsBounded rests on.
THEOREM StartsAreWatched == Spec => []LateStartsAreWatched
<1>1. IInv => LateStartsAreWatched
  OBVIOUS
<1>2. QED
  BY <1>1, Invariance, PTL
================================================================================
