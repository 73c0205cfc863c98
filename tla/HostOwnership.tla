----------------------------- MODULE HostOwnership -----------------------------
(****************************************************************************)
(* Which runtime server may serve a sandbox: serve() of nemo_fabric/        *)
(* runtime_server/transport.py.  Servers are processes; what survives them  *)
(* is files (the lock file, the ownership marker fabric.unclean, the        *)
(* socket) and the harness processes their runtimes left behind, which only *)
(* the end of the sandbox lifecycle ends.                                   *)
(****************************************************************************)
EXTENDS Naturals, FiniteSets

CONSTANTS
  Servers,      \* server processes that are ever launched
  MaxLifecycle, \* bound on the sandbox lifecycles (1, 2, ...)
  NoFile        \* "no such file", "no holder"

ASSUME OwnershipAssumption ==
  /\ NoFile \notin Servers
  /\ \A s \in Servers, i \in 0..MaxLifecycle : NoFile # [by |-> s, id |-> i]
  /\ MaxLifecycle \in Nat \ {0}

VARIABLES
  lifecycle, \* the current boot and init process of the sandbox
  leftovers, \* servers whose harness processes may still run in it
  lock,      \* holder of the flock on the lock file
  marker,    \* the marker: NoFile, or the server that made it and its text
  socket,    \* the server whose socket inode is at the socket path, or NoFile
  pc,        \* pc[s]: where serve() of server s is
  read,      \* read[s]: lifecycle_id; Empty if it could not be determined
  starting,  \* starting[s]: the native start in progress, or how the last ended
  used,      \* used[s]: has_used_runtime
  before,    \* before[s]: previously_used of the start in progress
  completed, \* completed[s]: shutdown_completed
  clean,     \* clean[s]: unused_lifecycle
  watchdog,  \* watchdog[s]: the timer that ends the process is armed
  checking   \* checking[s]: a worker thread runs a native health check

external == <<lifecycle, leftovers>>
files    == <<lock, marker, socket>>
runtime  == <<starting, used, before>>
threads  == <<watchdog, checking>>
local    == <<read, completed, clean, threads>>
vars == <<external, files, pc, runtime, local>>

\* The text of a marker that was not written, or written without an id.
Empty == 0
Marker == [by : Servers, id : 0..MaxLifecycle]

\* Labels at which the server holds the lock.
Holding == {"claim", "unlink", "bind", "mark", "write", "serving", "stop",
            "drain", "cancel", "unmark", "exit"}
PCs == Holding \cup {"off", "lock", "joining", "gone"}

TypeOK ==
  /\ lifecycle \in 1..MaxLifecycle
  /\ leftovers \subseteq Servers
  /\ lock \in Servers \cup {NoFile}
  /\ marker \in Marker \cup {NoFile}
  /\ socket \in Servers \cup {NoFile}
  /\ pc \in [Servers -> PCs]
  /\ read \in [Servers -> 0..MaxLifecycle]
  /\ starting \in [Servers -> {"no", "pending", "spawned", "uncertain"}]
  /\ used \in [Servers -> BOOLEAN]
  /\ before \in [Servers -> BOOLEAN]
  /\ completed \in [Servers -> BOOLEAN]
  /\ clean \in [Servers -> BOOLEAN]
  /\ watchdog \in [Servers -> BOOLEAN]
  /\ checking \in [Servers -> BOOLEAN]

Init ==
  /\ lifecycle = 1
  /\ leftovers = {}
  /\ lock = NoFile
  /\ marker = NoFile
  /\ socket = NoFile
  /\ pc = [s \in Servers |-> "off"]
  /\ read = [s \in Servers |-> Empty]
  /\ starting = [s \in Servers |-> "no"]
  /\ used = [s \in Servers |-> FALSE]
  /\ before = [s \in Servers |-> FALSE]
  /\ completed = [s \in Servers |-> FALSE]
  /\ clean = [s \in Servers |-> FALSE]
  /\ watchdog = [s \in Servers |-> FALSE]
  /\ checking = [s \in Servers |-> FALSE]

GoTo(s, l) == pc' = [pc EXCEPT ![s] = l]
-------------------------------------------------------------------------------
(* Start-up *)

\* The lock file is opened or created; it is never unlinked.
Launch(s) ==
  /\ pc[s] = "off"
  /\ GoTo(s, "lock")
  /\ UNCHANGED <<external, files, runtime, local>>

\* Slip: the lock is not waited for, and not missed either.
Lock_Ignored(s) ==
  /\ pc[s] = "lock"
  /\ lock' = s
  /\ GoTo(s, "claim")
  /\ UNCHANGED <<external, marker, socket, runtime, local>>

\* flock does not wait: a second server gives up.
Lock(s) ==
  /\ pc[s] = "lock"
  /\ \/ lock = NoFile /\ lock' = s /\ GoTo(s, "claim")
     \/ lock # NoFile /\ GoTo(s, "gone") /\ UNCHANGED lock
  /\ UNCHANGED <<external, marker, socket, runtime, local>>

\* Slip: any marker with a lifecycle id can be taken over.
Confirmed_AnyId(id) == id # Empty /\ marker.id # Empty

\* A previous sandbox is over: both ids are known and they differ.
Confirmed(id) == id # Empty /\ marker.id # Empty /\ marker.id # id

\* _sandbox_lifecycle_id, which may fail, then the marker is examined: without
\* one, or with one of an earlier lifecycle, the server goes on.
Claim(s) ==
  /\ pc[s] = "claim"
  /\ \E id \in {lifecycle, Empty} :
       /\ read' = [read EXCEPT ![s] = id]
       /\ GoTo(s, IF marker = NoFile THEN "bind"
                  ELSE IF Confirmed(id) THEN "unlink" ELSE "exit")
  /\ UNCHANGED <<external, files, runtime, completed, clean, threads>>

Unlink(s) ==
  /\ pc[s] = "unlink"
  /\ marker' = NoFile
  /\ GoTo(s, "bind")
  /\ UNCHANGED <<external, lock, socket, runtime, local>>

\* A stale socket is replaced by this server's, or the file system refuses.
Bind(s) ==
  /\ pc[s] = "bind"
  /\ \/ socket' = s /\ GoTo(s, "mark")
     \/ socket' \in {socket, NoFile} /\ GoTo(s, "exit")
  /\ UNCHANGED <<external, lock, marker, runtime, local>>

\* O_CREAT | O_EXCL: the marker appears empty.
Mark(s) ==
  /\ pc[s] = "mark"
  /\ \/ /\ marker = NoFile
        /\ marker' = [by |-> s, id |-> Empty]
        /\ GoTo(s, "write")
     \/ GoTo(s, "drain") /\ UNCHANGED marker
  /\ UNCHANGED <<external, lock, socket, runtime, local>>

\* Slip: the start time written is one too late.
Write_Late(s) ==
  /\ pc[s] = "write"
  /\ marker' = [marker EXCEPT !.id = read[s] + 1]
  /\ GoTo(s, "serving")
  /\ UNCHANGED <<external, lock, socket, runtime, local>>

\* The id is written; without one the marker stays empty.
Write(s) ==
  /\ pc[s] = "write"
  /\ \/ marker' = [marker EXCEPT !.id = read[s]] /\ GoTo(s, "serving")
     \/ GoTo(s, "drain") /\ UNCHANGED marker
  /\ UNCHANGED <<external, lock, socket, runtime, local>>
-------------------------------------------------------------------------------
(* A start request served by RuntimeServer.handle, one at a time *)

\* The flag is raised before the native start, whose end may never be seen.
StartBegins(s) ==
  /\ pc[s] = "serving"
  /\ starting[s] = "no"
  /\ starting' = [starting EXCEPT ![s] = "pending"]
  /\ before' = [before EXCEPT ![s] = used[s]]
  /\ used' = [used EXCEPT ![s] = TRUE]
  /\ UNCHANGED <<external, files, pc, local>>

\* The native start launches the harness.
StartSpawns(s) ==
  /\ starting[s] = "pending"
  /\ starting' = [starting EXCEPT ![s] = "spawned"]
  /\ leftovers' = leftovers \cup {s}
  /\ UNCHANGED <<lifecycle, files, pc, used, before, local>>

InStart(s) == starting[s] \in {"pending", "spawned"}

\* Slip: a failed start lowers the flag whatever it has done.
StartEnds_Resets(s) ==
  /\ InStart(s)
  /\ starting' = [starting EXCEPT ![s] = "no"]
  /\ used' \in {used, [used EXCEPT ![s] = before[s]]}
  /\ UNCHANGED <<external, files, pc, before, local>>

\* A configuration error comes before any effect and restores the flag.  A
\* runtime that was returned can be stopped; any other end is uncertain.
StartEnds(s) ==
  /\ InStart(s)
  /\ \/ /\ starting[s] = "pending"
        /\ used' = [used EXCEPT ![s] = before[s]]
        /\ starting' = [starting EXCEPT ![s] = "no"]
     \/ /\ starting' \in {[starting EXCEPT ![s] = "no"],
                          [starting EXCEPT ![s] = "uncertain"]}
        /\ UNCHANGED used
  /\ UNCHANGED <<external, files, pc, before, local>>
-------------------------------------------------------------------------------
(* Health checks of a runtime: no lock is held, and nobody waits for the worker *)
(* of a check whose handler was cancelled or gave up.                           *)

CheckBegins(s) ==
  /\ pc[s] = "serving"
  /\ s \in leftovers
  /\ checking' = [checking EXCEPT ![s] = TRUE]
  /\ UNCHANGED <<external, files, pc, runtime, read, completed, clean, watchdog>>

CheckEnds(s) ==
  /\ checking[s]
  /\ checking' = [checking EXCEPT ![s] = FALSE]
  /\ UNCHANGED <<external, files, pc, runtime, read, completed, clean, watchdog>>
-------------------------------------------------------------------------------
(* Shutdown *)

\* Slip: the exit is left to the shutdown alone.
Signal_Unwatched(s) ==
  /\ pc[s] = "serving"
  /\ GoTo(s, "stop")
  /\ UNCHANGED <<external, files, runtime, local>>

\* request_stop: new work is refused and the watchdog armed.
Signal(s) ==
  /\ pc[s] = "serving"
  /\ watchdog' = [watchdog EXCEPT ![s] = TRUE]
  /\ GoTo(s, "stop")
  /\ UNCHANGED <<external, files, runtime, read, completed, clean, checking>>

\* host.shutdown() raises while a start is in progress or uncertain, and it may
\* raise or time out otherwise; only an orderly shutdown looks at the flag.
Shutdown(s) ==
  /\ pc[s] = "stop"
  /\ \/ /\ starting[s] = "no"
        /\ completed' = [completed EXCEPT ![s] = TRUE]
        /\ clean' = [clean EXCEPT ![s] = ~used[s]]
     \/ UNCHANGED <<completed, clean>>
  /\ GoTo(s, "drain")
  /\ UNCHANGED <<external, files, runtime, read, threads>>

\* Only the socket this server bound is unlinked.
Drain(s) ==
  /\ pc[s] = "drain"
  /\ socket' = IF socket = s THEN NoFile ELSE socket
  /\ GoTo(s, "cancel")
  /\ UNCHANGED <<external, lock, marker, runtime, local>>

\* The handlers are cancelled and awaited; one in a native start is only over
\* when the native worker is.
Cancel(s) ==
  /\ pc[s] = "cancel"
  /\ ~InStart(s)
  /\ GoTo(s, "unmark")
  /\ UNCHANGED <<external, files, runtime, local>>

\* Only the marker this server wrote is unlinked.
Unmark(s) ==
  /\ pc[s] = "unmark"
  /\ marker' = IF clean[s] /\ marker # NoFile /\ marker.by = s
                 THEN NoFile ELSE marker
  /\ GoTo(s, "exit")
  /\ UNCHANGED <<external, lock, socket, runtime, local>>

\* The process ends with all it had in memory: the kernel drops its lock.
Dies(s) ==
  /\ GoTo(s, "gone")
  /\ lock' = IF lock = s THEN NoFile ELSE lock
  /\ starting' = [starting EXCEPT ![s] = "no"]
  /\ read' = [read EXCEPT ![s] = Empty]
  /\ completed' = [completed EXCEPT ![s] = FALSE]
  /\ clean' = [clean EXCEPT ![s] = FALSE]
  /\ watchdog' = [watchdog EXCEPT ![s] = FALSE]
  /\ checking' = [checking EXCEPT ![s] = FALSE]
  /\ UNCHANGED <<external, marker, socket, used, before>>

\* serve() ends: only an orderly shutdown cancels the watchdog; the lock file
\* is closed.
Exit(s) ==
  /\ pc[s] = "exit"
  /\ watchdog' = [watchdog EXCEPT ![s] = @ /\ ~completed[s]]
  /\ lock' = NoFile
  /\ GoTo(s, "joining")
  /\ UNCHANGED <<external, marker, socket, runtime, read, completed, clean, checking>>

\* The interpreter joins the threads of its executors before the process ends.
Join(s) == pc[s] = "joining" /\ ~checking[s] /\ Dies(s)

WatchdogFires(s) == watchdog[s] /\ Dies(s)

\* Killed, or crashed, anywhere.
Crash(s) == pc[s] \notin {"off", "gone"} /\ Dies(s)
-------------------------------------------------------------------------------
\* A new boot or a new init process: every process of the sandbox is over, the
\* retained files stay.
NewLifecycle ==
  /\ lifecycle < MaxLifecycle
  /\ lifecycle' = lifecycle + 1
  /\ leftovers' = {}
  /\ lock' = NoFile
  /\ pc' = [s \in Servers |-> IF pc[s] = "off" THEN "off" ELSE "gone"]
  /\ starting' = [s \in Servers |-> "no"]
  /\ read' = [s \in Servers |-> Empty]
  /\ completed' = [s \in Servers |-> FALSE]
  /\ clean' = [s \in Servers |-> FALSE]
  /\ watchdog' = [s \in Servers |-> FALSE]
  /\ checking' = [s \in Servers |-> FALSE]
  /\ UNCHANGED <<marker, socket, used, before>>

\* What a server does by itself.
Serve(s) ==
  \/ Lock(s) \/ Claim(s) \/ Unlink(s) \/ Bind(s) \/ Mark(s) \/ Write(s)
  \/ Shutdown(s) \/ Drain(s) \/ Cancel(s) \/ Unmark(s) \/ Exit(s)
  \/ Join(s)

\* What its environment does: the supervisor, callers, the native library.
Environment(s) ==
  \/ Launch(s) \/ Signal(s) \/ Crash(s)
  \/ StartBegins(s) \/ StartSpawns(s) \/ StartEnds(s) \/ CheckBegins(s)

Next ==
  \/ \E s \in Servers : Serve(s) \/ Environment(s) \/ WatchdogFires(s) \/ CheckEnds(s)
  \/ NewLifecycle

Spec == Init /\ [][Next]_vars

\* The event loop and the timer thread run, and a check keeps the deadline of
\* its request; nothing is assumed of the native start, of callers or of the
\* supervisor.
FairSpec ==
  /\ Spec
  /\ \A s \in Servers :
       WF_vars(Serve(s)) /\ WF_vars(WatchdogFires(s)) /\ WF_vars(CheckEnds(s))
-------------------------------------------------------------------------------
(* Properties *)

\* No server serves next to what an earlier server may have left running:
\* stopped, killed or crashed at any point, in this lifecycle or before.
CleanSandbox ==
  \A s \in Servers : pc[s] \in {"serving", "stop"} => leftovers \subseteq {s}

\* Whoever connects while a server serves reaches that server: no other server
\* replaces its socket, and none removes it on its own way out.
SocketIsServed == \A s \in Servers : pc[s] = "serving" => socket = s

\* While harness processes may be left there is a marker that blocks the next
\* server of this lifecycle.
UseIsMarked ==
  leftovers # {} => marker # NoFile /\ marker.id \in {Empty, lifecycle}

\* A server told to stop ends, even if a native start never does: either the
\* watchdog is still armed, or the shutdown was orderly and all that the process
\* still waits for are the workers of health checks.
ExitIsBounded == \A s \in Servers : pc[s] = "stop" ~> pc[s] = "gone"
==============================================================================
