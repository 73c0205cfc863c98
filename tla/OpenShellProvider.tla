--------------------------- MODULE OpenShellProvider ---------------------------
(****************************************************************************)
(* The OpenShell environment provider (environment-providers/openshell): it *)
(* prepares, attaches, commands and releases sandboxes through a gateway    *)
(* that knows them by name, and tells one from its replacement by its id.   *)
(* Everything here happens to one name, which several environments and      *)
(* others use.  A request is a series of gateway calls; each may fail or    *)
(* take too long, and what nobody waits for may still happen.  The provider *)
(* process may die at any time (the host kills it when an answer is late).  *)
(****************************************************************************)
EXTENDS Naturals, FiniteSets

CONSTANTS
  Environments,  \* environment ids, drawn anew by every prepare and attach
  Sandboxes,     \* ids the gateway draws, never twice
  MaxPending,    \* bound: commands and deletions on their way at once
  None

ASSUME ProviderAssumption ==
  /\ None \notin Environments /\ None \notin Sandboxes
  /\ Environments \cap {"other", "absent"} = {} /\ Sandboxes \cap {"other", "absent"} = {}
  /\ None \notin {"other", "absent"}
  /\ MaxPending \in Nat

VARIABLES
  ownership,  \* of the plan of each environment
  job, pc,    \* what is done for environment e, and how far it is
  bound,      \* bound[e]: the id e's request or handle is bound to
  known,      \* known[e]: the sandboxes there were when the id was checked
  answer,     \* answer[e]: the gateway's answer to the call that is waited for
  named,      \* the sandbox the name resolves to
  phase, label,       \* of each sandbox; label: nemo-fabric.environment-id
  creating,   \* environments whose create may still be executed
  pending,    \* deletions and commands that may still be executed
  late        \* sandboxes that came after their prepare had looked for them

requestVars == <<job, pc, bound, known, answer>>
gatewayVars == <<named, phase, label>>
pathVars == <<creating, pending, late>>
vars == <<ownership, requestVars, gatewayVars, pathVars>>

Actions == [op : {"delete", "exec"}, env : Environments, bound : Sandboxes,
            known : SUBSET Sandboxes, waited : BOOLEAN]

TypeOK ==
  /\ ownership \in [Environments -> {"fabric_owned", "caller_owned"}]
  /\ job \in [Environments -> {"none", "prepare", "release", "exec"}]
  /\ pc \in [Environments -> {"idle", "create", "lookup", "ready", "get", "act", "sent", "wait",
                              "held", "released", "failed", "unconfirmed", "lost"}]
  /\ bound \in [Environments -> Sandboxes \cup {None}]
  /\ known \in [Environments -> SUBSET Sandboxes]
  /\ answer \in [Environments -> Sandboxes \cup {"absent", None}]
  /\ named \in Sandboxes \cup {None}
  /\ phase \in [Sandboxes -> {"unborn", "up", "deleting", "gone"}]
  /\ \A s \in Sandboxes : s = named <=> phase[s] \in {"up", "deleting"}
  /\ label \in [Sandboxes -> Environments \cup {"other", None}]
  /\ creating \subseteq Environments
  /\ pending \subseteq Actions
  /\ \A d \in pending : d.waited =>
       pc[d.env] = "sent" /\ \A f \in pending : f.waited /\ f.env = d.env => f = d
  /\ late \subseteq Sandboxes

Init ==
  /\ ownership \in [Environments -> {"fabric_owned", "caller_owned"}]
  /\ job = [e \in Environments |-> "none"] /\ pc = [e \in Environments |-> "idle"]
  /\ bound = [e \in Environments |-> None] /\ known = [e \in Environments |-> {}]
  /\ answer = [e \in Environments |-> None]
  /\ named = None
  /\ phase = [s \in Sandboxes |-> "unborn"] /\ label = [s \in Sandboxes |-> None]
  /\ creating = {} /\ pending = {} /\ late = {}

----------------------------------------------------------------------------
Goto(e, l) == pc' = [pc EXCEPT ![e] = l]
Enter(e, j, l) == job' = [job EXCEPT ![e] = j] /\ Goto(e, l)

\* How a request ends whose cleanup or release is confirmed, and one where it is not:
\* a failed prepare reports its error, or cleanup_unconfirmed; a release that fails may
\* be tried again.
Confirmed(e) == Goto(e, IF job[e] = "prepare" THEN "failed" ELSE "released")
Unconfirmed(e) == Goto(e, IF job[e] = "prepare" THEN "unconfirmed" ELSE "held")

\* Slip: who gives a call up is still taken to wait for it.
Unwaited_StillWaited(e) == {pending}

\* The gateway call is not waited for any more; it may be on its way.
Unwaited(e) ==
  LET mine == {d \in pending : d.env = e /\ d.waited}
  IN {pending \ mine, (pending \ mine) \cup {[d EXCEPT !.waited = FALSE] : d \in mine}}

Abandon(e) ==
  /\ answer' = [answer EXCEPT ![e] = None] /\ known' = [known EXCEPT ![e] = {}]
  /\ creating' \in {creating, creating \ {e}}
  /\ pending' \in Unwaited(e)

----------------------------------------------------------------------------
(* prepare_environment and attach_environment *)

\* The gateway is reached and healthy: the sandbox is created, with the label.
Prepare(e) ==
  /\ pc[e] = "idle" /\ ownership[e] = "fabric_owned"
  /\ Enter(e, "prepare", "create")
  /\ creating' = creating \cup {e}
  /\ UNCHANGED <<ownership, bound, known, answer, gatewayVars, pending, late>>

\* The profile is invalid, or the gateway cannot be reached or is unhealthy.
PrepareFails(e) ==
  /\ pc[e] = "idle"
  /\ Enter(e, "prepare", "failed")
  /\ UNCHANGED <<ownership, bound, known, answer, gatewayVars, pathVars>>

CreateReturns(e) ==
  /\ pc[e] = "create" /\ answer[e] # None
  /\ bound' = [bound EXCEPT ![e] = answer[e]] /\ answer' = [answer EXCEPT ![e] = None]
  /\ Goto(e, "ready")
  /\ UNCHANGED <<ownership, job, known, gatewayVars, pathVars>>

CreateFails(e) ==
  /\ pc[e] = "create"
  /\ Abandon(e) /\ Goto(e, "lookup")
  /\ UNCHANGED <<ownership, job, bound, gatewayVars, late>>

\* Slip: a lookup that fails is taken for one that found nothing.
LookupFails_Absent(e) ==
  /\ pc[e] = "lookup" /\ Goto(e, "failed")
  /\ UNCHANGED <<ownership, job, bound, known, answer, gatewayVars, pathVars>>

LookupFails(e) ==
  /\ pc[e] = "lookup" /\ Goto(e, "unconfirmed")
  /\ UNCHANGED <<ownership, job, bound, known, answer, gatewayVars, pathVars>>

\* Did the create that failed leave a sandbox?  Only one with the label is cleaned up.
Lookup(e) ==
  /\ pc[e] = "lookup"
  /\ IF named # None /\ label[named] = e
     THEN bound' = [bound EXCEPT ![e] = named] /\ Goto(e, "get")
     ELSE UNCHANGED bound /\ Goto(e, "failed")
  /\ UNCHANGED <<ownership, job, known, answer, gatewayVars, pathVars>>

\* wait_ready and the readiness of the providers, which go by the name; what became
\* ready must be what was created.
Ready(e) ==
  /\ pc[e] = "ready" /\ named # None /\ phase[named] = "up"
  /\ Goto(e, IF named = bound[e] THEN "held" ELSE "get")
  /\ UNCHANGED <<ownership, job, bound, known, answer, gatewayVars, pathVars>>

\* It takes too long, or a provider is not ready: cleanup_created_sandbox.
ReadyFails(e) ==
  /\ pc[e] = "ready" /\ Goto(e, "get")
  /\ UNCHANGED <<ownership, job, bound, known, answer, gatewayVars, pathVars>>

\* The caller refers to a sandbox s by name and id; its image, command and policy are
\* compared with the settings.
Attach(e, s) ==
  /\ pc[e] = "idle" /\ ownership[e] = "caller_owned" /\ phase[s] # "unborn"
  /\ \/ /\ named = s /\ phase[s] = "up"
        /\ bound' = [bound EXCEPT ![e] = s] /\ Goto(e, "held")
     \/ UNCHANGED bound /\ Goto(e, "failed")
  /\ UNCHANGED <<ownership, job, known, answer, gatewayVars, pathVars>>

----------------------------------------------------------------------------
(* runtime_command, exec_environment, collect_artifacts, release_environment and     *)
(* cleanup_created_sandbox: the id is checked, then the call is made by name         *)

CommandBegins(e) ==
  /\ pc[e] = "held" /\ Enter(e, "exec", "get")
  /\ UNCHANGED <<ownership, bound, known, answer, gatewayVars, pathVars>>

\* A sandbox of the caller is detached, without a call.
ReleaseBegins(e) ==
  /\ pc[e] = "held"
  /\ Enter(e, "release", IF ownership[e] = "fabric_owned" THEN "get" ELSE "released")
  /\ UNCHANGED <<ownership, bound, known, answer, gatewayVars, pathVars>>

\* Slip: only the name is checked.
Verified_ByName(e) == named # None

\* SandboxBinding.verify
Verified(e) == named = bound[e]

Get(e) ==
  /\ pc[e] = "get"
  /\ IF Verified(e)
     THEN /\ known' = [known EXCEPT ![e] = {s \in Sandboxes : phase[s] # "unborn"}]
          /\ Goto(e, "act")
     ELSE /\ UNCHANGED known
          /\ IF named = None /\ job[e] = "release" THEN Confirmed(e) ELSE Unconfirmed(e)
  /\ UNCHANGED <<ownership, job, bound, answer, gatewayVars, pathVars>>

Act(e) ==
  /\ pc[e] = "act" /\ Cardinality(pending) < MaxPending
  /\ pending' = pending \cup
       {[op |-> IF job[e] = "exec" THEN "exec" ELSE "delete", env |-> e,
         bound |-> bound[e], known |-> known[e], waited |-> TRUE]}
  /\ known' = [known EXCEPT ![e] = {}]
  /\ Goto(e, "sent")
  /\ UNCHANGED <<ownership, job, bound, answer, gatewayVars, creating, late>>

\* Slip: an accepted deletion is taken for a finished one.
Gone_Accepted(e) == answer[e] \in {"absent", bound[e]}

\* The deletion must be of the sandbox that is meant; an absent one is released but
\* not confirmed as cleaned up.
Gone(e) == answer[e] = "absent" /\ job[e] = "release"

Answered(e) ==
  /\ pc[e] = "sent" /\ answer[e] # None
  /\ IF job[e] = "exec" THEN Goto(e, "held")
     ELSE IF Gone(e) THEN Confirmed(e)
     ELSE IF answer[e] = bound[e] THEN Goto(e, "wait")
     ELSE Unconfirmed(e)
  /\ answer' = [answer EXCEPT ![e] = None]
  /\ UNCHANGED <<ownership, job, bound, known, gatewayVars, pathVars>>

\* wait_deleted, with the id
Deleted(e) ==
  /\ pc[e] = "wait" /\ named # bound[e]
  /\ Confirmed(e)
  /\ UNCHANGED <<ownership, job, bound, known, answer, gatewayVars, pathVars>>

CallFails(e) ==
  /\ pc[e] \in {"get", "act", "sent", "wait"}
  /\ Abandon(e) /\ Unconfirmed(e)
  /\ UNCHANGED <<ownership, job, bound, gatewayVars, late>>

\* The host reports an error of the provider process.
ProviderDies(e) ==
  /\ pc[e] \in {"create", "lookup", "ready", "get", "act", "sent", "wait"}
  /\ Abandon(e) /\ Goto(e, IF job[e] = "prepare" THEN "lost" ELSE "held")
  /\ UNCHANGED <<ownership, job, bound, gatewayVars, late>>

----------------------------------------------------------------------------
(* The gateway, and others that use the name *)

Takes(s, l) ==
  /\ named = None /\ phase[s] = "unborn"
  /\ named' = s /\ phase' = [phase EXCEPT ![s] = "up"] /\ label' = [label EXCEPT ![s] = l]

GatewayCreates(e, s) ==
  /\ e \in creating /\ Takes(s, e)
  /\ creating' = creating \ {e}
  /\ answer' = [answer EXCEPT ![e] = IF pc[e] = "create" THEN s ELSE @]
  /\ late' = IF pc[e] \in {"create", "lookup"} THEN late ELSE late \cup {s}
  /\ UNCHANGED <<ownership, job, pc, bound, known, pending>>

Expire(s) == phase' = [phase EXCEPT ![s] = IF @ = "up" THEN "deleting" ELSE @]

GatewayActs(d) ==
  /\ d \in pending /\ pending' = pending \ {d}
  /\ IF d.op = "delete" /\ named # None THEN Expire(named) ELSE UNCHANGED phase
  /\ answer' = [answer EXCEPT ![d.env] = IF ~d.waited THEN @
                                         ELSE IF named = None THEN "absent" ELSE named]
  /\ UNCHANGED <<ownership, job, pc, bound, known, named, label, creating, late>>

GatewayRemoves ==
  /\ named # None /\ phase[named] = "deleting"
  /\ phase' = [phase EXCEPT ![named] = "gone"] /\ named' = None
  /\ UNCHANGED <<ownership, requestVars, label, pathVars>>

OthersCreate(s) == Takes(s, "other") /\ UNCHANGED <<ownership, requestVars, pathVars>>
OthersDelete ==
  /\ named # None /\ phase[named] = "up" /\ Expire(named)
  /\ UNCHANGED <<ownership, requestVars, named, label, pathVars>>

----------------------------------------------------------------------------
Request(e) ==
  \/ Prepare(e) \/ PrepareFails(e) \/ CreateReturns(e) \/ CreateFails(e) \/ Lookup(e)
  \/ LookupFails(e) \/ Ready(e) \/ ReadyFails(e) \/ (\E s \in Sandboxes : Attach(e, s))
  \/ CommandBegins(e) \/ ReleaseBegins(e) \/ Get(e) \/ Act(e) \/ Answered(e) \/ Deleted(e)
  \/ CallFails(e) \/ ProviderDies(e)

Gateway ==
  \/ \E e \in Environments, s \in Sandboxes : GatewayCreates(e, s)
  \/ \E d \in pending : GatewayActs(d)
  \/ GatewayRemoves
  \/ (\E s \in Sandboxes : OthersCreate(s)) \/ OthersDelete

Next == (\E e \in Environments : Request(e)) \/ Gateway

Spec == Init /\ [][Next]_vars

----------------------------------------------------------------------------
\* A command or deletion on its way can only reach the sandbox whose id was checked, or
\* one that took the name after the check: never one that had replaced it by then; and
\* only a sandbox that this very environment created is deleted.
ChecksProtectReplacements ==
  \A d \in pending :
    /\ named \in d.known => named = d.bound
    /\ d.op = "delete" => label[d.bound] = d.env

\* A release of an owned sandbox that reports success leaves no such sandbox, whatever
\* was lost, retried or done by others on the way (release_environment).
ReleasedMeansGone ==
  \A e \in Environments :
    pc[e] = "released" /\ ownership[e] = "fabric_owned" => phase[bound[e]] = "gone"

\* A prepare that fails with its own error, rather than cleanup_unconfirmed, leaves no
\* sandbox of its own: except one whose create took effect after the prepare had looked
\* for it (prepare_environment, cleanup_created_sandbox).
FailedPrepareLeavesNothing ==
  \A e \in Environments, s \in Sandboxes :
    pc[e] = "failed" /\ label[s] = e /\ phase[s] \in {"up", "deleting"} => s \in late
================================================================================
