------------------------------ MODULE PiCollector ------------------------------
(****************************************************************************)
(* The standalone collector of nemo_fabric_collector/app.py with Pi's turn  *)
(* windows: class AtofCollector, its _RequestState objects and its queues.  *)
(* A runtime invokes Pi one call at a time.  Pi does not attach request ids *)
(* to its records, so the call that holds the boundary lease gets the       *)
(* records that arrive meanwhile; late records are told from its own by the *)
(* cumulative turn sequence.  state_lock is never held across an await, so  *)
(* taking it never suspends: a step is what a handler does between two      *)
(* awaits.  The subscription phase is left out: only the routing by request *)
(* id reads it.                                                             *)
(****************************************************************************)
EXTENDS Integers, Sequences, FiniteSets

CONSTANTS
  LastCall,     \* the calls of the runtime are 1..LastCall, in this order
  Requests,     \* request ids; the caller chooses them and may reuse one
  Request,      \* Request[c]: the request id of call c
  Streaming,    \* Streaming[c]: may call c be a stream, may it be a plain one
  QueueMaxsize, \* _queue_maxsize
  MaxFaults     \* bound: requests of the SDK that fail, handled or not

Calls == 1..LastCall
None == 0

ASSUME PiCollectorAssumption ==
  /\ LastCall \in Nat \ {0}
  /\ Request \in [Calls -> Requests]
  /\ Streaming \in [Calls -> SUBSET BOOLEAN]
  /\ QueueMaxsize \in Nat \ {0}
  /\ MaxFaults \in Nat

VARIABLES
  \* The collector.
  current,    \* current[q]: the call whose state and queue are registered as q
  routed,     \* the calls in request_uuids
  state,      \* state[c]: the _RequestState of c
  queue,      \* queue[c]: its _AtofRecordQueue
  owner,      \* _pi_boundary_owner; _pi_boundary_ready is set iff it is None
  turnSeq,    \* _pi_boundary_turn_seq, -1 for None
  recovery,   \* _pi_recovery_mode
  tombstones, \* _pi_completion_tombstones
  cancelled,  \* _cancelled_registration_tokens; each call has its own token
  blocked,    \* the record a route waits to put: <<>> or <<record, call>>
  \* Pi and its Relay publisher.
  turns,      \* cumulative turn count
  wire,       \* records published and not yet read by the collector
  \* The SDK runtime.
  client,     \* client[c]: what the SDK does for call c
  post,       \* post[c]: its registration request
  delete,     \* delete[c][p]: its deregistration request for purpose p
  faults      \* requests of the SDK that failed so far

boundaryVars == <<owner, turnSeq, recovery, tombstones, cancelled>>
collectorVars == <<current, routed, state, queue, boundaryVars, blocked>>
piVars == <<turns, wire>>
requestVars == <<post, delete>>
vars == <<collectorVars, piVars, client, requestVars, faults>>

Purposes == {"outcome", "finalizer", "compensation"}
Results == {"none", "failed", "idle", "counted", "uncounted", "unmarked"}
Records == [kind : {"turn", "body", "settled"}, of : Calls, seq : Nat]
Modes == {"normal", "known", "unknown"}
Key(r) == <<r.seq, r.of>>     \* completion_key: each call settles under one uuid

TypeOK ==
  /\ current \in [Requests -> Calls \cup {None}]
  /\ routed \subseteq Calls
  /\ state \in [Calls ->
       [attached : BOOLEAN, ready : BOOLEAN, capture : BOOLEAN, preserved : BOOLEAN,
        started : BOOLEAN, seen : BOOLEAN,
        recovery : Modes, prior : Int, latest : Int,
        completion : (Nat \X Calls) \cup {<<>>}]]
  /\ queue \in [Calls -> [records : Seq(Records), closed : BOOLEAN, drain : BOOLEAN]]
  /\ \A c \in Calls : Len(queue[c].records) <= QueueMaxsize
  /\ owner \in Calls \cup {None}
  /\ turnSeq \in Int
  /\ recovery \in Modes
  /\ tombstones \subseteq Nat \X Calls
  /\ cancelled \subseteq Calls
  /\ blocked \in (Records \X Calls) \cup {<<>>}
  /\ turns \in Nat
  /\ faults \in 0..MaxFaults
  /\ wire \in Seq(Records)
  /\ client \in [Calls ->
       [pc : {"idle", "registering", "running", "outcome", "waiting",
              "compensating", "ended"},
        stream : BOOLEAN, fin : {"none", "sent", "ended"}, result : Results,
        count : Nat, failed : BOOLEAN, known : BOOLEAN, turn : BOOLEAN,
        ran : BOOLEAN]]
  /\ post \in [Calls -> {"none", "sent", "ready", "rejected"}]
  /\ delete \in [Calls -> [Purposes -> {"none", "sent", "waiting", "done"}]]

FreshState ==
  [attached |-> FALSE, ready |-> FALSE, capture |-> TRUE, preserved |-> FALSE,
   started |-> FALSE, seen |-> FALSE,
   recovery |-> "normal", prior |-> -1, latest |-> -1, completion |-> <<>>]
FreshClient ==
  [pc |-> "idle", stream |-> FALSE, fin |-> "none", result |-> "none",
   count |-> 0, failed |-> FALSE, known |-> FALSE, turn |-> FALSE,
   ran |-> FALSE]

Init ==
  /\ current = [q \in Requests |-> None] /\ routed = {}
  /\ state = [c \in Calls |-> FreshState]
  /\ queue = [c \in Calls |-> [records |-> <<>>, closed |-> FALSE, drain |-> FALSE]]
  /\ owner = None /\ turnSeq = -1 /\ recovery = "normal"
  /\ tombstones = {} /\ cancelled = {} /\ blocked = <<>>
  /\ turns = 0 /\ wire = <<>> /\ faults = 0
  /\ client = [c \in Calls |-> FreshClient]
  /\ post = [c \in Calls |-> "none"]
  /\ delete = [c \in Calls |-> [p \in Purposes |-> "none"]]

\* Slip: requests are matched without their token.
IsCurrent_AnyToken(c) == current[Request[c]] # None

\* request_states and request_messages hold the objects of call c, so a request
\* that carries the token of c matches.
IsCurrent(c) == current[Request[c]] = c
\* Both are popped and the queue is closed.  Who still holds the objects finds
\* nothing to read in them and changes nothing that is read later.
Pop(c) ==
  /\ current' = [current EXCEPT ![Request[c]] = None]
  /\ state' = [state EXCEPT ![c] = FreshState]
  /\ queue' = [queue EXCEPT ![c] = [records |-> <<>>, closed |-> TRUE, drain |-> FALSE]]
BoundaryReady == owner = None

----------------------------------------------------------------------------
(* register *)

Register(c) ==
  /\ post[c] = "sent" /\ BoundaryReady
  /\ IF c \in cancelled \/ current[Request[c]] # None \/ routed # {}
     THEN /\ post' = [post EXCEPT ![c] = "rejected"]
          /\ UNCHANGED <<current, routed, state, owner>>
     ELSE /\ post' = [post EXCEPT ![c] = "ready"]
          /\ current' = [current EXCEPT ![Request[c]] = c]
          /\ routed' = routed \cup {c}
          /\ state' = [state EXCEPT ![c] =
               [FreshState EXCEPT !.capture = client[c].stream,
                                  !.recovery = recovery, !.prior = turnSeq]]
          /\ owner' = c
  /\ UNCHANGED <<queue, turnSeq, recovery, tombstones, cancelled, blocked, piVars,
                 client, delete, faults>>

\* The wait for the boundary ends without it, or another registration is faster.
RegisterTimesOut(c) ==
  /\ post[c] = "sent" /\ ~BoundaryReady
  /\ post' = [post EXCEPT ![c] = "rejected"]
  /\ UNCHANGED <<collectorVars, piVars, client, delete, faults>>

----------------------------------------------------------------------------
(* The stream of a call: attach_stream, the response's generator, detach_stream *)

Readable(c) == queue[c].records # <<>> /\ (queue[c].closed => queue[c].drain)
Exhausted(c) == queue[c].closed /\ queue[c].records = <<>>

StreamAttaches(c) ==
  /\ client[c].stream /\ client[c].ran /\ client[c].fin = "none"
  /\ IsCurrent(c) /\ ~state[c].attached
  /\ state' = [state EXCEPT ![c].attached = TRUE]
  /\ UNCHANGED <<current, routed, queue, boundaryVars, blocked, piVars, client,
                 requestVars, faults>>

StreamReads(c) ==
  /\ state[c].attached /\ Readable(c)
  /\ queue' = [queue EXCEPT ![c].records = Tail(@)]
  /\ UNCHANGED <<current, routed, state, boundaryVars, blocked, piVars, client,
                 requestVars, faults>>

\* The generator ends with its queue, or its consumer has gone.
StreamDetaches(c) ==
  /\ state[c].attached /\ (Exhausted(c) \/ client[c].fin # "none")
  /\ IF Exhausted(c) /\ ~state[c].preserved THEN Pop(c)
     ELSE /\ state' = [state EXCEPT ![c].attached = FALSE]
          /\ UNCHANGED <<current, queue>>
  /\ UNCHANGED <<routed, boundaryVars, blocked, piVars, client,
                 requestVars, faults>>

----------------------------------------------------------------------------
(* deregister *)

Action(c, p) ==
  IF p = "finalizer" THEN "preserve"
  ELSE IF p = "compensation" THEN "quarantine"
  ELSE CASE client[c].result \in {"failed", "idle"} -> "release"
         [] client[c].result = "unmarked" -> "quarantine"
         [] OTHER -> "wait"

RemovesQueue(c, p) == p = "outcome" => ~client[c].stream \/ ~client[c].ran

Advance(n) == IF n > turnSeq THEN n ELSE turnSeq
HasCount(c, p) == p = "outcome" /\ client[c].result = "counted"
Expected(c, p) == IF HasCount(c, p) THEN client[c].count - 1 ELSE -1

\* _resolve_pi_boundary: the lease of c ends where its records and count say.
ResolveBoundary(c, p) ==
  LET s == state[c]
      settledAt == IF s.completion = <<>> THEN -1 ELSE s.completion[1]
      observed == Advance(IF s.started THEN s.latest
                          ELSE IF HasCount(c, p) THEN settledAt ELSE -1)
      e == Expected(c, p)
  IN /\ owner' = None
     /\ turnSeq' = IF \A n \in {s.prior, s.latest, settledAt, observed} : e >= n
                   THEN e ELSE observed
     /\ tombstones' = IF s.completion = <<>> THEN tombstones
                      ELSE tombstones \cup {s.completion}
     /\ UNCHANGED recovery

\* _set_pi_recovery: the end of c was not seen; its count is a fence, if valid.
SetRecovery(c, p) ==
  LET s == state[c]
      e == Expected(c, p)
      valid == e # -1 /\ e > s.prior /\ e >= s.latest /\ e >= turnSeq
  IN /\ owner' = None
     /\ turnSeq' = IF valid THEN e ELSE turnSeq
     /\ recovery' = IF valid THEN "known" ELSE "unknown"
     /\ UNCHANGED tombstones

\* The wait timed out, or there was none in recovery mode.
LateForWait(c, p) ==
  ~state[c].seen /\ (delete[c][p] = "waiting" \/ state[c].recovery # "normal")

EndLease(c, p) ==
  CASE owner # c -> UNCHANGED <<owner, turnSeq, recovery, tombstones>>
    [] owner = c /\ Action(c, p) = "release" -> ResolveBoundary(c, p)
    [] owner = c /\ Action(c, p) = "quarantine" ->
         IF state[c].seen THEN ResolveBoundary(c, p) ELSE SetRecovery(c, p)
    [] owner = c /\ Action(c, p) = "wait" ->
         IF LateForWait(c, p) THEN SetRecovery(c, p) ELSE ResolveBoundary(c, p)

\* _AtofRecordQueue.close
Close(q, drain) ==
  IF q.closed THEN q
  ELSE [records |-> IF drain THEN q.records ELSE <<>>, closed |-> TRUE, drain |-> drain]

Deliver(c, p, to) == delete' = [delete EXCEPT ![c][p] = to]

\* The completion has to be awaited and is still missing.
CompletionMissing(c, p) ==
  /\ Action(c, p) = "wait" /\ IsCurrent(c) /\ owner = c
  /\ state[c].recovery = "normal" /\ ~state[c].seen

DeregisterWaits(c, p) ==
  /\ delete[c][p] = "sent" /\ CompletionMissing(c, p)
  /\ Deliver(c, p, "waiting")
  /\ UNCHANGED <<collectorVars, piVars, client, post, faults>>

\* Slip: a late finalizer arms the state again whose outcome was faster.
Preserve_Always(c, p) ==
  /\ state' = [state EXCEPT ![c].capture = FALSE, ![c].preserved = TRUE]
  /\ queue' = [queue EXCEPT ![c] = Close(@, FALSE)]
  /\ UNCHANGED <<current, routed, owner, turnSeq, recovery, tombstones>>

\* The consumer left.  The lease stays with the invocation unless it is over.
Preserve(c, p) ==
  IF c \in routed
  THEN /\ state' = [state EXCEPT ![c].capture = FALSE, ![c].preserved = TRUE]
       /\ queue' = [queue EXCEPT ![c] = Close(@, FALSE)]
       /\ UNCHANGED <<current, routed, owner, turnSeq, recovery, tombstones>>
  ELSE /\ Pop(c)
       /\ UNCHANGED <<routed, owner, turnSeq, recovery, tombstones>>

\* The invocation is over: its routes, its lease and its queue end.
Finish(c, p) ==
  /\ routed' = routed \ {c}
  /\ EndLease(c, p)
  /\ IF RemovesQueue(c, p) \/ (Close(queue[c], TRUE).records = <<>> /\ ~state[c].attached)
     THEN Pop(c)
     ELSE /\ state' = [state EXCEPT ![c].preserved = FALSE]
          /\ queue' = [queue EXCEPT ![c] = Close(@, TRUE)]
          /\ UNCHANGED current

\* At once, or when the wait ends: with the completion or by its timeout.
Deregister(c, p) ==
  /\ \/ delete[c][p] = "sent" /\ ~CompletionMissing(c, p)
     \/ delete[c][p] = "waiting"
  /\ Deliver(c, p, "done")
  /\ \/ /\ ~IsCurrent(c)
        /\ cancelled' = IF Action(c, p) = "release" THEN cancelled \cup {c} ELSE cancelled
        /\ UNCHANGED <<current, routed, state, queue, owner, turnSeq, recovery, tombstones>>
     \/ /\ IsCurrent(c)
        /\ IF Action(c, p) = "preserve" THEN Preserve(c, p) ELSE Finish(c, p)
        /\ UNCHANGED cancelled
  /\ UNCHANGED <<blocked, piVars, client, post, faults>>

----------------------------------------------------------------------------
(* route *)

\* _route_request without a registered request: what arrives between two leases.
RouteToNobody(r) ==
  /\ turnSeq' = IF recovery = "normal" /\ r.kind = "turn" THEN Advance(r.seq) ELSE turnSeq
  /\ tombstones' = IF recovery = "normal" /\ r.kind = "settled" /\ r.seq >= turnSeq
                   THEN tombstones \cup {Key(r)} ELSE tombstones
  /\ UNCHANGED <<state, queue, recovery, blocked>>

\* Slip: the turns of the leases before are not compared with.
Accepts_AnyTurn(s, r) ==
  /\ s.recovery # "unknown"
  /\ s.recovery = "known" => r.kind = "turn"
  /\ r.kind = "turn" => r.seq > s.latest
  /\ r.kind = "settled" => s.completion = <<>> /\ (s.started => r.seq = s.latest)
  /\ r.kind = "body" => s.ready

\* _route_request for the one registered request.
Accepts(s, r) ==
  /\ s.recovery # "unknown"
  /\ s.recovery = "known" => r.kind = "turn"
  /\ r.kind = "turn" => r.seq > s.prior /\ r.seq > s.latest
  /\ r.kind = "settled" => /\ Key(r) \notin tombstones
                           /\ s.completion = <<>>
                           /\ IF s.started THEN r.seq = s.latest ELSE r.seq >= s.prior
  /\ r.kind = "body" => s.ready

Accepted(s, r) ==
  [s EXCEPT !.recovery = "normal", !.ready = TRUE,
            !.started = @ \/ r.kind = "turn",
            !.latest = IF r.kind = "turn" THEN r.seq ELSE @,
            !.completion = IF r.kind = "settled" THEN Key(r) ELSE @]

\* Slip: one record more than the queue may hold.
HasRoom_OneMore(c) == Len(queue[c].records) <= QueueMaxsize

\* _AtofRecordQueue.put: a closed queue swallows the record.
HasRoom(c) == Len(queue[c].records) < QueueMaxsize
Put(c, r) == queue' = IF queue[c].closed THEN queue
                      ELSE [queue EXCEPT ![c].records = Append(@, r)]
\* completion_seen.set() after the put.
Completes(s, r) == [s EXCEPT !.seen = @ \/ r.kind = "settled"]

RouteTo(c, r) ==
  /\ recovery' = IF state[c].recovery = "known" THEN "normal" ELSE recovery
  /\ LET s == Accepted(state[c], r)
     IN IF s.capture /\ ~queue[c].closed /\ ~HasRoom(c)
        THEN /\ state' = [state EXCEPT ![c] = s]
             /\ blocked' = <<r, c>>
             /\ UNCHANGED queue
        ELSE /\ state' = [state EXCEPT ![c] = Completes(s, r)]
             /\ IF s.capture THEN Put(c, r) ELSE UNCHANGED queue
             /\ UNCHANGED blocked
  /\ UNCHANGED <<turnSeq, tombstones>>

Route ==
  /\ wire # <<>> /\ blocked = <<>>
  /\ wire' = Tail(wire)
  /\ LET r == Head(wire)
     IN IF routed = {} THEN RouteToNobody(r)
        ELSE \E c \in routed :
               IF Accepts(state[c], r) THEN RouteTo(c, r)
               ELSE UNCHANGED <<state, queue, turnSeq, recovery, tombstones, blocked>>
  /\ UNCHANGED <<current, routed, owner, cancelled, turns, client, requestVars, faults>>

\* The wait of a put ends: there is room, the queue is closed, or it timed out.
PutEnds ==
  /\ blocked # <<>>
  /\ LET r == blocked[1]
         c == blocked[2]
     IN /\ \/ (queue[c].closed \/ HasRoom(c)) /\ Put(c, r)
           \/ ~queue[c].closed /\ ~HasRoom(c) /\ UNCHANGED queue
        /\ state' = [state EXCEPT ![c] = Completes(@, r)]
  /\ blocked' = <<>>
  /\ UNCHANGED <<current, routed, boundaryVars, piVars, client, requestVars, faults>>

\* The publisher's request is cancelled meanwhile: the reservation of a completion
\* is rolled back (_rollback_pi_completion_reservation).  The publisher may send
\* the record again.
PutCancelled ==
  /\ blocked # <<>>
  /\ LET r == blocked[1]
         c == blocked[2]
     IN /\ state' = IF /\ r.kind = "settled" /\ IsCurrent(c)
                       /\ state[c].completion = Key(r) /\ ~state[c].seen
                    THEN [state EXCEPT ![c].completion = <<>>,
                                       ![c].ready = @ /\ state[c].started]
                    ELSE state
        /\ wire' \in {wire, <<r>> \o wire}
  /\ blocked' = <<>>
  /\ UNCHANGED <<current, routed, queue, boundaryVars, turns, client, requestVars, faults>>

----------------------------------------------------------------------------
(* Pi: an invocation begins a turn or not, and its publisher sends what it made of
   a turn start, a record of the turn and the completion, or loses some of it.  They
   are on the wire from the beginning of the call, and read at any later time. *)

Script(c, turn, kinds) ==
  LET seq == IF turn THEN turns ELSE IF turns = 0 THEN 0 ELSE turns - 1
      sent(k) == IF k \in kinds THEN <<[kind |-> k, of |-> c, seq |-> seq]>> ELSE <<>>
  IN sent("turn") \o sent("body") \o sent("settled")

Running(c) == client[c].pc = "running"

PiRuns(c, turn) ==
  /\ turns' = IF turn THEN turns + 1 ELSE turns
  /\ \E lost \in SUBSET {"turn", "settled"} :
       LET kinds == (IF turn THEN {"turn", "body", "settled"} ELSE {"settled"}) \ lost
       IN wire' = wire \o Script(c, turn, kinds)

----------------------------------------------------------------------------
(* The SDK runtime: _invoke_registered_payload, _finish_registered_request *)

Ended(c) == client[c].pc = "ended"
Step(c, l) == client' = [client EXCEPT ![c].pc = l]
SendDelete(c, p) == delete' = [delete EXCEPT ![c][p] = "sent"]

\* A request is answered, or it fails although the collector may still handle it.
Answered(done) == \/ done /\ UNCHANGED faults
                  \/ faults < MaxFaults /\ faults' = faults + 1

\* One call at a time, and no request id whose cleanup is pending.
Start(c) ==
  /\ client[c].pc = "idle" /\ \A d \in 1..(c - 1) : Ended(d)
  /\ \A d \in Calls : client[d].known => Request[d] # Request[c]
  /\ \E streamed \in Streaming[c] :
       client' = [client EXCEPT ![c] =
         [FreshClient EXCEPT !.pc = "registering", !.stream = streamed, !.known = TRUE]]
  /\ post' = [post EXCEPT ![c] = "sent"]
  /\ UNCHANGED <<collectorVars, piVars, delete, faults>>

Registered(c) ==
  /\ client[c].pc = "registering" /\ post[c] = "ready"
  /\ \E turn \in BOOLEAN :
       /\ client' = [client EXCEPT ![c].pc = "running", ![c].ran = TRUE, ![c].turn = turn]
       /\ PiRuns(c, turn)
  /\ UNCHANGED <<collectorVars, requestVars, faults>>

\* The registration is refused, fails, or the call was cancelled meanwhile.
RegistrationFails(c) ==
  /\ client[c].pc = "registering"
  /\ Answered(post[c] \in {"ready", "rejected"})
  /\ client' = [client EXCEPT ![c].pc = "outcome", ![c].result = "failed"]
  /\ SendDelete(c, "outcome")
  /\ UNCHANGED <<collectorVars, piVars, post>>

\* _pi_result_boundary: the native call raises, or its result says whether a turn
\* began (or not) and the cumulative count (or not).
Returns(c) ==
  /\ Running(c)
  /\ \E r \in Results \ {"none"} :
       /\ r = "idle" => ~client[c].turn
       /\ r \in {"counted", "uncounted"} => client[c].turn
       /\ client' = [client EXCEPT ![c].pc = "outcome", ![c].result = r,
                                   ![c].count = turns]
  /\ SendDelete(c, "outcome")
  /\ UNCHANGED <<collectorVars, piVars, post, faults>>

\* The stream is finalized: after the outcome, or when reading it failed meanwhile.
ConsumerLeaves(c) ==
  /\ client[c].stream /\ client[c].fin = "none"
  /\ client[c].pc = "waiting" \/ (client[c].ran /\ client[c].pc \in {"running", "outcome"})
  /\ client' = [client EXCEPT ![c].fin = "sent"]
  /\ SendDelete(c, "finalizer")
  /\ UNCHANGED <<collectorVars, piVars, post, faults>>

\* _finish_stream_cleanup_phase, when the other phase is finished too: the
\* registration is forgotten, or compensated if a phase failed.
BothFinished(c, k, ok) ==
  IF ok /\ ~k.failed
  THEN /\ client' = [client EXCEPT ![c] = [k EXCEPT !.pc = "ended", !.known = FALSE]]
       /\ UNCHANGED delete
  ELSE /\ client' = [client EXCEPT ![c] = [k EXCEPT !.pc = "compensating"]]
       /\ SendDelete(c, "compensation")

OutcomeEnds(c) ==
  /\ client[c].pc = "outcome"
  /\ Answered(delete[c].outcome = "done")
  /\ LET ok == faults' = faults
     IN IF ~client[c].stream
        THEN /\ client' = [client EXCEPT ![c].pc = "ended", ![c].known = ~ok]
             /\ UNCHANGED delete
        ELSE IF client[c].fin = "ended" THEN BothFinished(c, client[c], ok)
        ELSE /\ client' = [client EXCEPT ![c].pc = "waiting", ![c].failed = @ \/ ~ok]
             /\ UNCHANGED delete
  /\ UNCHANGED <<collectorVars, piVars, post>>

FinalizerEnds(c) ==
  /\ client[c].fin = "sent"
  /\ Answered(delete[c].finalizer = "done")
  /\ LET ok == faults' = faults
         k == [client[c] EXCEPT !.fin = "ended"]
     IN IF k.pc = "waiting" THEN BothFinished(c, k, ok)
        ELSE /\ client' = [client EXCEPT ![c] = [k EXCEPT !.failed = @ \/ ~ok]]
             /\ UNCHANGED delete
  /\ UNCHANGED <<collectorVars, piVars, post>>

CompensationEnds(c) ==
  /\ client[c].pc = "compensating"
  /\ Answered(delete[c].compensation = "done")
  /\ LET ok == faults' = faults
     IN client' = [client EXCEPT ![c].pc = "ended", ![c].known = ~ok]
  /\ UNCHANGED <<collectorVars, piVars, requestVars>>

----------------------------------------------------------------------------
Handler(c) ==
  \/ Register(c) \/ RegisterTimesOut(c)
  \/ \E p \in Purposes : DeregisterWaits(c, p) \/ Deregister(c, p)

Sdk(c) ==
  \/ Start(c) \/ Registered(c) \/ RegistrationFails(c) \/ Returns(c)
  \/ OutcomeEnds(c) \/ FinalizerEnds(c) \/ CompensationEnds(c)

Next ==
  \/ Route \/ PutEnds \/ PutCancelled
  \/ \E c \in Calls :
       \/ StreamAttaches(c) \/ StreamReads(c) \/ StreamDetaches(c)
       \/ Handler(c) \/ Sdk(c) \/ ConsumerLeaves(c)

Spec == Init /\ [][Next]_vars

----------------------------------------------------------------------------
\* The invocation that runs holds the boundary lease and is the one records are
\* routed to: no late, repeated or foreign deregistration ends it (deregister's
\* token check, boundary_generation).
RunningHoldsLease ==
  \A c \in Calls : Running(c) => owner = c /\ routed = {c} /\ IsCurrent(c)

\* The lease of an invocation that raised, or said it had begun no turn, is released
\* without a fence: its late records can be taken for those of the next, whose own
\* records may then be taken for those of the one after.
Released(c) == client[c].ran /\ client[c].result \in {"failed", "idle"}

\* A queue holds records of another invocation only if that one, or one before it,
\* was released so.  However late its records are, a counted or quarantined
\* invocation leaves none to the others (_route_request, _resolve_pi_boundary,
\* _set_pi_recovery).
RecordsStayInTheirWindow ==
  \A c \in Calls : \A r \in {queue[c].records[i] : i \in DOMAIN queue[c].records} :
    r.of = c \/ \E d \in 1..r.of : Released(d)

\* A call the SDK has forgotten has left nothing in the collector: neither a lease
\* nor routes nor a registration, but for a stream that has yet to end.  Where the
\* registration failed, the release of its token must have been handled
\* (_finish_stream_cleanup_phase, deregister, detach_stream).
ForgottenLeavesNothing ==
  \A c \in Calls :
    /\ Ended(c) /\ ~client[c].known
    /\ client[c].ran \/ delete[c].outcome = "done"
    => owner # c /\ c \notin routed /\ (IsCurrent(c) => state[c].attached)
================================================================================
