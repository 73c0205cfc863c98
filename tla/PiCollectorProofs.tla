---------------------------- MODULE PiCollectorProofs ----------------------------
(****************************************************************************)
(* For any number of calls, request ids and records: the invocation that    *)
(* runs keeps its lease, a call that is forgotten has left nothing, and the *)
(* records stay in their window but for those a release let through.        *)
(****************************************************************************)
EXTENDS PiCollector, TLAPS

\* The parts of a call's state and queue that its end depends on.
attached == [c \in Calls |-> state[c].attached]
preserved == [c \in Calls |-> state[c].preserved]
closed == [c \in Calls |-> queue[c].closed]
empty == [c \in Calls |-> queue[c].records = <<>>]

\* One invocation has the lease and the records; its registration is the current one,
\* and its queue is open unless its consumer has gone.
Lease ==
  /\ routed = IF owner = None THEN {} ELSE {owner}
  /\ \A c \in routed : IsCurrent(c) /\ (closed[c] => preserved[c])

\* What is registered was requested once, and attached or closed only after that.
Registration(c) ==
  /\ IsCurrent(c) \/ closed[c] => post[c] = "ready"
  /\ attached[c] => IsCurrent(c)
  /\ preserved[c] => closed[c] /\ empty[c]

\* How far a call is.
Progress(c) ==
  /\ client[c].pc \in {"idle", "registering", "running"} =>
       delete[c]["outcome"] = "none" /\ delete[c]["compensation"] = "none"
  /\ client[c].pc = "idle" => post[c] = "none"
  /\ client[c].pc \in {"idle", "registering"} => ~client[c].ran /\ client[c].fin = "none"
  /\ client[c].fin = "none" => delete[c]["finalizer"] = "none"
  /\ client[c].pc = "running" => client[c].ran
  /\ client[c].pc \in {"registering", "running"} /\ post[c] = "ready" => c \in routed
  /\ client[c].ran => post[c] = "ready"
  /\ ~client[c].ran /\ delete[c]["outcome"] # "none" => client[c].result = "failed"

\* What each deregistration leaves, and what a late registration finds.
Deregistered(c) ==
  /\ delete[c]["outcome"] = "done" =>
       /\ c \notin routed
       /\ post[c] = "sent" => c \in cancelled
       /\ ~client[c].stream \/ ~client[c].ran => ~IsCurrent(c)
  /\ client[c].ran /\ IsCurrent(c) /\ delete[c]["finalizer"] = "done" =>
       IF delete[c]["outcome"] = "done"
       THEN attached[c] /\ closed[c] /\ empty[c] /\ ~preserved[c]
       ELSE preserved[c]
  /\ client[c].ran /\ delete[c]["compensation"] = "done" => ~IsCurrent(c)

\* What the SDK knows when it forgets a call.
Forgotten(c) ==
  /\ client[c].pc = "waiting" /\ ~client[c].failed => delete[c]["outcome"] = "done"
  /\ client[c].pc \notin {"compensating", "ended"} /\ client[c].fin = "ended" /\ ~client[c].failed =>
       delete[c]["finalizer"] = "done"
  /\ client[c].pc = "ended" /\ ~client[c].known =>
       \/ delete[c]["outcome"] = "done"
            /\ (~client[c].stream \/ delete[c]["finalizer"] = "done")
       \/ delete[c]["compensation"] = "done"

PerCall(c) == Registration(c) /\ Progress(c) /\ Deregistered(c) /\ Forgotten(c)

IInv == TypeOK /\ Lease /\ \A c \in Calls : PerCall(c)

-------------------------------------------------------------------------------
(* The types, part by part, and what updates do to them.                    *)

States ==
  [attached : BOOLEAN, ready : BOOLEAN, capture : BOOLEAN, preserved : BOOLEAN,
   started : BOOLEAN, seen : BOOLEAN,
   recovery : Modes, prior : Int, latest : Int, completion : (Nat \X Calls) \cup {<<>>}]
Queues == [records : Seq(Records), closed : BOOLEAN, drain : BOOLEAN]
Clients ==
  [pc : {"idle", "registering", "running", "outcome", "waiting", "compensating", "ended"},
   stream : BOOLEAN, fin : {"none", "sent", "ended"}, result : Results,
   count : Nat, failed : BOOLEAN, known : BOOLEAN, turn : BOOLEAN, ran : BOOLEAN]

LeaseTypes ==
  /\ current \in [Requests -> Calls \cup {None}] /\ routed \subseteq Calls
  /\ owner \in Calls \cup {None} /\ turnSeq \in Int /\ recovery \in Modes
  /\ tombstones \subseteq Nat \X Calls /\ cancelled \subseteq Calls
StateTypes == state \in [Calls -> States]
QueueTypes ==
  queue \in [Calls -> Queues] /\ \A c \in Calls : Len(queue[c].records) <= QueueMaxsize
WireTypes ==
  /\ blocked \in (Records \X Calls) \cup {<<>>} /\ turns \in Nat /\ wire \in Seq(Records)
ClientTypes == client \in [Calls -> Clients] /\ faults \in 0..MaxFaults
RequestTypes ==
  /\ post \in [Calls -> {"none", "sent", "ready", "rejected"}]
  /\ delete \in [Calls -> [Purposes -> {"none", "sent", "waiting", "done"}]]

USE PiCollectorAssumption DEF Calls, None

LEMMA TypeParts ==
  TypeOK <=> /\ LeaseTypes /\ StateTypes /\ QueueTypes
             /\ WireTypes /\ ClientTypes /\ RequestTypes
BY Zenon DEF TypeOK, LeaseTypes, StateTypes, QueueTypes, WireTypes, ClientTypes, RequestTypes,
     States, Queues, Clients

LEMMA FreshStateType ==
  FreshState \in States /\ ~FreshState.attached /\ ~FreshState.preserved
BY DEF FreshState, States, Modes

LEMMA TypePartsNext ==
  TypeOK' <=> /\ LeaseTypes' /\ StateTypes' /\ QueueTypes'
              /\ WireTypes' /\ ClientTypes' /\ RequestTypes'
BY Zenon DEF TypeOK, LeaseTypes, StateTypes, QueueTypes, WireTypes, ClientTypes, RequestTypes,
     States, Queues, Clients

\* What an update does to the parts above.
LEMMA StateAt ==
  ASSUME StateTypes, NEW c \in Calls, NEW s \in States, state' = [state EXCEPT ![c] = s]
  PROVE  /\ StateTypes'
         /\ attached' = [attached EXCEPT ![c] = s.attached]
         /\ preserved' = [preserved EXCEPT ![c] = s.preserved]
BY DEF StateTypes, attached, preserved

LEMMA QueueAt ==
  ASSUME QueueTypes, NEW c \in Calls, NEW q \in Queues, Len(q.records) <= QueueMaxsize,
         queue' = [queue EXCEPT ![c] = q]
  PROVE  /\ QueueTypes'
         /\ closed' = [closed EXCEPT ![c] = q.closed]
         /\ empty' = [empty EXCEPT ![c] = (q.records = <<>>)]
<1>1. QueueTypes'
  BY DEF QueueTypes
<1>2. closed' = [closed EXCEPT ![c] = q.closed]
  BY DEF QueueTypes, closed
<1>3. empty' = [empty EXCEPT ![c] = (q.records = <<>>)]
  BY DEF QueueTypes, empty
<1> QED BY <1>1, <1>2, <1>3

LEMMA Same ==
  /\ state' = state => attached' = attached /\ preserved' = preserved
  /\ queue' = queue => closed' = closed /\ empty' = empty
  /\ current' = current => \A c \in Calls : IsCurrent(c)' <=> IsCurrent(c)
BY DEF attached, preserved, closed, empty, IsCurrent

LEMMA DeleteAt ==
  ASSUME RequestTypes, NEW c \in Calls, NEW p \in Purposes,
         NEW v \in {"none", "sent", "waiting", "done"},
         delete' = [delete EXCEPT ![c][p] = v]
  PROVE  /\ delete' \in [Calls -> [Purposes -> {"none", "sent", "waiting", "done"}]]
         /\ \A d \in Calls, q \in Purposes :
              delete'[d][q] = IF d = c /\ q = p THEN v ELSE delete[d][q]
BY DEF RequestTypes

LEMMA ClientAt ==
  ASSUME ClientTypes, NEW c \in Calls, NEW k \in Clients, client' = [client EXCEPT ![c] = k]
  PROVE  /\ client' \in [Calls -> Clients]
         /\ \A d \in Calls : client'[d] = IF d = c THEN k ELSE client[d]
BY DEF ClientTypes

\* The registration of a call is popped: what is left is as if it had never been.
LEMMA Popped ==
  ASSUME TypeOK, NEW c \in Calls, IsCurrent(c), Pop(c)
  PROVE  /\ current' \in [Requests -> Calls \cup {None}] /\ StateTypes' /\ QueueTypes'
         /\ \A d \in Calls : IsCurrent(d)' <=> d # c /\ IsCurrent(d)
         /\ attached' = [attached EXCEPT ![c] = FALSE]
         /\ preserved' = [preserved EXCEPT ![c] = FALSE]
         /\ closed' = [closed EXCEPT ![c] = TRUE]
         /\ empty' = [empty EXCEPT ![c] = TRUE]
<1> DEFINE q == [records |-> <<>>, closed |-> TRUE, drain |-> FALSE]
<1>1. LeaseTypes /\ StateTypes /\ QueueTypes
  BY TypeParts
<1>2. current' = [current EXCEPT ![Request[c]] = None] /\ Request[c] \in Requests
  BY DEF Pop
<1>3. /\ current' \in [Requests -> Calls \cup {None}]
      /\ \A d \in Calls : IsCurrent(d)' <=> d # c /\ IsCurrent(d)
  BY <1>1, <1>2 DEF LeaseTypes, IsCurrent
<1>4. /\ StateTypes' /\ attached' = [attached EXCEPT ![c] = FALSE]
      /\ preserved' = [preserved EXCEPT ![c] = FALSE]
  <2>1. state' = [state EXCEPT ![c] = FreshState]
    BY DEF Pop
  <2>2. FreshState.attached = FALSE /\ FreshState.preserved = FALSE
    BY DEF FreshState
  <2> QED BY <1>1, <2>1, <2>2, StateAt, FreshStateType
<1>5. /\ QueueTypes' /\ closed' = [closed EXCEPT ![c] = TRUE]
      /\ empty' = [empty EXCEPT ![c] = TRUE]
  <2>1. q \in Queues /\ Len(q.records) <= QueueMaxsize /\ q.closed = TRUE /\ (q.records = <<>>) = TRUE
    BY DEF Queues
  <2>2. queue' = [queue EXCEPT ![c] = q]
    BY DEF Pop
  <2> HIDE DEF q
  <2>3. /\ QueueTypes' /\ closed' = [closed EXCEPT ![c] = q.closed]
        /\ empty' = [empty EXCEPT ![c] = (q.records = <<>>)]
    BY <1>1, <2>1, <2>2, QueueAt
  <2> QED BY <2>1, <2>3
<1> QED BY <1>3, <1>4, <1>5

\* What happens to one call leaves the others as they are.
LEMMA Elsewhere ==
  ASSUME NEW d \in Calls, PerCall(d),
         client'[d] = client[d], post'[d] = post[d],
         \A q \in Purposes : delete'[d][q] = delete[d][q],
         attached'[d] = attached[d], preserved'[d] = preserved[d],
         closed'[d] = closed[d], empty'[d] = empty[d],
         IsCurrent(d)' <=> IsCurrent(d), d \in routed' <=> d \in routed,
         d \in cancelled => d \in cancelled'
  PROVE  PerCall(d)'
<1>1. Registration(d)'
  BY DEF PerCall, Registration
<1>2. Progress(d)'
  BY DEF PerCall, Progress, Purposes
<1>3. Deregistered(d)'
  BY DEF PerCall, Deregistered, Purposes
<1>4. Forgotten(d)'
  BY DEF PerCall, Forgotten, Purposes
<1> QED BY <1>1, <1>2, <1>3, <1>4 DEF PerCall

-------------------------------------------------------------------------------
(* The SDK's steps leave the collector alone.                               *)

LEMMA CollectorSame ==
  ASSUME UNCHANGED collectorVars
  PROVE  /\ UNCHANGED <<current, routed, state, queue, owner, turnSeq, recovery, tombstones,
                        cancelled, blocked>>
         /\ attached' = attached /\ preserved' = preserved /\ closed' = closed /\ empty' = empty
         /\ \A d \in Calls : IsCurrent(d)' <=> IsCurrent(d)
BY Same DEF collectorVars, boundaryVars

\* It is enough to look at the call that makes the step.
LEMMA SdkStep ==
  ASSUME IInv, NEW c \in Calls, UNCHANGED collectorVars,
         WireTypes', ClientTypes', RequestTypes',
         \A d \in Calls \ {c} : client'[d] = client[d] /\ post'[d] = post[d] /\ delete'[d] = delete[d],
         PerCall(c)'
  PROVE  IInv'
<1>1. TypeOK'
  <2>1. LeaseTypes' /\ StateTypes' /\ QueueTypes'
    BY CollectorSame, TypeParts DEF IInv, LeaseTypes, StateTypes, QueueTypes
  <2> QED BY <2>1, TypePartsNext
<1>2. Lease'
  BY CollectorSame, TypeParts DEF IInv, Lease, LeaseTypes
<1>3. ASSUME NEW d \in Calls \ {c} PROVE PerCall(d)'
  BY CollectorSame, <1>3, Elsewhere DEF IInv
<1> QED BY <1>1, <1>2, <1>3 DEF IInv

LEMMA StartStep ==
  ASSUME IInv, NEW c \in Calls, Start(c)
  PROVE  IInv'
<1>1. WireTypes /\ ClientTypes /\ RequestTypes
  BY TypeParts DEF IInv
<1>2. PICK streamed \in BOOLEAN : client' = [client EXCEPT ![c] =
         [FreshClient EXCEPT !.pc = "registering", !.stream = streamed, !.known = TRUE]]
  BY DEF Start
<1> DEFINE k == [FreshClient EXCEPT !.pc = "registering", !.stream = streamed, !.known = TRUE]
<1>3. k \in Clients /\ k.pc = "registering" /\ ~k.ran /\ k.fin = "none"
  BY DEF Clients, FreshClient, Results
<1> HIDE DEF k
<1>4. /\ client' \in [Calls -> Clients]
      /\ \A d \in Calls : client'[d] = IF d = c THEN k ELSE client[d]
  BY <1>1, <1>2, <1>3, ClientAt DEF k
<1>5. /\ UNCHANGED <<collectorVars, piVars, delete, faults>>
      /\ post' = [post EXCEPT ![c] = "sent"]
  BY DEF Start
<1>6. client[c].pc = "idle" /\ PerCall(c)
  BY DEF Start, IInv
<1>7. delete[c]["outcome"] = "none" /\ delete[c]["compensation"] = "none" /\ ~IsCurrent(c) /\ ~closed[c]
  BY <1>6 DEF PerCall, Progress, Registration
<1>8. PerCall(c)'
  BY CollectorSame, <1>1, <1>3, <1>4, <1>5, <1>6, <1>7
     DEF PerCall, Registration, Progress, Deregistered, Forgotten, RequestTypes
<1>9. WireTypes' /\ ClientTypes' /\ RequestTypes'
  BY <1>1, <1>4, <1>5, CollectorSame DEF WireTypes, ClientTypes, RequestTypes, piVars
<1>10. \A d \in Calls \ {c} : client'[d] = client[d] /\ post'[d] = post[d] /\ delete'[d] = delete[d]
  BY <1>1, <1>4, <1>5 DEF RequestTypes
<1> QED BY <1>5, <1>8, <1>9, <1>10, SdkStep

\* A step of the SDK for one call that may send the deregistration for purpose p.
LEMMA SdkMove ==
  ASSUME IInv, NEW c \in Calls, NEW k \in Clients, client' = [client EXCEPT ![c] = k],
         UNCHANGED <<collectorVars, post>>, WireTypes', faults' \in 0..MaxFaults,
         NEW p \in Purposes \cup {"none"},
         \/ p = "none" /\ delete' = delete
         \/ p \in Purposes /\ delete' = [delete EXCEPT ![c][p] = "sent"]
  PROVE  /\ client'[c] = k
         /\ \A q \in Purposes : delete'[c][q] = IF q = p THEN "sent" ELSE delete[c][q]
         /\ PerCall(c)' => IInv'
<1>1. ClientTypes /\ RequestTypes
  BY TypeParts DEF IInv
<1>2. /\ client' \in [Calls -> Clients]
      /\ \A d \in Calls : client'[d] = IF d = c THEN k ELSE client[d]
  BY <1>1, ClientAt
<1>3. /\ delete' \in [Calls -> [Purposes -> {"none", "sent", "waiting", "done"}]]
      /\ \A d \in Calls, q \in Purposes :
           delete'[d][q] = IF d = c /\ q = p THEN "sent" ELSE delete[d][q]
  <2>1. CASE p = "none" /\ delete' = delete
    BY <1>1, <2>1 DEF RequestTypes, Purposes
  <2>2. CASE p \in Purposes /\ delete' = [delete EXCEPT ![c][p] = "sent"]
    BY <1>1, <2>2 DEF RequestTypes
  <2> QED BY <2>1, <2>2
<1>4. ClientTypes' /\ RequestTypes'
  BY <1>1, <1>2, <1>3 DEF ClientTypes, RequestTypes
<1>5. \A d \in Calls \ {c} : client'[d] = client[d] /\ post'[d] = post[d] /\ delete'[d] = delete[d]
  BY <1>1, <1>2, <1>3 DEF RequestTypes
<1>6. PerCall(c)' => IInv'
  BY <1>4, <1>5, SdkStep
<1> QED BY <1>2, <1>3, <1>6

\* Its last step: the deregistration that was sent, what was decided about the call.
LEMMA RegistrationFailsStep ==
  ASSUME IInv, NEW c \in Calls, RegistrationFails(c)
  PROVE  IInv'
<1>1. WireTypes /\ ClientTypes /\ client[c] \in Clients /\ PerCall(c)
  BY TypeParts DEF IInv, ClientTypes
<1> DEFINE k == [client[c] EXCEPT !.pc = "outcome", !.result = "failed"]
<1>2. k \in Clients /\ k.pc = "outcome" /\ k.result = "failed" /\ k.ran = client[c].ran
      /\ k.fin = client[c].fin
  BY <1>1 DEF Clients, Results
<1>3. UNCHANGED <<collectorVars, post>> /\ faults' \in 0..MaxFaults /\ WireTypes'
  BY <1>1, CollectorSame DEF RegistrationFails, ClientTypes, WireTypes, piVars, Answered, requestVars
<1>4. client' = [client EXCEPT ![c] = k] /\ delete' = [delete EXCEPT ![c]["outcome"] = "sent"]
  BY DEF RegistrationFails, SendDelete, requestVars
<1> HIDE DEF k
<1>5. /\ client'[c] = k
      /\ \A q \in Purposes : delete'[c][q] = IF q = "outcome" THEN "sent" ELSE delete[c][q]
      /\ PerCall(c)' => IInv'
  BY <1>2, <1>3, <1>4, SdkMove DEF Purposes
<1>6. client[c].pc = "registering"
  BY DEF RegistrationFails, Running
<1>7. PerCall(c)'
  BY CollectorSame, <1>1, <1>2, <1>3, <1>5, <1>6 DEF PerCall, Registration, Progress, Deregistered, Forgotten, Purposes
<1> QED BY <1>5, <1>7

LEMMA ConsumerLeavesStep ==
  ASSUME IInv, NEW c \in Calls, ConsumerLeaves(c)
  PROVE  IInv'
<1>1. WireTypes /\ ClientTypes /\ client[c] \in Clients /\ PerCall(c)
  BY TypeParts DEF IInv, ClientTypes
<1> DEFINE k == [client[c] EXCEPT !.fin = "sent"]
<1>2. k \in Clients /\ k.fin = "sent" /\ k.pc = client[c].pc /\ k.ran = client[c].ran /\ k.stream = client[c].stream
      /\ k.result = client[c].result /\ k.failed = client[c].failed
  BY <1>1 DEF Clients, Results
<1>3. UNCHANGED <<collectorVars, post>> /\ faults' \in 0..MaxFaults /\ WireTypes'
  BY <1>1, CollectorSame DEF ConsumerLeaves, ClientTypes, WireTypes, piVars, Answered, requestVars
<1>4. client' = [client EXCEPT ![c] = k] /\ delete' = [delete EXCEPT ![c]["finalizer"] = "sent"]
  BY DEF ConsumerLeaves, SendDelete, requestVars
<1> HIDE DEF k
<1>5. /\ client'[c] = k
      /\ \A q \in Purposes : delete'[c][q] = IF q = "finalizer" THEN "sent" ELSE delete[c][q]
      /\ PerCall(c)' => IInv'
  BY <1>2, <1>3, <1>4, SdkMove DEF Purposes
<1>6. client[c].fin = "none" /\ client[c].pc \in {"waiting", "running", "outcome"}
  BY DEF ConsumerLeaves, Running
<1>7. PerCall(c)'
  BY CollectorSame, <1>1, <1>2, <1>3, <1>5, <1>6 DEF PerCall, Registration, Progress, Deregistered, Forgotten, Purposes
<1> QED BY <1>5, <1>7

LEMMA ReturnsStep ==
  ASSUME IInv, NEW c \in Calls, Returns(c)
  PROVE  IInv'
<1>1. WireTypes /\ ClientTypes /\ client[c] \in Clients /\ PerCall(c)
  BY TypeParts DEF IInv, ClientTypes
<1>2. PICK r \in Results \ {"none"} :
        client' = [client EXCEPT ![c].pc = "outcome", ![c].result = r, ![c].count = turns]
  BY DEF Returns
<1> DEFINE k == [client[c] EXCEPT !.pc = "outcome", !.result = r, !.count = turns]
<1>3. k \in Clients /\ k.pc = "outcome" /\ k.ran = client[c].ran /\ k.fin = client[c].fin
      /\ k.stream = client[c].stream /\ k.failed = client[c].failed
  BY <1>1 DEF Clients, WireTypes
<1>4. UNCHANGED <<collectorVars, post>> /\ faults' \in 0..MaxFaults /\ WireTypes'
  BY <1>1, CollectorSame DEF Returns, ClientTypes, WireTypes, piVars
<1>5. client' = [client EXCEPT ![c] = k] /\ delete' = [delete EXCEPT ![c]["outcome"] = "sent"]
  BY <1>1, <1>2 DEF Returns, SendDelete, ClientTypes
<1> HIDE DEF k
<1>6. /\ client'[c] = k
      /\ \A q \in Purposes : delete'[c][q] = IF q = "outcome" THEN "sent" ELSE delete[c][q]
      /\ PerCall(c)' => IInv'
  BY <1>3, <1>4, <1>5, SdkMove DEF Purposes
<1>7. client[c].pc = "running"
  BY DEF Returns, Running
<1>8. PerCall(c)'
  BY CollectorSame, <1>1, <1>3, <1>4, <1>6, <1>7
     DEF PerCall, Registration, Progress, Deregistered, Forgotten, Purposes
<1> QED BY <1>6, <1>8

LEMMA CompensationEndsStep ==
  ASSUME IInv, NEW c \in Calls, CompensationEnds(c)
  PROVE  IInv'
<1>1. WireTypes /\ ClientTypes /\ client[c] \in Clients /\ PerCall(c)
  BY TypeParts DEF IInv, ClientTypes
<1> DEFINE ok == faults' = faults
           k == [client[c] EXCEPT !.pc = "ended", !.known = ~ok]
<1>2. k \in Clients /\ k.pc = "ended" /\ k.ran = client[c].ran /\ k.result = client[c].result
      /\ k.stream = client[c].stream /\ k.fin = client[c].fin /\ (~k.known => ok)
  BY <1>1 DEF Clients
<1>3. UNCHANGED <<collectorVars, post>> /\ faults' \in 0..MaxFaults /\ WireTypes'
  BY <1>1, CollectorSame DEF CompensationEnds, Answered, ClientTypes, WireTypes, piVars, requestVars
<1>4. client' = [client EXCEPT ![c] = k] /\ delete' = delete
  BY DEF CompensationEnds, requestVars
<1>5. ok => delete[c]["compensation"] = "done"
  BY <1>1 DEF CompensationEnds, Answered, ClientTypes
<1> HIDE DEF k, ok
<1>6. /\ client'[c] = k
      /\ \A q \in Purposes : delete'[c][q] = IF q = "none" THEN "sent" ELSE delete[c][q]
      /\ PerCall(c)' => IInv'
  BY <1>2, <1>3, <1>4, SdkMove
<1>7. client[c].pc = "compensating"
  BY DEF CompensationEnds
<1>8. PerCall(c)'
  BY CollectorSame, <1>1, <1>2, <1>3, <1>5, <1>6, <1>7
     DEF PerCall, Registration, Progress, Deregistered, Forgotten, Purposes
<1> QED BY <1>6, <1>8

\* Both ends of a stream: the last one forgets the call, or compensates it.
LEMMA BothFinishedStep ==
  ASSUME IInv, NEW c \in Calls, NEW k \in Clients, NEW ok \in BOOLEAN, BothFinished(c, k, ok),
         UNCHANGED <<collectorVars, post>>, WireTypes', faults' \in 0..MaxFaults,
         k.ran = client[c].ran, k.stream = client[c].stream, k.result = client[c].result, k.fin # "none",
         client[c].pc \in {"outcome", "waiting"},
         ok /\ ~k.failed => delete[c]["outcome"] = "done" /\ delete[c]["finalizer"] = "done"
  PROVE  IInv'
<1>1. PerCall(c)
  BY DEF IInv
<1>2. CASE ok /\ ~k.failed
  <2> DEFINE n == [k EXCEPT !.pc = "ended", !.known = FALSE]
  <2>1. n \in Clients /\ n.pc = "ended" /\ n.ran = k.ran /\ n.stream = k.stream
        /\ n.result = k.result /\ n.fin = k.fin
    BY DEF Clients
  <2>2. client' = [client EXCEPT ![c] = n] /\ delete' = delete
    BY <1>2 DEF BothFinished
  <2> HIDE DEF n
  <2>3. /\ client'[c] = n
        /\ \A q \in Purposes : delete'[c][q] = IF q = "none" THEN "sent" ELSE delete[c][q]
        /\ PerCall(c)' => IInv'
    BY <2>1, <2>2, SdkMove
  <2>4. PerCall(c)'
    BY CollectorSame, <1>1, <1>2, <2>1, <2>3
       DEF PerCall, Registration, Progress, Deregistered, Forgotten, Purposes
  <2> QED BY <2>3, <2>4
<1>3. CASE ~(ok /\ ~k.failed)
  <2> DEFINE n == [k EXCEPT !.pc = "compensating"]
  <2>1. n \in Clients /\ n.pc = "compensating" /\ n.ran = k.ran /\ n.stream = k.stream
        /\ n.result = k.result /\ n.fin = k.fin
    BY DEF Clients
  <2>2. client' = [client EXCEPT ![c] = n] /\ delete' = [delete EXCEPT ![c]["compensation"] = "sent"]
    BY <1>3 DEF BothFinished, SendDelete
  <2> HIDE DEF n
  <2>3. /\ client'[c] = n
        /\ \A q \in Purposes : delete'[c][q] = IF q = "compensation" THEN "sent" ELSE delete[c][q]
        /\ PerCall(c)' => IInv'
    BY <2>1, <2>2, SdkMove DEF Purposes
  <2>4. PerCall(c)'
    BY CollectorSame, <1>1, <2>1, <2>3
       DEF PerCall, Registration, Progress, Deregistered, Forgotten, Purposes
  <2> QED BY <2>3, <2>4
<1> QED BY <1>2, <1>3

LEMMA OutcomeEndsStep ==
  ASSUME IInv, NEW c \in Calls, OutcomeEnds(c)
  PROVE  IInv'
<1> DEFINE ok == faults' = faults
<1>1. WireTypes /\ ClientTypes /\ client[c] \in Clients /\ PerCall(c)
  BY TypeParts DEF IInv, ClientTypes
<1>2. UNCHANGED <<collectorVars, post>> /\ faults' \in 0..MaxFaults /\ WireTypes'
  BY <1>1, CollectorSame DEF OutcomeEnds, Answered, ClientTypes, WireTypes, piVars
<1>3. client[c].pc = "outcome" /\ (ok => delete[c]["outcome"] = "done") /\ ok \in BOOLEAN
  BY <1>1 DEF OutcomeEnds, Answered, ClientTypes
<1>4. CASE ~client[c].stream
  <2> DEFINE k == [client[c] EXCEPT !.pc = "ended", !.known = ~ok]
  <2>1. k \in Clients /\ k.pc = "ended" /\ k.ran = client[c].ran /\ k.result = client[c].result
        /\ k.stream = client[c].stream /\ k.fin = client[c].fin /\ (~k.known => ok)
    BY <1>1 DEF Clients
  <2>2. client' = [client EXCEPT ![c] = k] /\ delete' = delete
    BY <1>4 DEF OutcomeEnds
  <2> HIDE DEF k, ok
  <2>3. /\ client'[c] = k
        /\ \A q \in Purposes : delete'[c][q] = IF q = "none" THEN "sent" ELSE delete[c][q]
        /\ PerCall(c)' => IInv'
    BY <1>2, <2>1, <2>2, SdkMove
  <2>4. PerCall(c)'
    BY CollectorSame, <1>1, <1>2, <1>3, <1>4, <2>1, <2>3
       DEF PerCall, Registration, Progress, Deregistered, Forgotten, Purposes
  <2> QED BY <2>3, <2>4
<1>5. CASE client[c].stream /\ client[c].fin = "ended"
  <2>1. BothFinished(c, client[c], ok)
    BY <1>5 DEF OutcomeEnds
  <2> HIDE DEF ok
  <2>2. ok /\ ~client[c].failed => delete[c]["outcome"] = "done" /\ delete[c]["finalizer"] = "done"
    BY <1>1, <1>3, <1>5 DEF PerCall, Forgotten
  <2> QED BY <1>1, <1>2, <1>3, <1>5, <2>1, <2>2, BothFinishedStep
<1>6. CASE client[c].stream /\ client[c].fin # "ended"
  <2> DEFINE k == [client[c] EXCEPT !.pc = "waiting", !.failed = @ \/ ~ok]
  <2>1. k \in Clients /\ k.pc = "waiting" /\ k.ran = client[c].ran /\ k.result = client[c].result
        /\ k.stream = client[c].stream /\ (~k.failed => ok) /\ k.fin = client[c].fin
    BY <1>1 DEF Clients
  <2>2. client' = [client EXCEPT ![c] = k] /\ delete' = delete
    BY <1>6 DEF OutcomeEnds
  <2> HIDE DEF k, ok
  <2>3. /\ client'[c] = k
        /\ \A q \in Purposes : delete'[c][q] = IF q = "none" THEN "sent" ELSE delete[c][q]
        /\ PerCall(c)' => IInv'
    BY <1>2, <2>1, <2>2, SdkMove
  <2>4. PerCall(c)'
    BY CollectorSame, <1>1, <1>2, <1>3, <1>6, <2>1, <2>3, ZenonT(60)
       DEF PerCall, Registration, Progress, Deregistered, Forgotten, Purposes
  <2> QED BY <2>3, <2>4
<1> QED BY <1>4, <1>5, <1>6

LEMMA FinalizerEndsStep ==
  ASSUME IInv, NEW c \in Calls, FinalizerEnds(c)
  PROVE  IInv'
<1> DEFINE ok == faults' = faults
           k == [client[c] EXCEPT !.fin = "ended"]
<1>1. WireTypes /\ ClientTypes /\ client[c] \in Clients /\ PerCall(c)
  BY TypeParts DEF IInv, ClientTypes
<1>2. UNCHANGED <<collectorVars, post>> /\ faults' \in 0..MaxFaults /\ WireTypes'
  BY <1>1, CollectorSame DEF FinalizerEnds, Answered, ClientTypes, WireTypes, piVars
<1>3. client[c].fin = "sent" /\ (ok => delete[c]["finalizer"] = "done") /\ ok \in BOOLEAN
  BY <1>1 DEF FinalizerEnds, Answered, ClientTypes
<1>4. k \in Clients /\ k.pc = client[c].pc /\ k.ran = client[c].ran /\ k.result = client[c].result
      /\ k.stream = client[c].stream /\ k.failed = client[c].failed /\ k.fin = "ended"
      /\ k.known = client[c].known
  BY <1>1 DEF Clients
<1>5. CASE client[c].pc = "waiting"
  <2>1. BothFinished(c, k, ok)
    BY <1>4, <1>5 DEF FinalizerEnds
  <2> HIDE DEF ok, k
  <2>2. ok /\ ~k.failed => delete[c]["outcome"] = "done" /\ delete[c]["finalizer"] = "done"
    BY <1>1, <1>3, <1>4, <1>5 DEF PerCall, Forgotten
  <2> QED BY <1>2, <1>3, <1>4, <1>5, <2>1, <2>2, BothFinishedStep
<1>6. CASE client[c].pc # "waiting"
  <2> DEFINE n == [k EXCEPT !.failed = @ \/ ~ok]
  <2>1. client' = [client EXCEPT ![c] = n] /\ delete' = delete
    BY <1>4, <1>6 DEF FinalizerEnds
  <2>2. n \in Clients /\ n.pc = k.pc /\ n.ran = k.ran /\ n.result = k.result /\ n.fin = "ended"
        /\ n.stream = k.stream /\ (~n.failed => ok /\ ~k.failed) /\ n.known = k.known
    BY <1>4 DEF Clients
  <2> HIDE DEF k, ok, n
  <2>3. /\ client'[c] = n
        /\ \A q \in Purposes : delete'[c][q] = IF q = "none" THEN "sent" ELSE delete[c][q]
        /\ PerCall(c)' => IInv'
    BY <1>2, <2>1, <2>2, SdkMove
  <2>4. PerCall(c)'
    BY CollectorSame, <1>1, <1>2, <1>3, <1>4, <1>6, <2>2, <2>3
       DEF PerCall, Registration, Progress, Deregistered, Forgotten, Purposes
  <2> QED BY <2>3, <2>4
<1> QED BY <1>5, <1>6

LEMMA ScriptType ==
  ASSUME WireTypes, NEW c \in Calls, NEW turn \in BOOLEAN, NEW kinds
  PROVE  Script(c, turn, kinds) \in Seq(Records)
<1> DEFINE seq == IF turn THEN turns ELSE IF turns = 0 THEN 0 ELSE turns - 1
           sent(k) == IF k \in kinds THEN <<[kind |-> k, of |-> c, seq |-> seq]>> ELSE <<>>
<1>1. seq \in Nat
  BY DEF WireTypes
<1> HIDE DEF seq
<1>2. \A k \in {"turn", "body", "settled"} : [kind |-> k, of |-> c, seq |-> seq] \in Records
  BY <1>1 DEF Records
<1>3. \A k \in {"turn", "body", "settled"} : sent(k) \in Seq(Records)
  BY <1>2
<1> HIDE DEF sent
<1>4. sent("turn") \o sent("body") \o sent("settled") \in Seq(Records)
  BY <1>3
<1> QED BY <1>4 DEF Script, sent, seq

LEMMA RegisteredStep ==
  ASSUME IInv, NEW c \in Calls, Registered(c)
  PROVE  IInv'
<1>1. WireTypes /\ ClientTypes /\ client[c] \in Clients /\ PerCall(c)
  BY TypeParts DEF IInv, ClientTypes
<1>2. PICK turn \in BOOLEAN :
        /\ client' = [client EXCEPT ![c].pc = "running", ![c].ran = TRUE, ![c].turn = turn]
        /\ PiRuns(c, turn)
  BY DEF Registered
<1> DEFINE k == [client[c] EXCEPT !.pc = "running", !.ran = TRUE, !.turn = turn]
<1>3. k \in Clients /\ k.pc = "running" /\ k.ran /\ k.fin = client[c].fin
  BY <1>1 DEF Clients
<1>4. turns' \in Nat /\ wire' \in Seq(Records)
  <2>1. PICK kinds \in SUBSET {"turn", "body", "settled"} : wire' = wire \o Script(c, turn, kinds)
    BY <1>2 DEF PiRuns
  <2>2. Script(c, turn, kinds) \in Seq(Records) /\ wire \in Seq(Records)
    BY <1>1, ScriptType DEF WireTypes
  <2>3. turns' \in Nat
    BY <1>1, <1>2 DEF PiRuns, WireTypes
  <2> QED BY <2>1, <2>2, <2>3
<1>5. UNCHANGED <<collectorVars, post>> /\ faults' \in 0..MaxFaults /\ WireTypes'
  BY <1>1, <1>4, CollectorSame DEF Registered, ClientTypes, WireTypes, requestVars
<1>6. client' = [client EXCEPT ![c] = k] /\ delete' = delete
  BY <1>1, <1>2 DEF Registered, requestVars, ClientTypes
<1> HIDE DEF k
<1>7. /\ client'[c] = k
      /\ \A q \in Purposes : delete'[c][q] = IF q = "none" THEN "sent" ELSE delete[c][q]
      /\ PerCall(c)' => IInv'
  BY <1>3, <1>5, <1>6, SdkMove DEF Purposes
<1>8. client[c].pc = "registering" /\ post[c] = "ready" /\ client[c].fin = "none"
  BY <1>1 DEF Registered, PerCall, Progress
<1>9. PerCall(c)'
  BY CollectorSame, <1>1, <1>3, <1>5, <1>7, <1>8
     DEF PerCall, Registration, Progress, Deregistered, Forgotten, Purposes
<1> QED BY <1>7, <1>9

-------------------------------------------------------------------------------
(* The collector's steps concern the registration of one call.              *)

\* It is enough to look at that call and at the lease.
LEMMA CollectorStep ==
  ASSUME IInv, NEW c \in Calls, client' = client, TypeOK', Lease', PerCall(c)',
         \A d \in Calls \ {c} :
           /\ post'[d] = post[d] /\ \A q \in Purposes : delete'[d][q] = delete[d][q]
           /\ attached'[d] = attached[d] /\ preserved'[d] = preserved[d]
           /\ closed'[d] = closed[d] /\ empty'[d] = empty[d]
           /\ IsCurrent(d)' <=> IsCurrent(d)
           /\ d \in routed' <=> d \in routed,
         cancelled \subseteq cancelled'
  PROVE  IInv'
<1>1. ASSUME NEW d \in Calls \ {c} PROVE PerCall(d)'
  BY <1>1, Elsewhere DEF IInv
<1> QED BY <1>1 DEF IInv

\* A registration that is refused leaves everything else alone.
LEMMA RejectedStep ==
  ASSUME IInv, NEW c \in Calls, post[c] = "sent", post' = [post EXCEPT ![c] = "rejected"],
         UNCHANGED <<collectorVars, piVars, client, delete, faults>>
  PROVE  IInv'
<1>1. LeaseTypes /\ StateTypes /\ QueueTypes /\ WireTypes /\ ClientTypes /\ RequestTypes /\ PerCall(c)
  BY TypeParts DEF IInv
<1>2. TypeOK'
  <2>1. LeaseTypes' /\ StateTypes' /\ QueueTypes' /\ WireTypes' /\ ClientTypes' /\ RequestTypes'
    BY <1>1, CollectorSame
       DEF LeaseTypes, StateTypes, QueueTypes, WireTypes, ClientTypes, RequestTypes, piVars
  <2> QED BY <2>1, TypePartsNext
<1>3. Lease'
  BY CollectorSame, <1>1 DEF IInv, Lease, LeaseTypes
<1>4. PerCall(c)'
  BY CollectorSame, <1>1 DEF PerCall, Registration, Progress, Deregistered, Forgotten, RequestTypes
<1> QED BY <1>1, <1>2, <1>3, <1>4, CollectorSame, CollectorStep DEF RequestTypes

LEMMA RegisterTimesOutStep ==
  ASSUME IInv, NEW c \in Calls, RegisterTimesOut(c)
  PROVE  IInv'
BY RejectedStep DEF RegisterTimesOut

LEMMA RegisterStep ==
  ASSUME IInv, NEW c \in Calls, Register(c)
  PROVE  IInv'
<1>1. LeaseTypes /\ StateTypes /\ QueueTypes /\ WireTypes /\ ClientTypes /\ RequestTypes /\ PerCall(c)
  BY TypeParts DEF IInv
<1>2. CASE c \in cancelled \/ current[Request[c]] # None \/ routed # {}
  <2>1. UNCHANGED <<collectorVars, piVars, client, delete, faults>>
    BY <1>2 DEF Register, collectorVars, boundaryVars
  <2> QED BY <1>2, <2>1, RejectedStep DEF Register
<1>3. CASE ~(c \in cancelled \/ current[Request[c]] # None \/ routed # {})
  <2> DEFINE s == [FreshState EXCEPT !.capture = client[c].stream, !.recovery = recovery,
                                     !.prior = turnSeq]
  <2>1. /\ post[c] = "sent" /\ post' = [post EXCEPT ![c] = "ready"]
        /\ current' = [current EXCEPT ![Request[c]] = c] /\ Request[c] \in Requests
        /\ routed' = routed \cup {c} /\ owner' = c /\ state' = [state EXCEPT ![c] = s]
        /\ UNCHANGED <<queue, turnSeq, recovery, tombstones, cancelled, blocked, turns, wire,
                       client, delete, faults>>
    BY <1>3 DEF Register, piVars
  <2>2. s \in States /\ s.attached = FALSE /\ s.preserved = FALSE
    <3>1. client[c].stream \in BOOLEAN /\ recovery \in Modes /\ turnSeq \in Int
      BY <1>1 DEF ClientTypes, Clients, LeaseTypes
    <3> QED BY <3>1, FreshStateType DEF States, FreshState
  <2> HIDE DEF s
  <2>3. /\ StateTypes' /\ attached' = [attached EXCEPT ![c] = FALSE]
        /\ preserved' = [preserved EXCEPT ![c] = FALSE]
    BY <1>1, <2>1, <2>2, StateAt
  <2>4. closed' = closed /\ empty' = empty
    BY <2>1, Same
  <2>5. TypeOK'
    <3>1. LeaseTypes' /\ QueueTypes' /\ WireTypes' /\ ClientTypes' /\ RequestTypes'
      BY <1>1, <2>1 DEF LeaseTypes, QueueTypes, WireTypes, ClientTypes, RequestTypes
    <3> QED BY <2>3, <3>1, TypePartsNext
  <2>6. \A d \in Calls : IsCurrent(d)' <=> (d = c \/ IsCurrent(d))
    BY <1>1, <1>3, <2>1 DEF IsCurrent, LeaseTypes
  <2>7. ~closed[c] /\ ~client[c].ran /\ delete[c]["outcome"] # "done" /\ client[c].pc # "idle"
    BY <1>1, <1>3, <2>1 DEF PerCall, Registration, Progress, Deregistered
  <2>8. Lease'
    BY <1>3, <2>1, <2>4, <2>6, <2>7 DEF Lease
  <2>9. PerCall(c)'
    BY <1>1, <2>1, <2>3, <2>4, <2>6, <2>7
       DEF PerCall, Registration, Progress, Deregistered, Forgotten, RequestTypes, attached, preserved
  <2>10. ASSUME NEW d \in Calls \ {c}
         PROVE  /\ post'[d] = post[d] /\ \A p \in Purposes : delete'[d][p] = delete[d][p]
                /\ attached'[d] = attached[d] /\ preserved'[d] = preserved[d]
                /\ closed'[d] = closed[d] /\ empty'[d] = empty[d]
                /\ IsCurrent(d)' <=> IsCurrent(d)
                /\ d \in routed' <=> d \in routed
    BY <1>1, <2>1, <2>3, <2>4, <2>6, <2>10 DEF RequestTypes, attached, preserved
  <2> QED BY <2>1, <2>5, <2>8, <2>9, <2>10, CollectorStep
<1> QED BY <1>2, <1>3

LEMMA StreamAttachesStep ==
  ASSUME IInv, NEW c \in Calls, StreamAttaches(c)
  PROVE  IInv'
<1>1. LeaseTypes /\ StateTypes /\ QueueTypes /\ WireTypes /\ ClientTypes /\ RequestTypes /\ PerCall(c)
  BY TypeParts DEF IInv
<1> DEFINE s == [state[c] EXCEPT !.attached = TRUE]
<1>2. s \in States /\ s.attached = TRUE /\ s.preserved = state[c].preserved
  BY <1>1, ZenonT(60) DEF StateTypes, States
<1>3. /\ IsCurrent(c) /\ state' = [state EXCEPT ![c] = s]
      /\ UNCHANGED <<current, routed, queue, owner, turnSeq, recovery, tombstones, cancelled,
                     blocked, turns, wire, client, post, delete, faults>>
  BY DEF StreamAttaches, boundaryVars, piVars, requestVars
<1> HIDE DEF s
<1>4. /\ StateTypes' /\ attached' = [attached EXCEPT ![c] = TRUE]
      /\ preserved' = [preserved EXCEPT ![c] = s.preserved]
  BY <1>1, <1>2, <1>3, StateAt
<1>5. preserved' = preserved /\ closed' = closed /\ empty' = empty
      /\ \A d \in Calls : IsCurrent(d)' <=> IsCurrent(d)
  BY <1>2, <1>3, <1>4, Same DEF preserved
<1>6. TypeOK'
  <2>1. LeaseTypes' /\ QueueTypes' /\ WireTypes' /\ ClientTypes' /\ RequestTypes'
    BY <1>1, <1>3 DEF LeaseTypes, QueueTypes, WireTypes, ClientTypes, RequestTypes
  <2> QED BY <1>4, <2>1, TypePartsNext
<1>7. Lease'
  BY <1>1, <1>3, <1>5 DEF IInv, Lease, LeaseTypes
<1>8. PerCall(c)'
  BY <1>1, <1>3, <1>4, <1>5
     DEF PerCall, Registration, Progress, Deregistered, Forgotten, attached
<1> QED BY <1>1, <1>3, <1>4, <1>5, <1>6, <1>7, <1>8, CollectorStep DEF attached

LEMMA StreamReadsStep ==
  ASSUME IInv, NEW c \in Calls, StreamReads(c)
  PROVE  IInv'
<1>1. LeaseTypes /\ StateTypes /\ QueueTypes /\ WireTypes /\ ClientTypes /\ RequestTypes /\ PerCall(c)
  BY TypeParts DEF IInv
<1>2. queue[c] \in Queues /\ queue[c].records # <<>> /\ Len(queue[c].records) <= QueueMaxsize
  BY <1>1 DEF QueueTypes, StreamReads, Readable
<1> DEFINE q == [queue[c] EXCEPT !.records = Tail(@)]
<1>3. q \in Queues /\ Len(q.records) <= QueueMaxsize /\ q.closed = queue[c].closed
  <2>1. queue[c].records \in Seq(Records)
    BY <1>2 DEF Queues
  <2>2. Tail(queue[c].records) \in Seq(Records)
        /\ Len(Tail(queue[c].records)) = Len(queue[c].records) - 1
        /\ Len(queue[c].records) \in Nat
    BY <1>2, <2>1
  <2>3. q.records = Tail(queue[c].records) /\ q.closed = queue[c].closed /\ q \in Queues
    BY <1>2, <2>2 DEF Queues
  <2> QED BY <1>2, <2>2, <2>3
<1>4. /\ queue' = [queue EXCEPT ![c] = q]
      /\ UNCHANGED <<current, routed, state, owner, turnSeq, recovery, tombstones, cancelled,
                     blocked, turns, wire, client, post, delete, faults>>
  BY DEF StreamReads, boundaryVars, piVars, requestVars
<1> HIDE DEF q
<1>5. /\ QueueTypes' /\ closed' = [closed EXCEPT ![c] = q.closed]
      /\ empty' = [empty EXCEPT ![c] = (q.records = <<>>)]
  BY <1>1, <1>3, <1>4, QueueAt
<1>6. closed' = closed /\ attached' = attached /\ preserved' = preserved
      /\ \A d \in Calls : IsCurrent(d)' <=> IsCurrent(d)
  BY <1>3, <1>4, <1>5, Same DEF closed
<1>7. TypeOK'
  <2>1. LeaseTypes' /\ StateTypes' /\ WireTypes' /\ ClientTypes' /\ RequestTypes'
    BY <1>1, <1>4 DEF LeaseTypes, StateTypes, WireTypes, ClientTypes, RequestTypes
  <2> QED BY <1>5, <2>1, TypePartsNext
<1>8. Lease'
  BY <1>1, <1>4, <1>6 DEF IInv, Lease, LeaseTypes
<1>9. ~empty[c]
  BY <1>2 DEF empty
<1>10. PerCall(c)'
  BY <1>1, <1>4, <1>6, <1>9 DEF PerCall, Registration, Progress, Deregistered, Forgotten
<1> QED BY <1>1, <1>4, <1>5, <1>6, <1>7, <1>8, <1>10, CollectorStep DEF empty

LEMMA StreamDetachesStep ==
  ASSUME IInv, NEW c \in Calls, StreamDetaches(c)
  PROVE  IInv'
<1>1. LeaseTypes /\ StateTypes /\ QueueTypes /\ WireTypes /\ ClientTypes /\ RequestTypes /\ PerCall(c)
  BY TypeParts DEF IInv
<1>2. attached[c] /\ IsCurrent(c) /\ post[c] = "ready"
  BY <1>1 DEF StreamDetaches, attached, PerCall, Registration
<1>3. UNCHANGED <<routed, owner, turnSeq, recovery, tombstones, cancelled, blocked, turns, wire,
                  client, post, delete, faults>>
  BY DEF StreamDetaches, boundaryVars, piVars, requestVars
<1>4. Exhausted(c) /\ ~state[c].preserved <=> closed[c] /\ empty[c] /\ ~preserved[c]
  BY DEF Exhausted, closed, empty, preserved
<1>5. CASE Exhausted(c) /\ ~state[c].preserved
  <2>1. Pop(c)
    BY <1>5 DEF StreamDetaches
  <2>2. /\ current' \in [Requests -> Calls \cup {None}] /\ StateTypes' /\ QueueTypes'
        /\ \A d \in Calls : IsCurrent(d)' <=> d # c /\ IsCurrent(d)
        /\ attached' = [attached EXCEPT ![c] = FALSE]
        /\ preserved' = [preserved EXCEPT ![c] = FALSE]
        /\ closed' = [closed EXCEPT ![c] = TRUE]
        /\ empty' = [empty EXCEPT ![c] = TRUE]
    BY <1>2, <2>1, Popped DEF IInv
  <2>3. c \notin routed
    BY <1>4, <1>5 DEF IInv, Lease
  <2>4. TypeOK'
    <3>1. LeaseTypes' /\ WireTypes' /\ ClientTypes' /\ RequestTypes'
      BY <1>1, <1>3, <2>2 DEF LeaseTypes, WireTypes, ClientTypes, RequestTypes
    <3> QED BY <2>2, <3>1, TypePartsNext
  <2>5. Lease'
    BY <1>1, <1>3, <2>2, <2>3 DEF IInv, Lease, LeaseTypes, closed, preserved
  <2>6. PerCall(c)'
    BY <1>1, <1>2, <1>3, <2>2, <2>3
       DEF PerCall, Registration, Progress, Deregistered, Forgotten, attached, preserved, closed, empty
  <2> QED BY <1>1, <1>3, <2>2, <2>4, <2>5, <2>6, CollectorStep DEF attached, preserved, closed, empty
<1>6. CASE ~(Exhausted(c) /\ ~state[c].preserved)
  <2> DEFINE s == [state[c] EXCEPT !.attached = FALSE]
  <2>1. s \in States /\ s.attached = FALSE /\ s.preserved = state[c].preserved
    BY <1>1, ZenonT(60) DEF StateTypes, States
  <2>2. state' = [state EXCEPT ![c] = s] /\ UNCHANGED <<current, queue>>
    BY <1>6 DEF StreamDetaches
  <2> HIDE DEF s
  <2>3. /\ StateTypes' /\ attached' = [attached EXCEPT ![c] = s.attached]
        /\ preserved' = [preserved EXCEPT ![c] = s.preserved]
    BY <1>1, <2>1, <2>2, StateAt
  <2>4. preserved' = preserved /\ closed' = closed /\ empty' = empty
        /\ \A d \in Calls : IsCurrent(d)' <=> IsCurrent(d)
    BY <2>1, <2>2, <2>3, Same DEF preserved
  <2>5. TypeOK'
    <3>1. LeaseTypes' /\ QueueTypes' /\ WireTypes' /\ ClientTypes' /\ RequestTypes'
      BY <1>1, <1>3, <2>2 DEF LeaseTypes, QueueTypes, WireTypes, ClientTypes, RequestTypes
    <3> QED BY <2>3, <3>1, TypePartsNext
  <2>6. Lease'
    BY <1>1, <1>3, <2>4 DEF IInv, Lease, LeaseTypes
  <2>7. PerCall(c)'
    BY <1>1, <1>2, <1>3, <1>4, <1>6, <2>1, <2>3, <2>4
       DEF PerCall, Registration, Progress, Deregistered, Forgotten, attached
  <2> QED BY <1>1, <1>3, <2>3, <2>4, <2>5, <2>6, <2>7, CollectorStep DEF attached
<1> QED BY <1>5, <1>6

LEMMA DeregisterWaitsStep ==
  ASSUME IInv, NEW c \in Calls, NEW p \in Purposes, DeregisterWaits(c, p)
  PROVE  IInv'
<1>1. LeaseTypes /\ StateTypes /\ QueueTypes /\ WireTypes /\ ClientTypes /\ RequestTypes /\ PerCall(c)
  BY TypeParts DEF IInv
<1>2. UNCHANGED <<collectorVars, piVars, client, post, faults>> /\ delete[c][p] = "sent"
  BY DEF DeregisterWaits
<1>3. /\ delete' \in [Calls -> [Purposes -> {"none", "sent", "waiting", "done"}]]
      /\ \A d \in Calls, q \in Purposes :
           delete'[d][q] = IF d = c /\ q = p THEN "waiting" ELSE delete[d][q]
  BY <1>1 DEF DeregisterWaits, Deliver, RequestTypes
<1>4. WireTypes' /\ ClientTypes' /\ RequestTypes'
  BY <1>1, <1>2, <1>3, CollectorSame DEF WireTypes, ClientTypes, RequestTypes, piVars
<1>5. TypeOK'
  <2>1. LeaseTypes' /\ StateTypes' /\ QueueTypes'
    BY <1>1, <1>2, CollectorSame DEF LeaseTypes, StateTypes, QueueTypes
  <2> QED BY <1>4, <2>1, TypePartsNext
<1>6. Lease'
  BY <1>1, <1>2, CollectorSame DEF IInv, Lease, LeaseTypes
<1>7. PerCall(c)'
  BY <1>1, <1>2, <1>3, CollectorSame
     DEF PerCall, Registration, Progress, Deregistered, Forgotten, Purposes
<1> QED BY <1>2, <1>3, <1>5, <1>6, <1>7, CollectorSame, CollectorStep

-------------------------------------------------------------------------------
(* deregister *)

\* The types that the end of a lease leaves.
LEMMA EndLeaseTypes ==
  ASSUME LeaseTypes, StateTypes, ClientTypes, NEW c \in Calls, NEW p \in Purposes,
         Action(c, p) # "preserve", EndLease(c, p)
  PROVE  /\ owner' = IF owner = c THEN None ELSE owner
         /\ turnSeq' \in Int /\ recovery' \in Modes /\ tombstones' \subseteq Nat \X Calls
<1>1. /\ state[c].prior \in Int /\ state[c].latest \in Int /\ state[c] \in States
      /\ state[c].completion \in (Nat \X Calls) \cup {<<>>}
  BY DEF StateTypes, States
<1>2. turnSeq \in Int /\ recovery \in Modes /\ tombstones \subseteq Nat \X Calls
  BY DEF LeaseTypes
<1>3. Expected(c, p) \in Int
  BY DEF Expected, ClientTypes, Clients
<1>4. \A n \in Int : Advance(n) \in Int
  BY <1>2 DEF Advance
<1>5. state[c].completion # <<>> => state[c].completion[1] \in Int /\ state[c].completion \in Nat \X Calls
  BY <1>1
<1>6. CASE owner # c
  BY <1>2, <1>6 DEF EndLease
<1>7. ASSUME ResolveBoundary(c, p), owner = c
      PROVE  owner' = None /\ turnSeq' \in Int /\ recovery' \in Modes /\ tombstones' \subseteq Nat \X Calls
  <2> DEFINE settledAt == IF state[c].completion = <<>> THEN -1 ELSE state[c].completion[1]
             n == IF state[c].started THEN state[c].latest
                  ELSE IF HasCount(c, p) THEN settledAt ELSE -1
             observed == Advance(n)
  <2>1. settledAt \in Int
    BY <1>5
  <2> HIDE DEF settledAt
  <2>2. observed \in Int
    <3>1. n \in Int
      BY <1>1, <2>1
    <3> QED BY <1>4, <3>1
  <2> HIDE DEF observed
  <2>3. turnSeq' \in {Expected(c, p), observed}
    BY <1>7 DEF ResolveBoundary, settledAt, observed, n
  <2>4. tombstones' \in {tombstones, tombstones \cup {state[c].completion}}
        /\ (state[c].completion = <<>> => tombstones' = tombstones)
    BY <1>7 DEF ResolveBoundary
  <2>5. tombstones' \subseteq Nat \X Calls
    BY <1>2, <1>5, <2>4
  <2> QED BY <1>2, <1>3, <1>7, <2>2, <2>3, <2>5 DEF ResolveBoundary
<1>8. ASSUME SetRecovery(c, p), owner = c
      PROVE  owner' = None /\ turnSeq' \in Int /\ recovery' \in Modes /\ tombstones' \subseteq Nat \X Calls
  <2>1. turnSeq' \in {Expected(c, p), turnSeq} /\ recovery' \in {"known", "unknown"}
        /\ owner' = None /\ tombstones' = tombstones
    BY <1>8 DEF SetRecovery
  <2> QED BY <1>2, <1>3, <2>1 DEF Modes
<1>9. owner = c => ResolveBoundary(c, p) \/ SetRecovery(c, p)
  <2>1. Action(c, p) \in {"release", "quarantine", "wait", "preserve"}
    BY DEF Action
  <2>2. owner = c /\ Action(c, p) # "preserve" => ResolveBoundary(c, p) \/ SetRecovery(c, p)
    BY <2>1 DEF EndLease
  <2> QED BY <2>2
<1> QED BY <1>6, <1>7, <1>8, <1>9

\* What every deregistration does and leaves alone.
Handled(c, p) ==
  /\ LeaseTypes /\ StateTypes /\ QueueTypes /\ PerCall(c)
  /\ WireTypes' /\ ClientTypes' /\ RequestTypes'
  /\ UNCHANGED <<blocked, turns, wire, client, post, faults>>
  /\ delete[c][p] # "none" /\ delete[c][p] # "done"
  /\ \A d \in Calls, q \in Purposes :
       delete'[d][q] = IF d = c /\ q = p THEN "done" ELSE delete[d][q]

LEMMA DeregisterHandles ==
  ASSUME IInv, NEW c \in Calls, NEW p \in Purposes, Deregister(c, p)
  PROVE  Handled(c, p)
<1>1. LeaseTypes /\ StateTypes /\ QueueTypes /\ WireTypes /\ ClientTypes /\ RequestTypes /\ PerCall(c)
  BY TypeParts DEF IInv
<1>2. UNCHANGED <<blocked, turns, wire, client, post, faults>> /\ delete[c][p] \in {"waiting", "sent"}
  BY DEF Deregister, piVars
<1>3. /\ delete' \in [Calls -> [Purposes -> {"none", "sent", "waiting", "done"}]]
      /\ \A d \in Calls, q \in Purposes :
           delete'[d][q] = IF d = c /\ q = p THEN "done" ELSE delete[d][q]
  BY <1>1 DEF Deregister, Deliver, RequestTypes
<1>4. WireTypes' /\ ClientTypes' /\ RequestTypes'
  BY <1>1, <1>2, <1>3 DEF WireTypes, ClientTypes, RequestTypes
<1> QED BY <1>1, <1>2, <1>3, <1>4 DEF Handled

\* The registration is not, or no longer, the current one: a release cancels it.
LEMMA DeregisterElsewhereStep ==
  ASSUME IInv, NEW c \in Calls, NEW p \in Purposes, Deregister(c, p), ~IsCurrent(c)
  PROVE  IInv'
<1>0. Handled(c, p)
  BY DeregisterHandles
<1>1. UNCHANGED <<current, routed, state, queue, owner, turnSeq, recovery, tombstones>>
      /\ cancelled' = IF Action(c, p) = "release" THEN cancelled \cup {c} ELSE cancelled
  BY DEF Deregister
<1>2. /\ attached' = attached /\ preserved' = preserved /\ closed' = closed /\ empty' = empty
      /\ \A d \in Calls : IsCurrent(d)' <=> IsCurrent(d)
  BY <1>1, Same
<1>3. TypeOK'
  <2>1. LeaseTypes' /\ StateTypes' /\ QueueTypes'
    BY <1>1, <1>0 DEF Handled, LeaseTypes, StateTypes, QueueTypes
  <2> QED BY <2>1, <1>0, TypePartsNext DEF Handled
<1>4. Lease'
  BY <1>1, <1>2, TypeParts DEF IInv, Lease, LeaseTypes
<1>5. c \notin routed
  BY DEF IInv, Lease
<1>6. p = "outcome" /\ post[c] = "sent" => c \in cancelled'
  <2>1. p = "outcome" /\ post[c] = "sent" => client[c].result = "failed"
    BY <1>0 DEF Handled, PerCall, Progress
  <2>2. p = "outcome" /\ post[c] = "sent" => Action(c, p) = "release"
    BY <2>1 DEF Action
  <2> QED BY <1>1, <2>2
<1>7. PerCall(c)'
  <2>1. Registration(c)'
    BY <1>1, <1>2, <1>0 DEF Handled, PerCall, Registration
  <2>2. Progress(c)'
    BY <1>1, <1>2, <1>0 DEF Handled, PerCall, Progress, Purposes
  <2>3. Deregistered(c)'
    BY <1>1, <1>2, <1>5, <1>6, <1>0 DEF Handled, PerCall, Deregistered, Purposes
  <2>4. Forgotten(c)'
    BY <1>1, <1>2, <1>0 DEF Handled, PerCall, Forgotten, Purposes
  <2> QED BY <2>1, <2>2, <2>3, <2>4 DEF PerCall
<1>8. ASSUME NEW d \in Calls \ {c}
      PROVE  post'[d] = post[d] /\ \A q \in Purposes : delete'[d][q] = delete[d][q]
  BY <1>8, <1>0 DEF Handled
<1> QED BY <1>1, <1>2, <1>3, <1>4, <1>7, <1>8, <1>0, CollectorStep DEF Handled

\* The registration of the call is gone after it.
LEMMA DeregisterPopsStep ==
  ASSUME IInv, NEW c \in Calls, NEW p \in Purposes, Deregister(c, p), IsCurrent(c), Pop(c),
         routed' = routed \ {c}, owner' = IF owner = c THEN None ELSE owner,
         turnSeq' \in Int, recovery' \in Modes, tombstones' \subseteq Nat \X Calls,
         p = "finalizer" => c \notin routed
  PROVE  IInv'
<1>0. Handled(c, p)
  BY DeregisterHandles
<1>1. /\ current' \in [Requests -> Calls \cup {None}] /\ StateTypes' /\ QueueTypes'
      /\ \A d \in Calls : IsCurrent(d)' <=> d # c /\ IsCurrent(d)
      /\ attached' = [attached EXCEPT ![c] = FALSE]
      /\ preserved' = [preserved EXCEPT ![c] = FALSE]
      /\ closed' = [closed EXCEPT ![c] = TRUE]
      /\ empty' = [empty EXCEPT ![c] = TRUE]
  BY Popped DEF IInv
<1>2. cancelled' = cancelled
  BY DEF Deregister
<1>3. TypeOK'
  <2>1. LeaseTypes'
    BY <1>1, <1>2, <1>0 DEF Handled, LeaseTypes
  <2> QED BY <1>1, <2>1, <1>0, TypePartsNext DEF Handled
<1>4. Lease'
  BY <1>1, <1>0, ZenonT(60) DEF Handled, IInv, Lease, LeaseTypes, closed, preserved
<1>5. PerCall(c)'
  <2>1. post[c] = "ready"
    BY <1>0 DEF Handled, PerCall, Registration
  <2>2. Registration(c)'
    BY <1>1, <2>1, <1>0 DEF Handled, Registration, attached, preserved, closed, empty
  <2>3. Progress(c)'
    BY <1>1, <1>0 DEF Handled, PerCall, Progress, Purposes
  <2>4. Deregistered(c)'
    BY <1>1, <2>1, <1>0 DEF Handled, Deregistered
  <2>5. Forgotten(c)'
    BY <1>0 DEF Handled, PerCall, Forgotten, Purposes
  <2> QED BY <2>2, <2>3, <2>4, <2>5 DEF PerCall
<1>6. ASSUME NEW d \in Calls \ {c}
      PROVE  /\ post'[d] = post[d] /\ \A q \in Purposes : delete'[d][q] = delete[d][q]
             /\ attached'[d] = attached[d] /\ preserved'[d] = preserved[d]
             /\ closed'[d] = closed[d] /\ empty'[d] = empty[d]
             /\ IsCurrent(d)' <=> IsCurrent(d)
             /\ d \in routed' <=> d \in routed
  BY <1>1, <1>6, <1>0 DEF Handled, attached, preserved, closed, empty
<1> QED BY <1>2, <1>3, <1>4, <1>5, <1>6, <1>0, CollectorStep DEF Handled

LEMMA CloseType ==
  ASSUME NEW q \in Queues, NEW drain \in BOOLEAN
  PROVE  /\ Close(q, drain) \in Queues /\ Close(q, drain).closed
         /\ q.closed => Close(q, drain) = q
         /\ ~q.closed => Close(q, drain).records = IF drain THEN q.records ELSE <<>>
         /\ Close(q, drain).records \in {q.records, <<>>}
<1>1. q.records \in Seq(Records) /\ q.closed \in BOOLEAN /\ q.drain \in BOOLEAN
  BY DEF Queues
<1>2. CASE q.closed
  BY <1>2 DEF Close
<1>3. CASE ~q.closed
  <2> DEFINE n == [records |-> IF drain THEN q.records ELSE <<>>, closed |-> TRUE, drain |-> drain]
  <2>1. Close(q, drain) = n
    BY <1>3 DEF Close
  <2>2. n \in Queues /\ n.closed /\ n.records = IF drain THEN q.records ELSE <<>>
    BY <1>1 DEF Queues
  <2> QED BY <1>3, <2>1, <2>2
<1> QED BY <1>1, <1>2, <1>3

\* The registration of the call is kept, with a state s and a closed queue.
LEMMA DeregisterKeepsStep ==
  ASSUME IInv, NEW c \in Calls, NEW p \in Purposes, Deregister(c, p), IsCurrent(c),
         NEW s \in States, state' = [state EXCEPT ![c] = s], s.attached = state[c].attached,
         NEW drain \in BOOLEAN, queue' = [queue EXCEPT ![c] = Close(@, drain)],
         current' = current,
         \/ /\ p = "finalizer" /\ c \in routed /\ drain = FALSE /\ s.preserved
            /\ UNCHANGED <<routed, owner>>
         \/ /\ p = "outcome" /\ drain = TRUE /\ ~s.preserved
            /\ routed' = routed \ {c} /\ owner' = IF owner = c THEN None ELSE owner
            /\ client[c].stream /\ client[c].ran
            /\ Close(queue[c], TRUE).records = <<>> => state[c].attached,
         turnSeq' \in Int, recovery' \in Modes, tombstones' \subseteq Nat \X Calls
  PROVE  IInv'
<1>0. Handled(c, p)
  BY DeregisterHandles
<1>1. cancelled' = cancelled /\ \A d \in Calls : IsCurrent(d)' <=> IsCurrent(d)
  BY Same DEF Deregister
<1> DEFINE q == Close(queue[c], drain)
<1>2. queue[c] \in Queues /\ Len(queue[c].records) <= QueueMaxsize
  BY <1>0 DEF Handled, QueueTypes
<1>3. /\ q \in Queues /\ q.closed
      /\ queue[c].closed => q = queue[c]
      /\ ~queue[c].closed => q.records = IF drain THEN queue[c].records ELSE <<>>
      /\ q.records \in {queue[c].records, <<>>}
  BY <1>2, CloseType
<1>4. queue' = [queue EXCEPT ![c] = q]
  OBVIOUS
<1>5. Len(q.records) <= QueueMaxsize
  BY <1>2, <1>3
<1>6. drain => q = Close(queue[c], TRUE)
  OBVIOUS
<1> HIDE DEF q
<1>7. /\ QueueTypes' /\ closed' = [closed EXCEPT ![c] = q.closed]
      /\ empty' = [empty EXCEPT ![c] = (q.records = <<>>)]
  BY <1>0, <1>3, <1>4, <1>5, QueueAt DEF Handled
<1>8. /\ StateTypes' /\ attached' = [attached EXCEPT ![c] = s.attached]
      /\ preserved' = [preserved EXCEPT ![c] = s.preserved]
  BY <1>0, StateAt DEF Handled
<1>9. TypeOK'
  <2>1. LeaseTypes'
    BY <1>0, <1>1 DEF Handled, LeaseTypes
  <2> QED BY <1>0, <1>7, <1>8, <2>1, TypePartsNext DEF Handled
<1>10. /\ closed'[c] /\ (preserved'[c] <=> s.preserved)
       /\ attached'[c] = attached[c] /\ (empty'[c] <=> q.records = <<>>)
       /\ closed[c] = queue[c].closed /\ (empty[c] <=> queue[c].records = <<>>)
  <2>1. closed[c] = queue[c].closed /\ empty[c] = (queue[c].records = <<>>)
        /\ attached[c] = state[c].attached
    BY DEF closed, empty, attached
  <2>2. closed'[c] = q.closed /\ empty'[c] = (q.records = <<>>)
    BY <1>7 DEF closed, empty
  <2>3. attached'[c] = s.attached /\ preserved'[c] = s.preserved
    BY <1>8 DEF attached, preserved
  <2> QED BY <1>3, <2>1, <2>2, <2>3
<1>11. \A d \in Calls \ {c} : /\ attached'[d] = attached[d] /\ preserved'[d] = preserved[d]
                              /\ closed'[d] = closed[d] /\ empty'[d] = empty[d]
  BY <1>7, <1>8 DEF closed, empty, attached, preserved
<1>12. Lease'
  <2>1. CASE p = "finalizer"
    BY <1>0, <1>1, <1>10, <1>11, <2>1 DEF IInv, Lease, Handled, LeaseTypes
  <2>2. CASE p = "outcome"
    BY <1>0, <1>1, <1>11, <2>2 DEF IInv, Lease, Handled, LeaseTypes
  <2> QED BY <2>1, <2>2
<1>13. post[c] = "ready" /\ post' = post /\ client' = client
  BY <1>0 DEF Handled, PerCall, Registration
<1>14. c \in routed /\ closed[c] => empty[c]
  BY <1>0 DEF IInv, Lease, Handled, PerCall, Registration
<1>15. Registration(c)'
  BY <1>0, <1>1, <1>3, <1>10, <1>13, <1>14 DEF Registration, Handled, PerCall
<1>16. Progress(c)'
  BY <1>0, <1>1, <1>13 DEF Handled, PerCall, Progress, Purposes
<1>17. Deregistered(c)'
  <2>1. CASE p = "finalizer"
    BY <1>0, <1>1, <1>10, <1>13, <2>1 DEF Handled, PerCall, Deregistered, Purposes
  <2>2. CASE p = "outcome"
    <3>1. preserved[c] => closed[c] /\ empty[c]
      BY <1>0 DEF Handled, PerCall, Registration
    <3>2. preserved[c] => attached[c] /\ q.records = <<>>
      BY <1>3, <1>6, <1>10, <2>2, <3>1 DEF attached
    <3>3. delete[c]["finalizer"] = "done" => preserved[c]
      BY <1>0, <2>2 DEF Handled, PerCall, Deregistered
    <3> QED BY <1>0, <1>1, <1>10, <1>13, <2>2, <3>2, <3>3 DEF Handled, PerCall, Deregistered, Purposes
  <2> QED BY <2>1, <2>2
<1>18. Forgotten(c)'
  BY <1>0, <1>13 DEF Handled, PerCall, Forgotten, Purposes
<1>19. ASSUME NEW d \in Calls \ {c}
       PROVE  /\ post'[d] = post[d] /\ \A r \in Purposes : delete'[d][r] = delete[d][r]
              /\ d \in routed' <=> d \in routed
  BY <1>0, <1>13, <1>19 DEF Handled
<1> QED BY <1>1, <1>9, <1>11, <1>12, <1>13, <1>15, <1>16, <1>17, <1>18, <1>19, CollectorStep
       DEF PerCall

LEMMA DeregisterStep ==
  ASSUME IInv, NEW c \in Calls, NEW p \in Purposes, Deregister(c, p)
  PROVE  IInv'
<1>0. LeaseTypes /\ StateTypes /\ ClientTypes /\ state[c] \in States
  BY TypeParts DEF IInv, StateTypes
<1>1. CASE ~IsCurrent(c)
  BY <1>1, DeregisterElsewhereStep
<1>2. CASE IsCurrent(c) /\ Action(c, p) = "preserve"
  <2>1. p = "finalizer"
    BY <1>2 DEF Action, Purposes
  <2>2. Preserve(c, p)
    BY <1>2 DEF Deregister
  <2>3. UNCHANGED <<routed, owner, turnSeq, recovery, tombstones>>
    BY <2>2 DEF Preserve
  <2>4. CASE c \notin routed
    <3>1. owner # c
      BY <2>4 DEF IInv, Lease
    <3>2. Pop(c) /\ routed' = routed \ {c} /\ owner' = IF owner = c THEN None ELSE owner
      BY <2>2, <2>3, <2>4, <3>1 DEF Preserve
    <3> QED BY <1>0, <1>2, <2>3, <2>4, <3>2, DeregisterPopsStep DEF LeaseTypes
  <2>5. CASE c \in routed
    <3> DEFINE s == [state[c] EXCEPT !.capture = FALSE, !.preserved = TRUE]
    <3>1. s \in States /\ s.attached = state[c].attached /\ s.preserved
      BY <1>0 DEF States
    <3>2. state' = [state EXCEPT ![c] = s]
      BY <1>0, <2>2, <2>5 DEF Preserve, StateTypes
    <3>3. queue' = [queue EXCEPT ![c] = Close(@, FALSE)] /\ current' = current
      BY <2>2, <2>5 DEF Preserve
    <3> HIDE DEF s
    <3> QED BY <1>0, <1>2, <2>1, <2>3, <2>5, <3>1, <3>2, <3>3, DeregisterKeepsStep DEF LeaseTypes
  <2> QED BY <2>4, <2>5
<1>3. CASE IsCurrent(c) /\ Action(c, p) # "preserve"
  <2>1. Finish(c, p) /\ p # "finalizer"
    <3>1. p = "finalizer" => Action(c, p) = "preserve"
      BY DEF Action
    <3>2. Finish(c, p)
      BY <1>3 DEF Deregister
    <3> QED BY <1>3, <3>1, <3>2
  <2>2. routed' = routed \ {c} /\ EndLease(c, p)
    BY <2>1 DEF Finish
  <2>3. /\ owner' = IF owner = c THEN None ELSE owner
        /\ turnSeq' \in Int /\ recovery' \in Modes /\ tombstones' \subseteq Nat \X Calls
    BY <1>0, <1>3, <2>2, EndLeaseTypes
  <2>4. CASE RemovesQueue(c, p) \/ (Close(queue[c], TRUE).records = <<>> /\ ~state[c].attached)
    <3>1. Pop(c)
      BY <2>1, <2>4 DEF Finish
    <3> QED BY <1>3, <2>1, <2>2, <2>3, <3>1, DeregisterPopsStep
  <2>5. CASE ~(RemovesQueue(c, p) \/ (Close(queue[c], TRUE).records = <<>> /\ ~state[c].attached))
    <3> DEFINE s == [state[c] EXCEPT !.preserved = FALSE]
    <3>1. s \in States /\ s.attached = state[c].attached /\ ~s.preserved
      BY <1>0 DEF States
    <3>2. state' = [state EXCEPT ![c] = s] /\ queue' = [queue EXCEPT ![c] = Close(@, TRUE)]
          /\ current' = current
      BY <2>1, <2>5 DEF Finish
    <3>3. p = "outcome" /\ client[c].stream /\ client[c].ran
      BY <2>5 DEF RemovesQueue
    <3>4. Close(queue[c], TRUE).records = <<>> => state[c].attached
      BY <2>5
    <3> HIDE DEF s
    <3> QED BY <1>3, <2>2, <2>3, <3>1, <3>2, <3>3, <3>4, DeregisterKeepsStep
  <2> QED BY <2>4, <2>5
<1> QED BY <1>1, <1>2, <1>3

-------------------------------------------------------------------------------
(* route: records change no registration. *)

LEMMA RecordsStep ==
  ASSUME IInv, UNCHANGED <<current, routed, owner, cancelled, client, post, delete, faults>>,
         turnSeq' \in Int, recovery' \in Modes, tombstones' \subseteq Nat \X Calls, WireTypes',
         StateTypes', attached' = attached, preserved' = preserved,
         QueueTypes', closed' = closed, \A c \in Calls : closed[c] => empty'[c] = empty[c]
  PROVE  IInv'
<1>1. LeaseTypes /\ ClientTypes /\ RequestTypes
  BY TypeParts DEF IInv
<1>2. TypeOK'
  <2>1. LeaseTypes' /\ ClientTypes' /\ RequestTypes'
    BY <1>1 DEF LeaseTypes, ClientTypes, RequestTypes
  <2> QED BY <2>1, TypePartsNext
<1>3. \A d \in Calls : IsCurrent(d)' <=> IsCurrent(d)
  BY Same
<1>4. Lease'
  BY <1>1, <1>3 DEF IInv, Lease, LeaseTypes
<1>5. ASSUME NEW c \in Calls PROVE PerCall(c)'
  <2>1. PerCall(c)
    BY DEF IInv
  <2>2. Registration(c)'
    BY <1>3, <2>1 DEF PerCall, Registration
  <2>3. Progress(c)'
    BY <2>1 DEF PerCall, Progress
  <2>4. Deregistered(c)'
    BY <1>3, <2>1 DEF PerCall, Deregistered
  <2>5. Forgotten(c)'
    BY <2>1 DEF PerCall, Forgotten
  <2> QED BY <2>2, <2>3, <2>4, <2>5 DEF PerCall
<1> QED BY <1>2, <1>4, <1>5 DEF IInv

LEMMA AcceptedType ==
  ASSUME NEW s \in States, NEW r \in Records
  PROVE  /\ Accepted(s, r) \in States
         /\ Accepted(s, r).attached = s.attached /\ Accepted(s, r).preserved = s.preserved
<1>1. Key(r) \in Nat \X Calls /\ r.seq \in Int
  BY DEF Key, Records
<1> DEFINE b == s.started \/ r.kind = "turn"
           n == IF r.kind = "turn" THEN r.seq ELSE s.latest
           k == IF r.kind = "settled" THEN Key(r) ELSE s.completion
<1>2. b \in BOOLEAN /\ n \in Int /\ k \in (Nat \X Calls) \cup {<<>>}
  BY <1>1 DEF States
<1>3. Accepted(s, r) = [s EXCEPT !.recovery = "normal", !.ready = TRUE, !.started = b,
                                 !.latest = n, !.completion = k]
  BY DEF Accepted
<1> HIDE DEF b, n, k
<1> QED BY <1>2, <1>3 DEF States, Modes

LEMMA CompletesType ==
  ASSUME NEW s \in States, NEW r
  PROVE  /\ Completes(s, r) \in States
         /\ Completes(s, r).attached = s.attached /\ Completes(s, r).preserved = s.preserved
<1> DEFINE b == s.seen \/ r.kind = "settled"
<1>1. b \in BOOLEAN /\ Completes(s, r) = [s EXCEPT !.seen = b]
  BY DEF Completes, States
<1> HIDE DEF b
<1> QED BY <1>1 DEF States

\* A state that changes in what is read of records.
LEMMA StateReads ==
  ASSUME StateTypes, NEW c \in Calls, NEW s \in States, state' = [state EXCEPT ![c] = s],
         s.attached = state[c].attached, s.preserved = state[c].preserved
  PROVE  StateTypes' /\ attached' = attached /\ preserved' = preserved
<1>1. /\ StateTypes' /\ attached' = [attached EXCEPT ![c] = s.attached]
      /\ preserved' = [preserved EXCEPT ![c] = s.preserved]
  BY StateAt
<1> QED BY <1>1 DEF attached, preserved

LEMMA PutType ==
  ASSUME QueueTypes, NEW c \in Calls, NEW r \in Records, queue[c].closed \/ HasRoom(c), Put(c, r)
  PROVE  /\ QueueTypes' /\ closed' = closed
         /\ \A d \in Calls : closed[d] => empty'[d] = empty[d]
<1>1. CASE queue[c].closed
  <2>1. queue' = queue
    BY <1>1 DEF Put
  <2> QED BY <2>1, Same DEF QueueTypes
<1>2. CASE ~queue[c].closed
  <2> DEFINE q == [queue[c] EXCEPT !.records = Append(@, r)]
  <2>1. queue[c] \in Queues /\ queue[c].records \in Seq(Records)
        /\ Len(queue[c].records) \in Nat /\ Len(queue[c].records) < QueueMaxsize
    BY <1>2 DEF QueueTypes, Queues, HasRoom
  <2>2. Append(queue[c].records, r) \in Seq(Records)
        /\ Len(Append(queue[c].records, r)) = Len(queue[c].records) + 1
    BY <2>1
  <2>3. q \in Queues /\ q.closed = queue[c].closed /\ q.records = Append(queue[c].records, r)
    BY <2>1, <2>2 DEF Queues
  <2>4. Len(q.records) <= QueueMaxsize
    BY <2>1, <2>2, <2>3
  <2>5. queue' = [queue EXCEPT ![c] = q]
    BY <1>2 DEF Put
  <2> HIDE DEF q
  <2>6. /\ QueueTypes' /\ closed' = [closed EXCEPT ![c] = q.closed]
        /\ empty' = [empty EXCEPT ![c] = (q.records = <<>>)]
    BY <2>3, <2>4, <2>5, QueueAt
  <2>7. closed' = closed /\ ~closed[c]
    BY <1>2, <2>3, <2>6 DEF closed
  <2> QED BY <2>6, <2>7 DEF empty
<1> QED BY <1>1, <1>2

LEMMA RouteStep ==
  ASSUME IInv, Route
  PROVE  IInv'
<1>1. LeaseTypes /\ StateTypes /\ QueueTypes /\ WireTypes /\ ClientTypes /\ RequestTypes
  BY TypeParts DEF IInv
<1> DEFINE r == Head(wire)
<1>2. /\ r \in Records /\ wire' \in Seq(Records) /\ turns' \in Nat
      /\ UNCHANGED <<current, routed, owner, cancelled, client, post, delete, faults>>
  BY <1>1 DEF Route, WireTypes, requestVars
<1>3. r.seq \in Int /\ Key(r) \in Nat \X Calls
  BY <1>2 DEF Records, Key
<1>4. CASE routed = {}
  <2>1. RouteToNobody(r)
    BY <1>4 DEF Route
  <2> HIDE DEF r
  <2>2. turnSeq' \in Int /\ recovery' \in Modes /\ tombstones' \subseteq Nat \X Calls
    <3>1. turnSeq \in Int /\ recovery \in Modes /\ tombstones \subseteq Nat \X Calls
      BY <1>1 DEF LeaseTypes
    <3>2. turnSeq' \in {turnSeq, Advance(r.seq)}
          /\ tombstones' \in {tombstones, tombstones \cup {Key(r)}} /\ recovery' = recovery
      BY <2>1 DEF RouteToNobody
    <3>3. Advance(r.seq) \in Int
      BY <1>3, <3>1 DEF Advance
    <3> QED BY <1>3, <3>1, <3>2, <3>3
  <2>3. UNCHANGED <<state, queue, blocked>>
    BY <2>1 DEF RouteToNobody
  <2>4. StateTypes' /\ QueueTypes' /\ WireTypes'
    BY <1>1, <1>2, <2>3 DEF StateTypes, QueueTypes, WireTypes
  <2> QED BY <1>2, <2>2, <2>3, <2>4, Same, RecordsStep
<1>5. CASE routed # {}
  <2>1. PICK c \in routed :
          IF Accepts(state[c], r) THEN RouteTo(c, r)
          ELSE UNCHANGED <<state, queue, turnSeq, recovery, tombstones, blocked>>
    BY <1>5 DEF Route
  <2>2. c \in Calls /\ state[c] \in States
    BY <1>1 DEF LeaseTypes, StateTypes
  <2>3. CASE Accepts(state[c], r)
    <3> DEFINE s == Accepted(state[c], r)
    <3>1. RouteTo(c, r)
      BY <2>1, <2>3
    <3> HIDE DEF r
    <3>2. turnSeq' \in Int /\ recovery' \in Modes /\ tombstones' \subseteq Nat \X Calls
      BY <1>1, <3>1 DEF RouteTo, LeaseTypes, Modes
    <3>3. s \in States /\ s.attached = state[c].attached /\ s.preserved = state[c].preserved
      BY <1>2, <2>2, AcceptedType
    <3>4. CASE s.capture /\ ~queue[c].closed /\ ~HasRoom(c)
      <4>1. state' = [state EXCEPT ![c] = s] /\ blocked' = <<r, c>> /\ queue' = queue
        BY <3>1, <3>4 DEF RouteTo
      <4> HIDE DEF s
      <4>2. StateTypes' /\ attached' = attached /\ preserved' = preserved
        BY <1>1, <2>2, <3>3, <4>1, StateReads
      <4>3. QueueTypes' /\ WireTypes'
        BY <1>1, <1>2, <2>2, <4>1 DEF QueueTypes, WireTypes
      <4> QED BY <1>2, <3>2, <4>1, <4>2, <4>3, Same, RecordsStep
    <3>5. CASE ~(s.capture /\ ~queue[c].closed /\ ~HasRoom(c))
      <4> DEFINE n == Completes(s, r)
      <4>1. state' = [state EXCEPT ![c] = n] /\ blocked' = blocked
            /\ IF s.capture THEN Put(c, r) ELSE queue' = queue
        BY <3>1, <3>5 DEF RouteTo
      <4> HIDE DEF s
      <4>2. n \in States /\ n.attached = state[c].attached /\ n.preserved = state[c].preserved
        BY <3>3, CompletesType
      <4> HIDE DEF n
      <4>3. StateTypes' /\ attached' = attached /\ preserved' = preserved
        BY <1>1, <2>2, <4>1, <4>2, StateReads
      <4>4. WireTypes'
        BY <1>1, <1>2, <4>1 DEF WireTypes
      <4>5. /\ QueueTypes' /\ closed' = closed
            /\ \A d \in Calls : closed[d] => empty'[d] = empty[d]
        <5>1. CASE s.capture
          BY <1>1, <1>2, <2>2, <3>5, <4>1, <5>1, PutType
        <5>2. CASE ~s.capture
          BY <1>1, <4>1, <5>2, Same DEF QueueTypes
        <5> QED BY <5>1, <5>2
      <4> QED BY <1>2, <3>2, <4>3, <4>4, <4>5, RecordsStep
    <3> QED BY <3>4, <3>5
  <2>4. CASE ~Accepts(state[c], r)
    <3>1. UNCHANGED <<state, queue, turnSeq, recovery, tombstones, blocked>>
      BY <2>1, <2>4
    <3>2. /\ turnSeq' \in Int /\ recovery' \in Modes /\ tombstones' \subseteq Nat \X Calls
          /\ StateTypes' /\ QueueTypes' /\ WireTypes'
      BY <1>1, <1>2, <3>1 DEF LeaseTypes, StateTypes, QueueTypes, WireTypes
    <3> QED BY <1>2, <3>1, <3>2, Same, RecordsStep
  <2> QED BY <2>3, <2>4
<1> QED BY <1>4, <1>5

LEMMA BlockedType ==
  ASSUME WireTypes, blocked # <<>>
  PROVE  blocked[1] \in Records /\ blocked[2] \in Calls
BY DEF WireTypes

LEMMA PutEndsStep ==
  ASSUME IInv, PutEnds
  PROVE  IInv'
<1>1. LeaseTypes /\ StateTypes /\ QueueTypes /\ WireTypes
  BY TypeParts DEF IInv
<1> DEFINE r == blocked[1]
           c == blocked[2]
           s == Completes(state[c], r)
<1>2. r \in Records /\ c \in Calls
  BY <1>1, BlockedType DEF PutEnds
<1>3. /\ UNCHANGED <<current, routed, owner, turnSeq, recovery, tombstones, cancelled, turns, wire,
                     client, post, delete, faults>>
      /\ blocked' = <<>>
  BY DEF PutEnds, boundaryVars, piVars, requestVars
<1>4. /\ state' = [state EXCEPT ![c] = s]
      /\ \/ (queue[c].closed \/ HasRoom(c)) /\ Put(c, r)
         \/ queue' = queue
  BY DEF PutEnds
<1> HIDE DEF r, c
<1>5. s \in States /\ s.attached = state[c].attached /\ s.preserved = state[c].preserved
  BY <1>1, <1>2, CompletesType DEF StateTypes
<1> HIDE DEF s
<1>6. StateTypes' /\ attached' = attached /\ preserved' = preserved
  BY <1>1, <1>2, <1>4, <1>5, StateReads
<1>7. /\ QueueTypes' /\ closed' = closed /\ \A d \in Calls : closed[d] => empty'[d] = empty[d]
  <2>1. CASE queue' = queue
    BY <1>1, <2>1, Same DEF QueueTypes
  <2>2. CASE (queue[c].closed \/ HasRoom(c)) /\ Put(c, r)
    BY <1>1, <1>2, <2>2, PutType
  <2> QED BY <1>4, <2>1, <2>2
<1>8. WireTypes' /\ turnSeq' \in Int /\ recovery' \in Modes /\ tombstones' \subseteq Nat \X Calls
  BY <1>1, <1>3 DEF WireTypes, LeaseTypes
<1> QED BY <1>3, <1>6, <1>7, <1>8, RecordsStep

LEMMA PutCancelledStep ==
  ASSUME IInv, PutCancelled
  PROVE  IInv'
<1>1. LeaseTypes /\ StateTypes /\ QueueTypes /\ WireTypes
  BY TypeParts DEF IInv
<1> DEFINE r == blocked[1]
           c == blocked[2]
           b == state[c].ready /\ state[c].started
           s == [state[c] EXCEPT !.completion = <<>>, !.ready = b]
<1>2. r \in Records /\ c \in Calls
  BY <1>1, BlockedType DEF PutCancelled
<1>3. /\ UNCHANGED <<current, routed, queue, owner, turnSeq, recovery, tombstones, cancelled, turns,
                     client, post, delete, faults>>
      /\ blocked' = <<>> /\ wire' \in {wire, <<r>> \o wire}
  BY DEF PutCancelled, boundaryVars, requestVars
<1>4. state' = state \/ state' = [state EXCEPT ![c].completion = <<>>,
                                               ![c].ready = @ /\ state[c].started]
  BY DEF PutCancelled
<1> HIDE DEF r, c
<1>5. state' = state \/ state' = [state EXCEPT ![c] = s]
  BY <1>1, <1>2, <1>4 DEF StateTypes, States
<1>6. b \in BOOLEAN /\ state[c] \in States
  BY <1>1, <1>2 DEF StateTypes, States
<1> HIDE DEF b
<1>7. s \in States /\ s.attached = state[c].attached /\ s.preserved = state[c].preserved
  BY <1>6 DEF States
<1> HIDE DEF s
<1>8. StateTypes' /\ attached' = attached /\ preserved' = preserved
  <2>1. CASE state' = state
    BY <1>1, <2>1, Same DEF StateTypes
  <2>2. CASE state' = [state EXCEPT ![c] = s]
    BY <1>1, <1>2, <1>7, <2>2, StateReads
  <2> QED BY <1>5, <2>1, <2>2
<1>9. WireTypes'
  <2>1. wire \in Seq(Records)
    BY <1>1 DEF WireTypes
  <2>2. <<r>> \o wire \in Seq(Records)
    BY <1>2, <2>1
  <2> QED BY <1>1, <1>3, <2>1, <2>2 DEF WireTypes
<1>10. QueueTypes' /\ turnSeq' \in Int /\ recovery' \in Modes /\ tombstones' \subseteq Nat \X Calls
  BY <1>1, <1>3 DEF QueueTypes, LeaseTypes
<1> QED BY <1>3, <1>8, <1>9, <1>10, Same, RecordsStep

-------------------------------------------------------------------------------
(* The invariant, and what it says of every behaviour.                      *)

LEMMA Initially == Init => IInv
<1> SUFFICES ASSUME Init PROVE IInv OBVIOUS
<1>1. \A c \in Calls : /\ attached[c] = FALSE /\ preserved[c] = FALSE /\ closed[c] = FALSE
                       /\ ~IsCurrent(c)
  BY FreshStateType DEF Init, attached, preserved, closed, IsCurrent
<1>2. LeaseTypes /\ RequestTypes
  BY DEF Init, LeaseTypes, RequestTypes, Modes
<1>3. StateTypes
  BY FreshStateType DEF Init, StateTypes
<1>4. QueueTypes
  BY DEF Init, QueueTypes, Queues
<1>5. WireTypes
  BY DEF Init, WireTypes
<1>6. ClientTypes
  <2>1. FreshClient \in Clients
    BY DEF FreshClient, Clients, Results
  <2> QED BY <2>1 DEF Init, ClientTypes
<1>7. TypeOK
  BY <1>2, <1>3, <1>4, <1>5, <1>6, TypeParts
<1>8. Lease
  BY DEF Init, Lease
<1>9. ASSUME NEW c \in Calls PROVE PerCall(c)
  <2>1. /\ client[c].pc = "idle" /\ ~client[c].ran /\ client[c].fin = "none"
        /\ post[c] = "none" /\ \A p \in Purposes : delete[c][p] = "none"
    BY DEF Init, FreshClient, Purposes
  <2> QED BY <1>1, <2>1 DEF PerCall, Registration, Progress, Deregistered, Forgotten, Purposes
<1> QED BY <1>7, <1>8, <1>9 DEF IInv

LEMMA Stutter ==
  ASSUME IInv, UNCHANGED vars
  PROVE  IInv'
<1>1. LeaseTypes /\ StateTypes /\ QueueTypes /\ WireTypes
  BY TypeParts DEF IInv
<1>2. UNCHANGED <<collectorVars, piVars, client, post, delete, faults>>
  BY DEF vars, requestVars
<1>3. /\ turnSeq' \in Int /\ recovery' \in Modes /\ tombstones' \subseteq Nat \X Calls
      /\ WireTypes' /\ StateTypes' /\ QueueTypes'
  BY <1>1, <1>2, CollectorSame DEF LeaseTypes, StateTypes, QueueTypes, WireTypes, piVars
<1> QED BY <1>2, <1>3, CollectorSame, RecordsStep

LEMMA NextStep == IInv /\ [Next]_vars => IInv'
<1> SUFFICES ASSUME IInv, [Next]_vars PROVE IInv'
  OBVIOUS
<1>1. ASSUME NEW c \in Calls, Handler(c) PROVE IInv'
  BY <1>1, RegisterStep, RegisterTimesOutStep, DeregisterWaitsStep, DeregisterStep, Zenon DEF Handler
<1>2. ASSUME NEW c \in Calls, Sdk(c) PROVE IInv'
  BY <1>2, StartStep, RegisteredStep, RegistrationFailsStep, ReturnsStep, OutcomeEndsStep,
     FinalizerEndsStep, CompensationEndsStep, Zenon DEF Sdk
<1>3. ASSUME NEW c \in Calls,
             StreamAttaches(c) \/ StreamReads(c) \/ StreamDetaches(c) \/ ConsumerLeaves(c)
      PROVE  IInv'
  BY <1>3, StreamAttachesStep, StreamReadsStep, StreamDetachesStep, ConsumerLeavesStep, Zenon
<1>4. CASE Route \/ PutEnds \/ PutCancelled
  BY <1>4, RouteStep, PutEndsStep, PutCancelledStep, Zenon
<1>5. CASE UNCHANGED vars
  BY <1>5, Stutter, Zenon
<1> QED BY <1>1, <1>2, <1>3, <1>4, <1>5, Zenon DEF Next

\* IInv is inductive: it holds in every state of the specification.
THEOREM Invariance == Spec => []IInv
<1> HIDE DEF IInv, vars
<1> QED BY Initially, NextStep, PTL DEF Spec

\* The collector's tables, the SDK's calls and the records between them have their types;
\* no queue holds more than its limit (_AtofRecordQueue).
THEOREM TypeCorrect == Spec => []TypeOK
<1>1. IInv => TypeOK
  BY DEF IInv
<1> HIDE DEF IInv, TypeOK
<1> QED BY <1>1, Invariance, PTL

\* The invocation that runs holds the boundary lease and is the one records are routed to:
\* no late, repeated or foreign deregistration ends it (deregister, boundary_generation).
THEOREM RunningKeepsLease == Spec => []RunningHoldsLease
<1>1. ASSUME IInv, NEW c \in Calls, Running(c)
      PROVE  owner = c /\ routed = {c} /\ IsCurrent(c)
  <2>1. c \in routed
    BY <1>1 DEF IInv, PerCall, Progress, Running
  <2> QED BY <1>1, <2>1 DEF IInv, Lease
<1>2. IInv => RunningHoldsLease
  BY <1>1 DEF RunningHoldsLease
<1> HIDE DEF IInv, RunningHoldsLease
<1> QED BY <1>2, Invariance, PTL

\* A call the SDK has forgotten has left nothing in the collector but a stream that has yet
\* to end (_finish_stream_cleanup_phase, deregister, detach_stream).
THEOREM NothingIsLeft == Spec => []ForgottenLeavesNothing
<1>1. ASSUME IInv, NEW c \in Calls, Ended(c), ~client[c].known,
             client[c].ran \/ delete[c].outcome = "done"
      PROVE  owner # c /\ c \notin routed /\ (IsCurrent(c) => state[c].attached)
  <2>1. Forgotten(c) /\ Deregistered(c) /\ Lease
    BY <1>1 DEF IInv, PerCall
  <2>2. delete[c]["outcome"] = "done" => c \notin routed
    BY <2>1 DEF Deregistered
  <2>3. c \notin routed
    BY <1>1, <2>1, <2>2 DEF Forgotten, Deregistered, Lease, Ended
  <2>4. IsCurrent(c) => attached[c]
    BY <1>1, <2>1 DEF Forgotten, Deregistered, Ended
  <2>5. owner # c
    BY <2>1, <2>3 DEF Lease
  <2> QED BY <2>3, <2>4, <2>5 DEF attached
<1>2. IInv => ForgottenLeavesNothing
  BY <1>1 DEF ForgottenLeavesNothing
<1> HIDE DEF IInv, ForgottenLeavesNothing
<1> QED BY <1>2, Invariance, PTL

-------------------------------------------------------------------------------
(* The windows: which records are still to come, and what keeps them from the
   calls they are not of. *)

\* The publisher sends one call after the other, and each completion last.
Before(a, b) == a.of < b.of \/ (a.of = b.of /\ a.kind # "settled")
Ordered(s) == \A i, j \in DOMAIN s : i < j => Before(s[i], s[j])
In(s) == {s[i] : i \in DOMAIN s}

\* The records that are to be read, or to be put.
Pending == In(wire) \cup (IF blocked = <<>> THEN {} ELSE {blocked[1]})

\* No call up to d was released without a fence.
Clean(d) == \A b \in 1..d : ~Released(b)

\* The calls follow each other; one that ran is not routed when a later one registers.
OneByOne ==
  \A c \in Calls :
    /\ client[c].pc # "idle" => \A d \in 1..(c - 1) : Ended(d)
    /\ client[c].pc \in {"idle", "registering", "running"} => client[c].result = "none"
    /\ client[c].result = "counted" => client[c].ran
    /\ client[c].ran => \A d \in Calls : d > c /\ post[d] = "ready" => c \notin routed

Order ==
  /\ Ordered(wire)
  /\ blocked # <<>> => \A r \in In(wire) : Before(blocked[1], r)

\* Who sent them, and that the count a result says is beyond its turns.
Sent ==
  \A r \in Pending :
    /\ client[r.of].ran
    /\ r.kind = "turn" =>
         /\ r.seq < turns
         /\ \A c \in Calls : r.of <= c /\ client[c].result = "counted" => r.seq < client[c].count

\* What the state of the call that has the lease says of it.
OwnerState ==
  owner # None =>
    /\ state[owner].prior = turnSeq /\ state[owner].recovery = recovery
    /\ state[owner].started \/ state[owner].seen => state[owner].ready
    /\ blocked # <<>> /\ blocked[2] = owner => state[owner].ready
    /\ client[owner].pc = "registering" /\ state[owner].ready => ~Clean(owner)

\* A call that registers now would not accept r before a record of its own.
Fence(r) ==
  recovery # "unknown" =>
    /\ r.kind = "turn" => r.seq <= turnSeq
    /\ r.kind = "settled" => recovery = "known" \/ r.seq < turnSeq \/ Key(r) \in tombstones

Fenced ==
  \A r \in Pending : Clean(r.of) =>
    IF r.of = owner THEN ~state[owner].seen
    ELSE Fence(r) /\ (owner # None => ~state[owner].ready)

Delivered ==
  /\ blocked # <<>> => /\ post[blocked[2]] = "ready"
                       /\ blocked[1].of = blocked[2] \/ ~Clean(blocked[1].of)
  /\ \A c \in Calls : \A r \in In(queue[c].records) : r.of = c \/ ~Clean(r.of)

Windows == OneByOne /\ Order /\ Sent /\ OwnerState /\ Fenced /\ Delivered

\* Sequences of records, and the records in them.
LEMMA InTail ==
  ASSUME NEW s \in Seq(Records), s # <<>>
  PROVE  /\ Head(s) \in In(s) /\ In(Tail(s)) \subseteq In(s)
         /\ Ordered(s) => Ordered(Tail(s)) /\ \A x \in In(Tail(s)) : Before(Head(s), x)
<1>1. /\ Len(s) \in Nat /\ Len(s) >= 1 /\ DOMAIN s = 1..Len(s) /\ Head(s) = s[1]
      /\ DOMAIN Tail(s) = 1..(Len(s) - 1) /\ \A i \in 1..(Len(s) - 1) : Tail(s)[i] = s[i + 1]
  OBVIOUS
<1>2. Head(s) \in In(s) /\ In(Tail(s)) \subseteq In(s)
  <2>1. \A i \in 1..(Len(s) - 1) : i + 1 \in 1..Len(s)
    BY <1>1
  <2> QED BY <1>1, <2>1 DEF In
<1>3. ASSUME Ordered(s) PROVE Ordered(Tail(s))
  <2> SUFFICES ASSUME NEW i \in 1..(Len(s) - 1), NEW j \in 1..(Len(s) - 1), i < j
               PROVE  Before(Tail(s)[i], Tail(s)[j])
    BY <1>1 DEF Ordered
  <2>1. i + 1 \in 1..Len(s) /\ j + 1 \in 1..Len(s) /\ i + 1 < j + 1
    BY <1>1
  <2> QED BY <1>1, <1>3, <2>1 DEF Ordered
<1>4. ASSUME Ordered(s), NEW x \in In(Tail(s)) PROVE Before(Head(s), x)
  <2>1. PICK i \in 1..(Len(s) - 1) : x = s[i + 1]
    BY <1>1, <1>4 DEF In
  <2>2. 1 \in 1..Len(s) /\ i + 1 \in 1..Len(s) /\ 1 < i + 1
    BY <1>1
  <2> QED BY <1>1, <1>4, <2>1, <2>2 DEF Ordered
<1> QED BY <1>2, <1>3, <1>4

LEMMA InJoin ==
  ASSUME NEW s \in Seq(Records), NEW t \in Seq(Records)
  PROVE  /\ In(s \o t) = In(s) \cup In(t)
         /\ Ordered(s) /\ Ordered(t) /\ (\A x \in In(s), y \in In(t) : Before(x, y))
              => Ordered(s \o t)
<1>1. /\ Len(s) \in Nat /\ DOMAIN s = 1..Len(s) /\ Len(t) \in Nat /\ DOMAIN t = 1..Len(t)
      /\ DOMAIN (s \o t) = 1..(Len(s) + Len(t))
      /\ \A i \in 1..(Len(s) + Len(t)) : (s \o t)[i] = IF i <= Len(s) THEN s[i] ELSE t[i - Len(s)]
  OBVIOUS
<1>2. In(s \o t) \subseteq In(s) \cup In(t)
  <2> SUFFICES ASSUME NEW i \in 1..(Len(s) + Len(t)) PROVE (s \o t)[i] \in In(s) \cup In(t)
    BY <1>1 DEF In
  <2>1. i <= Len(s) => i \in 1..Len(s)
    BY <1>1
  <2>2. ~(i <= Len(s)) => i - Len(s) \in 1..Len(t)
    BY <1>1
  <2> QED BY <1>1, <2>1, <2>2 DEF In
<1>3. In(s) \subseteq In(s \o t)
  <2>1. \A i \in 1..Len(s) : i \in 1..(Len(s) + Len(t)) /\ i <= Len(s)
    BY <1>1
  <2> QED BY <1>1, <2>1 DEF In
<1>4. In(t) \subseteq In(s \o t)
  <2> SUFFICES ASSUME NEW i \in 1..Len(t) PROVE t[i] \in In(s \o t)
    BY <1>1 DEF In
  <2>1. i + Len(s) \in 1..(Len(s) + Len(t)) /\ ~(i + Len(s) <= Len(s)) /\ i + Len(s) - Len(s) = i
    BY <1>1
  <2> QED BY <1>1, <2>1 DEF In
<1>5. ASSUME Ordered(s), Ordered(t), \A x \in In(s), y \in In(t) : Before(x, y)
      PROVE  Ordered(s \o t)
  <2> SUFFICES ASSUME NEW i \in 1..(Len(s) + Len(t)), NEW j \in 1..(Len(s) + Len(t)), i < j
               PROVE  Before((s \o t)[i], (s \o t)[j])
    BY <1>1 DEF Ordered
  <2>1. CASE j <= Len(s)
    <3>1. i \in 1..Len(s) /\ j \in 1..Len(s) /\ i <= Len(s)
      BY <1>1, <2>1
    <3> QED BY <1>1, <1>5, <2>1, <3>1 DEF Ordered
  <2>2. CASE i <= Len(s) /\ ~(j <= Len(s))
    <3>1. i \in 1..Len(s) /\ j - Len(s) \in 1..Len(t)
      BY <1>1, <2>2
    <3> QED BY <1>1, <1>5, <2>2, <3>1 DEF In
  <2>3. CASE ~(i <= Len(s))
    <3>1. i - Len(s) \in 1..Len(t) /\ j - Len(s) \in 1..Len(t) /\ ~(j <= Len(s))
          /\ i - Len(s) < j - Len(s)
      BY <1>1, <2>3
    <3> QED BY <1>1, <1>5, <2>3, <3>1 DEF Ordered
  <2> QED BY <2>1, <2>2, <2>3
<1> QED BY <1>2, <1>3, <1>4, <1>5

LEMMA OneRecord ==
  ASSUME NEW r \in Records
  PROVE  <<r>> \in Seq(Records) /\ In(<<r>>) = {r} /\ Ordered(<<r>>)
<1>1. <<r>> \in Seq(Records) /\ DOMAIN <<r>> = {1} /\ <<r>>[1] = r
  OBVIOUS
<1> QED BY <1>1 DEF In, Ordered

LEMMA NoRecord == <<>> \in Seq(Records) /\ In(<<>>) = {} /\ Ordered(<<>>)
BY DEF In, Ordered

LEMMA InPut ==
  ASSUME NEW s \in Seq(Records), NEW r \in Records
  PROVE  In(Append(s, r)) = In(s) \cup {r}
<1>1. Append(s, r) = s \o <<r>>
  OBVIOUS
<1> QED BY <1>1, InJoin, OneRecord

-------------------------------------------------------------------------------
(* What changes the windows, and what does not.                              *)

LEMMA PendingType ==
  ASSUME WireTypes
  PROVE  /\ In(wire) \subseteq Records /\ Pending \subseteq Records
         /\ \A r \in Pending : r.of \in Calls /\ r.seq \in Nat
<1>1. In(wire) \subseteq Records
  BY DEF In, WireTypes
<1>2. blocked # <<>> => blocked[1] \in Records
  BY BlockedType
<1>3. Pending \subseteq Records
  BY <1>1, <1>2 DEF Pending
<1> QED BY <1>1, <1>3 DEF Records

LEMMA DeliveredType ==
  ASSUME TypeOK, NEW c \in Calls
  PROVE  queue[c].records \in Seq(Records) /\ \A r \in In(queue[c].records) : r \in Records /\ r.of \in Calls
<1>1. queue[c].records \in Seq(Records)
  BY TypeParts DEF QueueTypes, Queues
<1>2. In(queue[c].records) \subseteq Records
  BY <1>1 DEF In
<1> QED BY <1>1, <1>2 DEF Records

\* A release is never taken back.
LEMMA CleanStays ==
  ASSUME \A d \in Calls : Released(d) => Released(d)', NEW e \in Calls
  PROVE  Clean(e)' => Clean(e)
BY DEF Clean

LEMMA CleanBefore ==
  ASSUME NEW a \in Records, NEW b \in Records, Before(a, b), Clean(b.of)
  PROVE  Clean(a.of)
BY DEF Before, Records, Clean

\* Fences are not lowered.
LEMMA FenceStays ==
  ASSUME LeaseTypes, NEW r \in Records, Fence(r), turnSeq' \in Int, turnSeq <= turnSeq',
         tombstones \subseteq tombstones',
         \/ recovery' \in {recovery, "unknown"}
         \/ recovery # "unknown" /\ recovery' = "known"
  PROVE  Fence(r)'
<1>1. r.seq \in Int /\ turnSeq \in Int
  BY DEF Records, LeaseTypes
<1> QED BY <1>1 DEF Fence, Key

SameMarks(c) ==
  /\ state'[c].prior = state[c].prior /\ state'[c].recovery = state[c].recovery
  /\ state'[c].started = state[c].started /\ state'[c].seen = state[c].seen
  /\ state'[c].ready = state[c].ready

\* Steps that neither move records nor change a lease.
LEMMA QuietStep ==
  ASSUME IInv, Windows, UNCHANGED <<client, wire, turns, blocked, owner, turnSeq, recovery, tombstones>>,
         routed' \subseteq routed,
         \A c \in Calls : post'[c] = "ready" <=> post[c] = "ready",
         owner # None => SameMarks(owner),
         \A c \in Calls : In(queue'[c].records) \subseteq In(queue[c].records)
  PROVE  Windows'
<1>1. WireTypes /\ Pending' = Pending
  BY TypeParts DEF IInv, Pending, In
<1>2. \A d : Clean(d)' <=> Clean(d)
  BY DEF Clean, Released
<1>3. OneByOne'
  BY DEF Windows, OneByOne, Ended
<1>4. Order'
  BY DEF Windows, Order, Ordered, Before, In
<1>5. Sent'
  BY <1>1 DEF Windows, Sent
<1>6. OwnerState'
  BY <1>2 DEF Windows, OwnerState, SameMarks
<1>7. Fenced'
  <2> SUFFICES ASSUME NEW r \in Pending, Clean(r.of)
               PROVE  IF r.of = owner THEN ~state'[owner].seen
                      ELSE Fence(r)' /\ (owner # None => ~state'[owner].ready)
    BY <1>1, <1>2 DEF Fenced
  <2>1. Fence(r)' <=> Fence(r)
    BY DEF Fence, Key
  <2>2. r.of # None
    BY <1>1, PendingType
  <2> QED BY <2>1, <2>2 DEF Windows, Fenced, SameMarks
<1>8. Delivered'
  <2>1. blocked # <<>> => blocked[2] \in Calls
    BY <1>1, BlockedType
  <2> QED BY <1>2, <2>1 DEF Windows, Delivered, In
<1> QED BY <1>3, <1>4, <1>5, <1>6, <1>7, <1>8 DEF Windows

\* Steps of the SDK that send nothing to Pi, with what they may change of the call.
LEMMA SdkWindows ==
  ASSUME IInv, Windows, NEW c \in Calls, NEW k \in Clients, client' = [client EXCEPT ![c] = k],
         UNCHANGED <<collectorVars, piVars>>,
         \A d \in Calls : post'[d] = "ready" <=> post[d] = "ready",
         k.ran = client[c].ran, Ended(c) => k.pc = "ended",
         \/ k.result = client[c].result /\ k.count = client[c].count
         \/ client[c].result = "none" /\ (k.result = "counted" => k.ran /\ k.count = turns),
         k.pc \in {"idle", "registering", "running"} => k.result = "none",
         k.pc # "idle" => \A d \in 1..(c - 1) : Ended(d),
         k.pc = "registering" => client[c].pc = "registering" \/ owner # c
  PROVE  Windows'
<1>1. WireTypes /\ ClientTypes /\ Pending' = Pending
  BY TypeParts, CollectorSame DEF IInv, Pending, In, piVars
<1>2. \A d \in Calls : client'[d] = IF d = c THEN k ELSE client[d]
  BY <1>1, ClientAt
<1>3. \A d \in Calls : Released(d) => Released(d)'
  BY <1>2 DEF Released
<1>4. \A r \in Pending : r.of \in Calls /\ r.seq \in Nat
  BY <1>1, PendingType
<1>5. UNCHANGED <<state, queue, routed, owner, turnSeq, recovery, tombstones, blocked, wire, turns>>
  BY CollectorSame DEF piVars
<1>6. OneByOne'
  <2> SUFFICES ASSUME NEW e \in Calls
               PROVE  /\ client'[e].pc # "idle" => \A d \in 1..(e - 1) : Ended(d)'
                      /\ client'[e].pc \in {"idle", "registering", "running"} => client'[e].result = "none"
                      /\ client'[e].result = "counted" => client'[e].ran
                      /\ client'[e].ran => \A d \in Calls : d > e /\ post'[d] = "ready" => e \notin routed'
    BY DEF OneByOne
  <2>1. \A d \in Calls : Ended(d) => Ended(d)'
    BY <1>2 DEF Ended
  <2>2. client'[e].pc # "idle" => \A d \in 1..(e - 1) : Ended(d)'
    <3>1. client'[e].pc # "idle" => \A d \in 1..(e - 1) : Ended(d)
      BY <1>2 DEF Windows, OneByOne
    <3>2. \A d \in 1..(e - 1) : d \in Calls
      OBVIOUS
    <3> QED BY <2>1, <3>1, <3>2
  <2>3. client'[e].pc \in {"idle", "registering", "running"} => client'[e].result = "none"
    BY <1>2 DEF Windows, OneByOne
  <2>4. client'[e].result = "counted" => client'[e].ran
    BY <1>2 DEF Windows, OneByOne
  <2>5. client'[e].ran => \A d \in Calls : d > e /\ post'[d] = "ready" => e \notin routed'
    BY <1>2, <1>5 DEF Windows, OneByOne
  <2> QED BY <2>2, <2>3, <2>4, <2>5
<1>7. Order'
  BY <1>5 DEF Windows, Order, Ordered, Before, In
<1>8. Sent'
  <2> SUFFICES ASSUME NEW r \in Pending
               PROVE  /\ client'[r.of].ran
                      /\ r.kind = "turn" =>
                           /\ r.seq < turns
                           /\ \A e \in Calls : r.of <= e /\ client'[e].result = "counted"
                                => r.seq < client'[e].count
    BY <1>1, <1>5 DEF Sent
  <2> QED BY <1>2, <1>4 DEF Windows, Sent
<1>9. OwnerState'
  <2> SUFFICES ASSUME owner # None PROVE OwnerState'
    BY <1>5 DEF OwnerState
  <2>1. owner \in Calls /\ \A e \in Calls : Clean(e)' => Clean(e)
    BY <1>3, CleanStays, TypeParts DEF IInv, LeaseTypes
  <2>2. client'[owner].pc = "registering" => client[owner].pc = "registering"
    BY <1>2, <2>1
  <2> QED BY <1>5, <2>1, <2>2 DEF Windows, OwnerState
<1>10. Fenced'
  <2>1. \A r : Fence(r)' <=> Fence(r)
    BY <1>5 DEF Fence, Key
  <2>2. \A r \in Pending : Clean(r.of)' => Clean(r.of)
    BY <1>3, <1>4, CleanStays
  <2> QED BY <1>1, <1>5, <2>1, <2>2 DEF Windows, Fenced
<1>11. Delivered'
  <2>1. blocked # <<>> => blocked[2] \in Calls /\ blocked[1].of \in Calls
    BY <1>1, BlockedType DEF Records
  <2>2. \A e \in Calls : \A r \in In(queue[e].records) : r.of \in Calls
    BY DeliveredType DEF IInv
  <2> QED BY <1>3, <1>5, <2>1, <2>2, CleanStays DEF Windows, Delivered, In
<1> QED BY <1>6, <1>7, <1>8, <1>9, <1>10, <1>11 DEF Windows

LEMMA SdkKeeps ==
  ASSUME IInv, Windows, NEW c \in Calls, NEW k \in Clients, client' = [client EXCEPT ![c] = k],
         UNCHANGED <<collectorVars, piVars, post>>,
         k.ran = client[c].ran, k.result = client[c].result, k.count = client[c].count,
         \/ k.pc = client[c].pc
         \/ /\ client[c].pc \in {"outcome", "waiting", "compensating"}
            /\ k.pc \in {"waiting", "compensating", "ended"}
  PROVE  Windows'
<1>1. Ended(c) => k.pc = "ended"
  BY DEF Ended
<1>2. k.pc \in {"idle", "registering", "running"} => k.result = "none"
  BY DEF Windows, OneByOne
<1>3. k.pc # "idle" => \A d \in 1..(c - 1) : Ended(d)
  BY DEF Windows, OneByOne
<1> QED BY <1>1, <1>2, <1>3, SdkWindows

LEMMA StartWindows ==
  ASSUME IInv, Windows, NEW c \in Calls, Start(c)
  PROVE  Windows'
<1>1. ClientTypes /\ RequestTypes /\ client[c] \in Clients /\ PerCall(c)
  BY TypeParts DEF IInv, ClientTypes
<1>2. PICK streamed \in BOOLEAN : client' = [client EXCEPT ![c] =
         [FreshClient EXCEPT !.pc = "registering", !.stream = streamed, !.known = TRUE]]
  BY DEF Start
<1> DEFINE k == [FreshClient EXCEPT !.pc = "registering", !.stream = streamed, !.known = TRUE]
<1>3. k \in Clients /\ k.pc = "registering" /\ k.ran = FALSE /\ k.result = "none"
  BY DEF Clients, FreshClient, Results
<1>4. client' = [client EXCEPT ![c] = k]
  BY <1>2
<1> HIDE DEF k
<1>5. /\ UNCHANGED <<collectorVars, piVars>> /\ post' = [post EXCEPT ![c] = "sent"]
      /\ client[c].pc = "idle" /\ \A d \in 1..(c - 1) : Ended(d)
  BY DEF Start
<1>6. post[c] = "none" /\ client[c].ran = FALSE /\ client[c].result = "none"
  BY <1>1, <1>5 DEF PerCall, Progress, Windows, OneByOne, Clients
<1>7. \A d \in Calls : post'[d] = "ready" <=> post[d] = "ready"
  BY <1>1, <1>5, <1>6 DEF RequestTypes
<1>8. ~Ended(c)
  BY <1>5 DEF Ended
<1>9. owner # c
  BY <1>1, <1>6 DEF IInv, Lease, PerCall, Registration
<1> QED BY <1>3, <1>4, <1>5, <1>6, <1>7, <1>8, <1>9, SdkWindows

LEMMA RegistrationFailsWindows ==
  ASSUME IInv, Windows, NEW c \in Calls, RegistrationFails(c)
  PROVE  Windows'
<1>1. client[c] \in Clients
  BY TypeParts DEF IInv, ClientTypes
<1> DEFINE k == [client[c] EXCEPT !.pc = "outcome", !.result = "failed"]
<1>2. k \in Clients /\ k.pc = "outcome" /\ k.result = "failed" /\ k.ran = client[c].ran
  BY <1>1 DEF Clients, Results
<1>3. /\ client' = [client EXCEPT ![c] = k] /\ UNCHANGED <<collectorVars, piVars, post>>
      /\ client[c].pc = "registering"
  BY DEF RegistrationFails
<1> HIDE DEF k
<1>4. client[c].result = "none" /\ (\A d \in 1..(c - 1) : Ended(d)) /\ ~Ended(c)
  BY <1>3 DEF Windows, OneByOne, Ended
<1> QED BY <1>2, <1>3, <1>4, SdkWindows

LEMMA ReturnsWindows ==
  ASSUME IInv, Windows, NEW c \in Calls, Returns(c)
  PROVE  Windows'
<1>1. WireTypes /\ ClientTypes /\ client[c] \in Clients /\ PerCall(c)
  BY TypeParts DEF IInv, ClientTypes
<1>2. PICK r \in Results \ {"none"} :
        client' = [client EXCEPT ![c].pc = "outcome", ![c].result = r, ![c].count = turns]
  BY DEF Returns
<1> DEFINE k == [client[c] EXCEPT !.pc = "outcome", !.result = r, !.count = turns]
<1>3. k \in Clients /\ k.pc = "outcome" /\ k.ran = client[c].ran /\ k.count = turns
  BY <1>1 DEF Clients, WireTypes
<1>4. client' = [client EXCEPT ![c] = k]
  BY <1>1, <1>2 DEF ClientTypes
<1> HIDE DEF k
<1>5. UNCHANGED <<collectorVars, piVars, post>> /\ client[c].pc = "running"
  BY DEF Returns, Running
<1>6. /\ client[c].result = "none" /\ (\A d \in 1..(c - 1) : Ended(d)) /\ ~Ended(c)
      /\ client[c].ran
  BY <1>1, <1>5 DEF Windows, OneByOne, Ended, PerCall, Progress
<1> QED BY <1>3, <1>4, <1>5, <1>6, SdkWindows

LEMMA CompensationEndsWindows ==
  ASSUME IInv, Windows, NEW c \in Calls, CompensationEnds(c)
  PROVE  Windows'
<1>1. client[c] \in Clients
  BY TypeParts DEF IInv, ClientTypes
<1> DEFINE b == ~(faults' = faults)
           k == [client[c] EXCEPT !.pc = "ended", !.known = b]
<1>2. /\ client' = [client EXCEPT ![c] = k] /\ UNCHANGED <<collectorVars, piVars, post>>
      /\ client[c].pc = "compensating"
  BY DEF CompensationEnds, requestVars
<1>3. b \in BOOLEAN
  OBVIOUS
<1> HIDE DEF b
<1>4. k \in Clients /\ k.pc = "ended" /\ k.ran = client[c].ran /\ k.result = client[c].result
      /\ k.count = client[c].count
  BY <1>1, <1>3 DEF Clients
<1> HIDE DEF k
<1> QED BY <1>2, <1>4, SdkKeeps

LEMMA BothFinishedWindows ==
  ASSUME IInv, Windows, NEW c \in Calls, NEW k \in Clients, NEW ok, BothFinished(c, k, ok),
         UNCHANGED <<collectorVars, piVars, post>>,
         k.ran = client[c].ran, k.result = client[c].result, k.count = client[c].count,
         client[c].pc \in {"outcome", "waiting"}
  PROVE  Windows'
<1> DEFINE n == [k EXCEPT !.pc = "ended", !.known = FALSE]
           m == [k EXCEPT !.pc = "compensating"]
<1>1. /\ n \in Clients /\ n.pc = "ended" /\ n.ran = k.ran /\ n.result = k.result /\ n.count = k.count
      /\ m \in Clients /\ m.pc = "compensating" /\ m.ran = k.ran /\ m.result = k.result
      /\ m.count = k.count
  BY DEF Clients
<1>2. client' = [client EXCEPT ![c] = n] \/ client' = [client EXCEPT ![c] = m]
  BY DEF BothFinished
<1> HIDE DEF n, m
<1> QED BY <1>1, <1>2, SdkKeeps

LEMMA OutcomeEndsWindows ==
  ASSUME IInv, Windows, NEW c \in Calls, OutcomeEnds(c)
  PROVE  Windows'
<1>1. client[c] \in Clients
  BY TypeParts DEF IInv, ClientTypes
<1> DEFINE ok == faults' = faults
           b == ~ok
           f == client[c].failed \/ ~ok
           k == [client[c] EXCEPT !.pc = "ended", !.known = b]
           n == [client[c] EXCEPT !.pc = "waiting", !.failed = f]
<1>2. UNCHANGED <<collectorVars, piVars, post>> /\ client[c].pc = "outcome"
  BY DEF OutcomeEnds
<1>3. \/ client' = [client EXCEPT ![c] = k]
      \/ BothFinished(c, client[c], ok)
      \/ client' = [client EXCEPT ![c] = n]
  BY DEF OutcomeEnds
<1>4. b \in BOOLEAN /\ f \in BOOLEAN
  BY <1>1 DEF Clients
<1> HIDE DEF ok, b, f
<1>5. /\ k \in Clients /\ k.pc = "ended" /\ k.ran = client[c].ran /\ k.result = client[c].result
      /\ k.count = client[c].count
      /\ n \in Clients /\ n.pc = "waiting" /\ n.ran = client[c].ran /\ n.result = client[c].result
      /\ n.count = client[c].count
  BY <1>1, <1>4 DEF Clients
<1> HIDE DEF k, n
<1> QED BY <1>1, <1>2, <1>3, <1>5, SdkKeeps, BothFinishedWindows

LEMMA FinalizerEndsWindows ==
  ASSUME IInv, Windows, NEW c \in Calls, FinalizerEnds(c)
  PROVE  Windows'
<1>1. client[c] \in Clients
  BY TypeParts DEF IInv, ClientTypes
<1> DEFINE ok == faults' = faults
           k == [client[c] EXCEPT !.fin = "ended"]
           f == k.failed \/ ~ok
           n == [k EXCEPT !.failed = f]
<1>2. UNCHANGED <<collectorVars, piVars, post>>
  BY DEF FinalizerEnds
<1>3. /\ k \in Clients /\ k.pc = client[c].pc /\ k.ran = client[c].ran
      /\ k.result = client[c].result /\ k.count = client[c].count
  BY <1>1 DEF Clients
<1>4. IF k.pc = "waiting" THEN BothFinished(c, k, ok) ELSE client' = [client EXCEPT ![c] = n]
  BY DEF FinalizerEnds
<1>5. f \in BOOLEAN
  BY <1>3 DEF Clients
<1> HIDE DEF ok, k, f
<1>6. /\ n \in Clients /\ n.pc = k.pc /\ n.ran = k.ran /\ n.result = k.result /\ n.count = k.count
  BY <1>3, <1>5 DEF Clients
<1> HIDE DEF n
<1> QED BY <1>2, <1>3, <1>4, <1>6, SdkKeeps, BothFinishedWindows

LEMMA ConsumerLeavesWindows ==
  ASSUME IInv, Windows, NEW c \in Calls, ConsumerLeaves(c)
  PROVE  Windows'
<1>1. client[c] \in Clients
  BY TypeParts DEF IInv, ClientTypes
<1> DEFINE k == [client[c] EXCEPT !.fin = "sent"]
<1>2. client' = [client EXCEPT ![c] = k] /\ UNCHANGED <<collectorVars, piVars, post>>
  BY DEF ConsumerLeaves
<1>3. /\ k \in Clients /\ k.pc = client[c].pc /\ k.ran = client[c].ran
      /\ k.result = client[c].result /\ k.count = client[c].count
  BY <1>1 DEF Clients
<1> HIDE DEF k
<1> QED BY <1>2, <1>3, SdkKeeps

LEMMA ScriptRecords ==
  ASSUME WireTypes, NEW c \in Calls, NEW turn \in BOOLEAN, NEW kinds
  PROVE  /\ Script(c, turn, kinds) \in Seq(Records) /\ Ordered(Script(c, turn, kinds))
         /\ \A x \in In(Script(c, turn, kinds)) :
              /\ x \in Records /\ x.of = c /\ x.kind \in kinds
              /\ turn => x.seq = turns
<1> DEFINE seq == IF turn THEN turns ELSE IF turns = 0 THEN 0 ELSE turns - 1
           rec(k) == [kind |-> k, of |-> c, seq |-> seq]
           sent(k) == IF k \in kinds THEN <<rec(k)>> ELSE <<>>
<1>1. seq \in Nat /\ (turn => seq = turns)
  BY DEF WireTypes
<1> HIDE DEF seq
<1>2. \A k \in {"turn", "body", "settled"} :
        rec(k) \in Records /\ rec(k).kind = k /\ rec(k).of = c /\ rec(k).seq = seq
  BY <1>1 DEF Records
<1> HIDE DEF rec
<1>3. \A k \in {"turn", "body", "settled"} :
        /\ sent(k) \in Seq(Records) /\ Ordered(sent(k))
        /\ \A x \in In(sent(k)) : x = rec(k) /\ k \in kinds
  BY <1>2, OneRecord, NoRecord
<1> HIDE DEF sent
<1> DEFINE two == sent("turn") \o sent("body")
           all == two \o sent("settled")
<1>4. /\ two \in Seq(Records) /\ Ordered(two)
      /\ \A x \in In(two) : x \in {rec("turn"), rec("body")} /\ x.kind \in kinds
  <2>1. \A x \in In(sent("turn")), y \in In(sent("body")) : Before(x, y)
    BY <1>2, <1>3 DEF Before
  <2>2. two \in Seq(Records)
    BY <1>3
  <2>3. sent("turn") \in Seq(Records) /\ sent("body") \in Seq(Records)
    BY <1>3
  <2>4. /\ In(two) = In(sent("turn")) \cup In(sent("body"))
        /\ Ordered(two)
    <3> HIDE DEF two
    <3>1. Ordered(sent("turn")) /\ Ordered(sent("body"))
      BY <1>3
    <3> QED BY <2>1, <2>3, <3>1, InJoin DEF two
  <2>5. \A x \in In(two) : x \in {rec("turn"), rec("body")} /\ x.kind \in kinds
    BY <1>2, <1>3, <2>4
  <2> QED BY <2>2, <2>4, <2>5
<1> HIDE DEF two
<1>5. /\ all \in Seq(Records) /\ Ordered(all)
      /\ \A x \in In(all) : x \in {rec("turn"), rec("body"), rec("settled")} /\ x.kind \in kinds
  <2>1. \A x \in In(two), y \in In(sent("settled")) : Before(x, y)
    BY <1>2, <1>3, <1>4 DEF Before
  <2>2. all \in Seq(Records)
    BY <1>3, <1>4
  <2>3. sent("settled") \in Seq(Records) /\ Ordered(sent("settled"))
    BY <1>3
  <2>4. In(all) = In(two) \cup In(sent("settled")) /\ Ordered(all)
    <3> HIDE DEF all
    <3> QED BY <1>4, <2>1, <2>3, InJoin DEF all
  <2>5. \A x \in In(all) : x \in {rec("turn"), rec("body"), rec("settled")} /\ x.kind \in kinds
    BY <1>2, <1>3, <1>4, <2>4
  <2> QED BY <2>2, <2>4, <2>5
<1>6. Script(c, turn, kinds) = all
  BY DEF Script, all, two, sent, rec, seq
<1> HIDE DEF all
<1> QED BY <1>1, <1>2, <1>5, <1>6

\* Pi's records come after those of the calls before, which have all ended.
LEMMA RegisteredWindows ==
  ASSUME IInv, Windows, NEW c \in Calls, Registered(c)
  PROVE  Windows'
<1>1. /\ LeaseTypes /\ WireTypes /\ ClientTypes /\ RequestTypes /\ client[c] \in Clients /\ PerCall(c)
      /\ wire \in Seq(Records) /\ turns \in Nat
  BY TypeParts DEF IInv, ClientTypes, WireTypes
<1>2. PICK turn \in BOOLEAN :
        /\ client' = [client EXCEPT ![c].pc = "running", ![c].ran = TRUE, ![c].turn = turn]
        /\ PiRuns(c, turn)
  BY DEF Registered
<1>3. PICK kinds \in SUBSET (IF turn THEN {"turn", "body", "settled"} ELSE {"settled"}) :
        wire' = wire \o Script(c, turn, kinds)
  BY <1>2 DEF PiRuns
<1> DEFINE script == Script(c, turn, kinds)
<1>4. /\ script \in Seq(Records) /\ Ordered(script)
      /\ \A x \in In(script) : /\ x \in Records /\ x.of = c
                               /\ x.kind = "turn" => x.seq < turns'
  <2>1. turns' = IF turn THEN turns + 1 ELSE turns
    BY <1>2 DEF PiRuns
  <2>2. \A x \in In(script) : x.kind = "turn" => turn
    BY <1>1, ScriptRecords
  <2>3. turn => turns < turns'
    BY <1>1, <2>1
  <2> QED BY <1>1, <2>2, <2>3, ScriptRecords
<1>5. turns' \in Nat /\ turns <= turns'
  BY <1>1, <1>2 DEF PiRuns
<1> DEFINE k == [client[c] EXCEPT !.pc = "running", !.ran = TRUE, !.turn = turn]
<1>6. k \in Clients /\ k.pc = "running" /\ k.ran /\ k.result = client[c].result
  BY <1>1 DEF Clients
<1>7. client' = [client EXCEPT ![c] = k]
  BY <1>1, <1>2 DEF ClientTypes
<1> HIDE DEF k, script
<1>8. \A d \in Calls : client'[d] = IF d = c THEN k ELSE client[d]
  BY <1>1, <1>6, <1>7, ClientAt
<1>9. /\ client[c].pc = "registering" /\ post[c] = "ready" /\ ~client[c].ran
      /\ UNCHANGED <<state, queue, routed, owner, turnSeq, recovery, tombstones, blocked, post>>
  BY <1>1, CollectorSame DEF Registered, requestVars, PerCall, Progress
<1>10. c \in routed /\ owner = c
  BY <1>1, <1>9 DEF IInv, Lease, PerCall, Progress
<1>11. /\ client[c].result = "none" /\ \A d \in 1..(c - 1) : Ended(d)
       /\ \A d \in Calls : d > c => client[d].pc = "idle"
  <2>1. ASSUME NEW d \in Calls, d > c, client[d].pc # "idle" PROVE FALSE
    <3>1. c \in 1..(d - 1)
      BY <2>1
    <3> QED BY <1>9, <2>1, <3>1 DEF Windows, OneByOne, Ended
  <2> QED BY <1>9, <2>1 DEF Windows, OneByOne
<1>12. \A r \in Pending : r \in Records /\ r.of \in Calls /\ r.of < c
  <2> SUFFICES ASSUME NEW r \in Pending PROVE r \in Records /\ r.of \in Calls /\ r.of < c
    OBVIOUS
  <2>1. r \in Records /\ r.of \in Calls /\ client[r.of].ran
    BY <1>1, PendingType DEF Windows, Sent
  <2>2. client[r.of].pc # "idle"
    BY <2>1 DEF IInv, PerCall, Progress
  <2> QED BY <1>9, <1>11, <2>1, <2>2
<1>13. In(wire') = In(wire) \cup In(script)
  BY <1>1, <1>3, <1>4, InJoin DEF script
<1>14. Pending' = Pending \cup In(script)
  <2>1. Pending' = In(wire') \cup (IF blocked = <<>> THEN {} ELSE {blocked[1]})
    BY <1>9 DEF Pending, In
  <2> QED BY <1>13, <2>1 DEF Pending
<1>15. \A d \in Calls : /\ Released(d)' <=> Released(d)
                        /\ Clean(d)' <=> Clean(d)
  <2>1. \A d \in Calls : Released(d)' <=> Released(d)
    BY <1>6, <1>8, <1>9, <1>11 DEF Released
  <2> QED BY <2>1 DEF Clean
<1>16. OneByOne'
  <2> SUFFICES ASSUME NEW e \in Calls
               PROVE  /\ client'[e].pc # "idle" => \A d \in 1..(e - 1) : Ended(d)'
                      /\ client'[e].pc \in {"idle", "registering", "running"} => client'[e].result = "none"
                      /\ client'[e].result = "counted" => client'[e].ran
                      /\ client'[e].ran => \A d \in Calls : d > e /\ post'[d] = "ready" => e \notin routed'
    BY DEF OneByOne
  <2>1. \A d \in Calls : Ended(d) => Ended(d)'
    BY <1>6, <1>8, <1>9 DEF Ended
  <2>2. client'[e].pc # "idle" => \A d \in 1..(e - 1) : Ended(d)'
    <3>1. client'[e].pc # "idle" => \A d \in 1..(e - 1) : Ended(d)
      BY <1>8, <1>11 DEF Windows, OneByOne
    <3>2. \A d \in 1..(e - 1) : d \in Calls
      OBVIOUS
    <3> QED BY <2>1, <3>1, <3>2
  <2>3. client'[e].pc \in {"idle", "registering", "running"} => client'[e].result = "none"
    BY <1>6, <1>8, <1>11 DEF Windows, OneByOne
  <2>4. client'[e].result = "counted" => client'[e].ran
    BY <1>6, <1>8, <1>11 DEF Windows, OneByOne
  <2>5. client'[e].ran => \A d \in Calls : d > e /\ post'[d] = "ready" => e \notin routed'
    <3>1. CASE e = c
      <4>1. \A d \in Calls : d > c => post[d] = "none"
        BY <1>11 DEF IInv, PerCall, Progress
      <4> QED BY <1>9, <3>1, <4>1
    <3>2. CASE e # c
      BY <1>8, <1>9, <3>2 DEF Windows, OneByOne
    <3> QED BY <3>1, <3>2
  <2> QED BY <2>2, <2>3, <2>4, <2>5
<1>17. Order'
  <2>1. \A x \in Pending, y \in In(script) : Before(x, y)
    BY <1>4, <1>12 DEF Before
  <2>2. In(wire) \subseteq Pending /\ (blocked # <<>> => blocked[1] \in Pending)
    BY DEF Pending
  <2>3. Ordered(wire')
    BY <1>1, <1>3, <1>4, <2>1, <2>2, InJoin DEF Windows, Order, script
  <2>4. blocked # <<>> => \A r \in In(wire') : Before(blocked[1], r)
    BY <1>13, <2>1, <2>2 DEF Windows, Order
  <2> QED BY <1>9, <2>3, <2>4 DEF Order, Ordered, Before, In
<1>18. Sent'
  <2> SUFFICES ASSUME NEW r \in Pending'
               PROVE  /\ client'[r.of].ran
                      /\ r.kind = "turn" =>
                           /\ r.seq < turns'
                           /\ \A e \in Calls : r.of <= e /\ client'[e].result = "counted"
                                => r.seq < client'[e].count
    BY DEF Sent
  <2>1. \A e \in Calls : client'[e].result = "counted" => e < c /\ client'[e] = client[e]
    <3>1. \A e \in Calls : e > c => client[e].result = "none"
      BY <1>11 DEF Windows, OneByOne
    <3> QED BY <1>6, <1>8, <1>11, <3>1
  <2>2. CASE r \in Pending
    <3>1. r.of \in Calls /\ r.of # c /\ r.seq \in Nat
      BY <1>12, <2>2 DEF Records
    <3> QED BY <1>1, <1>5, <1>8, <2>1, <2>2, <3>1 DEF Windows, Sent
  <2>3. CASE r \in In(script)
    BY <1>4, <1>6, <1>8, <2>1, <2>3
  <2> QED BY <1>14, <2>2, <2>3
<1>19. OwnerState'
  BY <1>6, <1>8, <1>9, <1>10 DEF Windows, OwnerState
<1>20. Fenced'
  <2> SUFFICES ASSUME NEW r \in Pending', Clean(r.of)'
               PROVE  IF r.of = owner THEN ~state[owner].seen
                      ELSE Fence(r)' /\ (owner # None => ~state[owner].ready)
    BY <1>9 DEF Fenced
  <2>1. Fence(r)' <=> Fence(r)
    BY <1>9 DEF Fence, Key
  <2>2. CASE r \in Pending
    <3>1. r.of \in Calls
      BY <1>12, <2>2
    <3>2. Clean(r.of)
      BY <1>15, <3>1
    <3> QED BY <2>1, <2>2, <3>2 DEF Windows, Fenced
  <2>3. CASE r \in In(script)
    <3>1. r.of = c
      BY <1>4, <2>3
    <3>2. Clean(c)
      BY <1>15, <3>1
    <3> QED BY <1>9, <1>10, <3>1, <3>2 DEF Windows, OwnerState
  <2> QED BY <1>14, <2>2, <2>3
<1>21. Delivered'
  <2>1. blocked # <<>> => blocked[2] \in Calls /\ blocked[1].of \in Calls
    BY <1>1, BlockedType DEF Records
  <2>2. \A e \in Calls : \A r \in In(queue[e].records) : r.of \in Calls
    BY DeliveredType DEF IInv
  <2> QED BY <1>9, <1>15, <2>1, <2>2 DEF Windows, Delivered, In
<1> QED BY <1>16, <1>17, <1>18, <1>19, <1>20, <1>21 DEF Windows

-------------------------------------------------------------------------------
(* The collector's steps that end no lease and route nothing are quiet.      *)

\* A step that changes the state of a call without the lease, or none of its marks.
LEMMA Unmarked ==
  ASSUME StateTypes, NEW c \in Calls, NEW s \in States, state' = [state EXCEPT ![c] = s],
         LeaseTypes,
         \/ owner # c
         \/ /\ s.prior = state[c].prior /\ s.recovery = state[c].recovery
            /\ s.started = state[c].started /\ s.seen = state[c].seen /\ s.ready = state[c].ready
  PROVE  owner # None => SameMarks(owner)
<1> SUFFICES ASSUME owner # None PROVE SameMarks(owner)
  OBVIOUS
<1>1. state'[owner] = IF owner = c THEN s ELSE state[owner]
  BY DEF StateTypes, LeaseTypes
<1> QED BY <1>1 DEF SameMarks

LEMMA SameState == state' = state => \A c : SameMarks(c)
BY DEF SameMarks

\* What a popped or closed queue holds.
LEMMA ClosedIn ==
  ASSUME QueueTypes, NEW c \in Calls,
         \/ queue' = [queue EXCEPT ![c] = [records |-> <<>>, closed |-> TRUE, drain |-> FALSE]]
         \/ \E drain \in BOOLEAN : queue' = [queue EXCEPT ![c] = Close(@, drain)]
  PROVE  \A d \in Calls : In(queue'[d].records) \subseteq In(queue[d].records)
<1> SUFFICES ASSUME NEW d \in Calls
             PROVE  In(queue'[d].records) \subseteq In(queue[d].records)
  OBVIOUS
<1>1. queue[c] \in Queues
  BY DEF QueueTypes
<1>2. \A drain \in BOOLEAN : Close(queue[c], drain).records \in {queue[c].records, <<>>}
  BY <1>1, CloseType
<1>3. queue'[d].records \in {queue[d].records, <<>>}
  BY <1>2 DEF QueueTypes
<1> QED BY <1>3, NoRecord

LEMMA DeregisterWaitsWindows ==
  ASSUME IInv, Windows, NEW c \in Calls, NEW p \in Purposes, DeregisterWaits(c, p)
  PROVE  Windows'
<1>1. UNCHANGED <<client, wire, turns, blocked, owner, turnSeq, recovery, tombstones, routed,
                  state, queue, post>>
  BY CollectorSame DEF DeregisterWaits, piVars
<1> QED BY <1>1, SameState, QuietStep DEF In

LEMMA RejectedWindows ==
  ASSUME IInv, Windows, NEW c \in Calls, post[c] = "sent", post' = [post EXCEPT ![c] = "rejected"],
         UNCHANGED <<client, wire, turns, blocked, owner, turnSeq, recovery, tombstones, routed,
                     state, queue>>
  PROVE  Windows'
<1>1. \A d \in Calls : post'[d] = "ready" <=> post[d] = "ready"
  BY TypeParts DEF IInv, RequestTypes
<1> QED BY <1>1, SameState, QuietStep DEF In

LEMMA RegisterTimesOutWindows ==
  ASSUME IInv, Windows, NEW c \in Calls, RegisterTimesOut(c)
  PROVE  Windows'
<1>1. UNCHANGED <<client, wire, turns, blocked, owner, turnSeq, recovery, tombstones, routed,
                  state, queue>>
  BY CollectorSame DEF RegisterTimesOut, piVars
<1> QED BY <1>1, RejectedWindows DEF RegisterTimesOut

LEMMA StreamAttachesWindows ==
  ASSUME IInv, Windows, NEW c \in Calls, StreamAttaches(c)
  PROVE  Windows'
<1>1. LeaseTypes /\ StateTypes
  BY TypeParts DEF IInv
<1> DEFINE s == [state[c] EXCEPT !.attached = TRUE]
<1>2. /\ s \in States /\ s.prior = state[c].prior /\ s.recovery = state[c].recovery
      /\ s.started = state[c].started /\ s.seen = state[c].seen /\ s.ready = state[c].ready
  BY <1>1, ZenonT(60) DEF StateTypes, States
<1>3. /\ state' = [state EXCEPT ![c] = s]
      /\ UNCHANGED <<client, wire, turns, blocked, owner, turnSeq, recovery, tombstones, routed,
                     queue, post>>
  BY DEF StreamAttaches, boundaryVars, piVars, requestVars
<1> HIDE DEF s
<1>4. owner # None => SameMarks(owner)
  BY <1>1, <1>2, <1>3, Unmarked
<1> QED BY <1>3, <1>4, QuietStep DEF In

LEMMA StreamReadsWindows ==
  ASSUME IInv, Windows, NEW c \in Calls, StreamReads(c)
  PROVE  Windows'
<1>1. QueueTypes /\ queue[c].records \in Seq(Records) /\ queue[c].records # <<>>
  BY TypeParts DEF IInv, QueueTypes, Queues, StreamReads, Readable
<1>2. /\ queue' = [queue EXCEPT ![c].records = Tail(@)]
      /\ UNCHANGED <<client, wire, turns, blocked, owner, turnSeq, recovery, tombstones, routed,
                     state, post>>
  BY DEF StreamReads, boundaryVars, piVars, requestVars
<1>3. \A d \in Calls : queue'[d].records = IF d = c THEN Tail(queue[c].records) ELSE queue[d].records
  BY <1>1, <1>2 DEF QueueTypes, Queues
<1>4. \A d \in Calls : In(queue'[d].records) \subseteq In(queue[d].records)
  BY <1>1, <1>3, InTail
<1> QED BY <1>2, <1>4, SameState, QuietStep

LEMMA StreamDetachesWindows ==
  ASSUME IInv, Windows, NEW c \in Calls, StreamDetaches(c)
  PROVE  Windows'
<1>1. LeaseTypes /\ StateTypes /\ QueueTypes
  BY TypeParts DEF IInv
<1>2. UNCHANGED <<client, wire, turns, blocked, owner, turnSeq, recovery, tombstones, routed, post>>
  BY DEF StreamDetaches, boundaryVars, piVars, requestVars
<1>3. CASE Exhausted(c) /\ ~state[c].preserved
  <2>1. Pop(c)
    BY <1>3 DEF StreamDetaches
  <2>2. owner # c
    <3>1. closed[c] /\ ~preserved[c]
      BY <1>3 DEF Exhausted, closed, preserved
    <3>2. owner = c => c \in routed
      BY DEF IInv, Lease
    <3> QED BY <3>1, <3>2 DEF IInv, Lease
  <2>3. owner # None => SameMarks(owner)
    BY <1>1, <2>1, <2>2, FreshStateType, Unmarked DEF Pop
  <2>4. \A d \in Calls : In(queue'[d].records) \subseteq In(queue[d].records)
    BY <1>1, <2>1, ClosedIn DEF Pop
  <2> QED BY <1>2, <2>3, <2>4, QuietStep
<1>4. CASE ~(Exhausted(c) /\ ~state[c].preserved)
  <2> DEFINE s == [state[c] EXCEPT !.attached = FALSE]
  <2>1. /\ s \in States /\ s.prior = state[c].prior /\ s.recovery = state[c].recovery
        /\ s.started = state[c].started /\ s.seen = state[c].seen /\ s.ready = state[c].ready
    BY <1>1, ZenonT(60) DEF StateTypes, States
  <2>2. state' = [state EXCEPT ![c] = s] /\ queue' = queue
    BY <1>4 DEF StreamDetaches
  <2> HIDE DEF s
  <2>3. owner # None => SameMarks(owner)
    BY <1>1, <2>1, <2>2, Unmarked
  <2> QED BY <1>2, <2>2, <2>3, QuietStep DEF In
<1> QED BY <1>3, <1>4

\* A registration that is accepted begins behind the fence of the calls before it.
LEMMA RegisterWindows ==
  ASSUME IInv, Windows, NEW c \in Calls, Register(c)
  PROVE  Windows'
<1>1. LeaseTypes /\ StateTypes /\ QueueTypes /\ WireTypes /\ ClientTypes /\ RequestTypes /\ PerCall(c)
  BY TypeParts DEF IInv
<1>2. CASE c \in cancelled \/ current[Request[c]] # None \/ routed # {}
  BY <1>2, RejectedWindows DEF Register, piVars
<1>3. CASE ~(c \in cancelled \/ current[Request[c]] # None \/ routed # {})
  <2> DEFINE s == [FreshState EXCEPT !.capture = client[c].stream, !.recovery = recovery,
                                     !.prior = turnSeq]
  <2>1. /\ post[c] = "sent" /\ post' = [post EXCEPT ![c] = "ready"]
        /\ routed' = {c} /\ owner' = c /\ owner = None /\ state' = [state EXCEPT ![c] = s]
        /\ UNCHANGED <<queue, turnSeq, recovery, tombstones, blocked, turns, wire, client>>
    BY <1>3 DEF Register, piVars, BoundaryReady
  <2>2. /\ s.prior = turnSeq /\ s.recovery = recovery
        /\ s.started = FALSE /\ s.seen = FALSE /\ s.ready = FALSE
    BY DEF FreshState
  <2> HIDE DEF s
  <2>3. state'[c] = s
    BY <1>1, <2>1 DEF StateTypes
  <2>4. /\ \A d \in Calls : post'[d] = IF d = c THEN "ready" ELSE post[d]
        /\ ~client[c].ran
    BY <1>1, <2>1 DEF RequestTypes, PerCall, Progress
  <2>5. Pending' = Pending /\ \A d : Clean(d)' <=> Clean(d)
    BY <2>1 DEF Pending, In, Clean, Released
  <2>6. OneByOne'
    BY <2>1, <2>4 DEF Windows, OneByOne, Ended
  <2>7. Order'
    BY <2>1 DEF Windows, Order, Ordered, Before, In
  <2>8. Sent'
    BY <2>1, <2>5 DEF Windows, Sent
  <2>9. blocked # <<>> => blocked[2] \in Calls /\ blocked[2] # c
    BY <1>1, <2>1, BlockedType DEF Windows, Delivered
  <2>10. OwnerState'
    BY <2>1, <2>2, <2>3, <2>9 DEF OwnerState
  <2>11. Fenced'
    <3> SUFFICES ASSUME NEW r \in Pending, Clean(r.of)
                 PROVE  r.of # c /\ Fence(r)' /\ ~state'[c].ready
      BY <2>1, <2>5 DEF Fenced
    <3>1. r.of \in Calls /\ client[r.of].ran
      BY <1>1, PendingType DEF Windows, Sent
    <3>2. Fence(r)
      BY <2>1, <3>1 DEF Windows, Fenced
    <3>3. Fence(r)' <=> Fence(r)
      BY <2>1 DEF Fence, Key
    <3> QED BY <2>2, <2>3, <2>4, <3>1, <3>2, <3>3
  <2>12. Delivered'
    BY <2>1, <2>4, <2>5, <2>9 DEF Windows, Delivered, In
  <2> QED BY <2>6, <2>7, <2>8, <2>10, <2>11, <2>12 DEF Windows
<1> QED BY <1>2, <1>3

-------------------------------------------------------------------------------
(* The end of a lease: a release says so, a seen completion leaves nothing to
   come, and a count that is taken on trust is beyond all turns so far.      *)

\* A resolved boundary is a fence not lower than the last.
LEMMA ResolvedFence ==
  ASSUME LeaseTypes, StateTypes, ClientTypes, NEW c \in Calls, NEW p \in Purposes,
         ResolveBoundary(c, p)
  PROVE  turnSeq' \in Int /\ turnSeq <= turnSeq' /\ tombstones \subseteq tombstones'
         /\ recovery' = recovery /\ owner' = None
<1>1. /\ state[c].prior \in Int /\ state[c].latest \in Int /\ turnSeq \in Int
      /\ state[c].completion \in (Nat \X Calls) \cup {<<>>}
  BY DEF StateTypes, States, LeaseTypes
<1> DEFINE settledAt == IF state[c].completion = <<>> THEN -1 ELSE state[c].completion[1]
           n == IF state[c].started THEN state[c].latest
                ELSE IF HasCount(c, p) THEN settledAt ELSE -1
           observed == Advance(n)
           e == Expected(c, p)
<1>2. settledAt \in Int
  BY <1>1
<1> HIDE DEF settledAt
<1>3. n \in Int
  BY <1>1, <1>2
<1> HIDE DEF n
<1>4. observed \in Int /\ observed >= turnSeq
  BY <1>1, <1>3 DEF Advance
<1> HIDE DEF observed
<1>5. e \in Int
  BY DEF Expected, ClientTypes, Clients
<1> HIDE DEF e
<1>6. turnSeq' = IF \A m \in {state[c].prior, state[c].latest, settledAt, observed} : e >= m
                 THEN e ELSE observed
  BY DEF ResolveBoundary, settledAt, n, observed, e
<1>7. turnSeq' = observed \/ (turnSeq' = e /\ e >= observed)
  BY <1>6
<1> QED BY <1>1, <1>4, <1>5, <1>7 DEF ResolveBoundary

\* The lease ends in one of three ways.
LEMMA LeaseEnds ==
  ASSUME IInv, NEW c \in Calls, NEW p \in Purposes, Deregister(c, p), IsCurrent(c), owner = c,
         Action(c, p) # "preserve", EndLease(c, p)
  PROVE  \/ ResolveBoundary(c, p) /\ client[c].result \in {"failed", "idle"}
         \/ ResolveBoundary(c, p) /\ state[c].seen
         \/ SetRecovery(c, p)
<1>1. Action(c, p) \in {"release", "quarantine", "wait", "preserve"}
  BY DEF Action
<1>2. CASE Action(c, p) = "release"
  <2>1. client[c].result \in {"failed", "idle"}
    BY <1>2 DEF Action
  <2> QED BY <1>2, <2>1 DEF EndLease
<1>3. CASE Action(c, p) = "quarantine"
  BY <1>3 DEF EndLease
<1>4. CASE Action(c, p) = "wait"
  <2>1. IF LateForWait(c, p) THEN SetRecovery(c, p) ELSE ResolveBoundary(c, p)
    BY <1>4 DEF EndLease
  <2>2. ~LateForWait(c, p) => state[c].seen
    <3>1. delete[c][p] = "waiting" \/ ~CompletionMissing(c, p)
      BY DEF Deregister
    <3> QED BY <1>4, <3>1 DEF LateForWait, CompletionMissing
  <2> QED BY <2>1, <2>2
<1> QED BY <1>1, <1>2, <1>3, <1>4

\* After it, no record of a call without a release passes for one of the next.
LEMMA FencedAfter ==
  ASSUME IInv, Windows, NEW c \in Calls, NEW p \in Purposes, owner = c,
         \/ ResolveBoundary(c, p) /\ client[c].result \in {"failed", "idle"}
         \/ ResolveBoundary(c, p) /\ state[c].seen
         \/ SetRecovery(c, p),
         NEW r \in Pending, Clean(r.of)
  PROVE  Fence(r)'
<1>1. /\ LeaseTypes /\ StateTypes /\ ClientTypes /\ WireTypes /\ turnSeq \in Int
      /\ recovery \in Modes /\ owner # None
  BY TypeParts DEF IInv, LeaseTypes
<1>2. r \in Records /\ r.of \in Calls /\ r.seq \in Nat /\ client[r.of].ran
  BY <1>1, PendingType DEF Windows, Sent
<1>3. r.of # c => Fence(r) /\ ~state[c].ready
  BY <1>1 DEF Windows, Fenced
<1>4. CASE ResolveBoundary(c, p) /\ client[c].result \in {"failed", "idle"}
  <2>1. r.of # c
    <3>1. client[c].ran => Released(c)
      BY <1>4 DEF Released
    <3>2. Released(c) => ~Clean(c)
      BY DEF Clean
    <3> QED BY <1>2, <3>1, <3>2
  <2> QED BY <1>1, <1>2, <1>3, <1>4, <2>1, ResolvedFence, FenceStays
<1>5. CASE ResolveBoundary(c, p) /\ state[c].seen
  <2>1. state[c].ready
    BY <1>1, <1>5 DEF Windows, OwnerState
  <2>2. r.of = c => ~state[c].seen
    BY <1>1 DEF Windows, Fenced
  <2> QED BY <1>3, <1>5, <2>1, <2>2
<1>6. CASE SetRecovery(c, p)
  <2>1. \/ recovery' = "unknown"
        \/ /\ recovery' = "known" /\ turnSeq' = Expected(c, p) /\ Expected(c, p) # -1
    BY <1>6 DEF SetRecovery
  <2>2. CASE recovery' = "known" /\ turnSeq' = Expected(c, p) /\ Expected(c, p) # -1
    <3>1. client[c].result = "counted" /\ turnSeq' = client[c].count - 1 /\ client[c].count \in Nat
      BY <1>1, <2>2 DEF Expected, HasCount, ClientTypes, Clients
    <3>2. r.of <= c
      <4>1. client[c].ran /\ post[r.of] = "ready" /\ c \in routed
        BY <1>1, <1>2, <3>1 DEF Windows, OneByOne, IInv, PerCall, Progress, Lease
      <4> QED BY <1>2, <4>1 DEF Windows, OneByOne
    <3>3. r.kind = "turn" => r.seq < client[c].count
      BY <3>1, <3>2 DEF Windows, Sent
    <3> QED BY <1>2, <2>2, <3>1, <3>3 DEF Fence
  <2>3. CASE recovery' = "unknown"
    BY <2>3 DEF Fence
  <2> QED BY <2>1, <2>2, <2>3
<1> QED BY <1>4, <1>5, <1>6

\* The deregistration that ends the lease.
LEMMA EndWindows ==
  ASSUME IInv, Windows, NEW c \in Calls, NEW p \in Purposes, Deregister(c, p), IsCurrent(c),
         Action(c, p) # "preserve", Finish(c, p), owner = c,
         \A d \in Calls : In(queue'[d].records) \subseteq In(queue[d].records)
  PROVE  Windows'
<1>0. LeaseTypes /\ StateTypes /\ ClientTypes /\ WireTypes
  BY TypeParts DEF IInv
<1>1. UNCHANGED <<blocked, turns, wire, client, post>>
  BY DEF Deregister, piVars
<1>2. routed' = routed \ {c} /\ EndLease(c, p)
  BY DEF Finish
<1>3. owner' = None
  BY <1>0, <1>2, EndLeaseTypes
<1>4. \/ ResolveBoundary(c, p) /\ client[c].result \in {"failed", "idle"}
      \/ ResolveBoundary(c, p) /\ state[c].seen
      \/ SetRecovery(c, p)
  BY <1>2, LeaseEnds
<1>5. Pending' = Pending /\ \A d : Clean(d)' <=> Clean(d)
  BY <1>1 DEF Pending, In, Clean, Released
<1>6. OneByOne'
  BY <1>1, <1>2 DEF Windows, OneByOne, Ended
<1>7. Order'
  BY <1>1 DEF Windows, Order, Ordered, Before, In
<1>8. Sent'
  BY <1>1, <1>5 DEF Windows, Sent
<1>9. OwnerState'
  BY <1>3 DEF OwnerState
<1>10. Fenced'
  <2> SUFFICES ASSUME NEW r \in Pending, Clean(r.of) PROVE r.of # None /\ Fence(r)'
    BY <1>3, <1>5 DEF Fenced
  <2>1. r.of \in Calls
    BY <1>0, PendingType
  <2>2. Fence(r)'
    BY <1>4, FencedAfter
  <2> QED BY <2>1, <2>2
<1>11. Delivered'
  <2>1. blocked # <<>> => blocked[2] \in Calls
    BY <1>0, BlockedType
  <2> QED BY <1>1, <1>5, <2>1 DEF Windows, Delivered, In
<1> QED BY <1>6, <1>7, <1>8, <1>9, <1>10, <1>11 DEF Windows

LEMMA DeregisterWindows ==
  ASSUME IInv, Windows, NEW c \in Calls, NEW p \in Purposes, Deregister(c, p)
  PROVE  Windows'
<1>0. LeaseTypes /\ StateTypes /\ QueueTypes /\ state[c] \in States
  BY TypeParts DEF IInv, StateTypes
<1>1. UNCHANGED <<blocked, turns, wire, client, post>>
  BY DEF Deregister, piVars
<1>2. CASE ~IsCurrent(c)
  <2>1. UNCHANGED <<routed, state, queue, owner, turnSeq, recovery, tombstones>>
    BY <1>2 DEF Deregister
  <2> QED BY <1>1, <2>1, SameState, QuietStep DEF In
<1>3. CASE IsCurrent(c) /\ Action(c, p) = "preserve"
  <2>1. Preserve(c, p)
    BY <1>3 DEF Deregister
  <2>2. UNCHANGED <<routed, owner, turnSeq, recovery, tombstones>>
    BY <2>1 DEF Preserve
  <2>3. \A d \in Calls : In(queue'[d].records) \subseteq In(queue[d].records)
    BY <1>0, <2>1, ClosedIn DEF Preserve, Pop
  <2>4. owner # None => SameMarks(owner)
    <3>1. CASE c \in routed
      <4> DEFINE s == [state[c] EXCEPT !.capture = FALSE, !.preserved = TRUE]
      <4>1. s \in States /\ s.prior = state[c].prior /\ s.recovery = state[c].recovery
            /\ s.started = state[c].started /\ s.seen = state[c].seen /\ s.ready = state[c].ready
        BY <1>0 DEF States
      <4>2. state' = [state EXCEPT ![c] = s]
        BY <1>0, <2>1, <3>1 DEF Preserve, StateTypes
      <4> HIDE DEF s
      <4> QED BY <1>0, <4>1, <4>2, Unmarked
    <3>2. CASE c \notin routed
      <4>1. owner # c /\ Pop(c)
        BY <2>1, <3>2 DEF Preserve, IInv, Lease
      <4> QED BY <1>0, <4>1, FreshStateType, Unmarked DEF Pop
    <3> QED BY <3>1, <3>2
  <2> QED BY <1>1, <2>2, <2>3, <2>4, QuietStep
<1>4. CASE IsCurrent(c) /\ Action(c, p) # "preserve"
  <2>1. Finish(c, p)
    BY <1>4 DEF Deregister
  <2>2. \A d \in Calls : In(queue'[d].records) \subseteq In(queue[d].records)
    BY <1>0, <2>1, ClosedIn DEF Finish, Pop
  <2>3. CASE owner = c
    BY <1>4, <2>1, <2>2, <2>3, EndWindows
  <2>4. CASE owner # c
    <3>1. UNCHANGED <<owner, turnSeq, recovery, tombstones>> /\ routed' \subseteq routed
      BY <2>1, <2>4 DEF Finish, EndLease
    <3> DEFINE s == [state[c] EXCEPT !.preserved = FALSE]
    <3>2. s \in States
      BY <1>0 DEF States
    <3>3. state' = [state EXCEPT ![c] = s] \/ state' = [state EXCEPT ![c] = FreshState]
      BY <2>1 DEF Finish, Pop
    <3> HIDE DEF s
    <3>4. owner # None => SameMarks(owner)
      BY <1>0, <2>4, <3>2, <3>3, FreshStateType, Unmarked
    <3> QED BY <1>1, <2>2, <3>1, <3>4, QuietStep
  <2> QED BY <2>3, <2>4
<1> QED BY <1>2, <1>3, <1>4

-------------------------------------------------------------------------------
(* route and the publisher's request *)

\* A state that may have read a record, of the call that has the lease or of none.
LEMMA LeaseKept ==
  ASSUME IInv, Windows, UNCHANGED <<client, post, routed, owner, turns>>
  PROVE  OneByOne' /\ \A d : Clean(d)' <=> Clean(d)
BY DEF Windows, OneByOne, Ended, Clean, Released

LEMMA SentStays ==
  ASSUME Sent, UNCHANGED <<client, turns>>, Pending' \subseteq Pending
  PROVE  Sent'
BY DEF Sent

\* Nobody is registered: turns and completions raise the fence.
LEMMA RouteToNobodyWindows ==
  ASSUME IInv, Windows, Route, routed = {}
  PROVE  Windows'
<1>1. LeaseTypes /\ WireTypes /\ wire \in Seq(Records) /\ wire # <<>> /\ blocked = <<>> /\ owner = None
  BY TypeParts DEF IInv, WireTypes, Route, Lease, LeaseTypes
<1> DEFINE r == Head(wire)
<1>2. /\ wire' = Tail(wire) /\ RouteToNobody(r)
      /\ UNCHANGED <<client, post, routed, owner, turns, state, queue, blocked, recovery>>
  BY DEF Route, RouteToNobody, requestVars
<1>3. r \in Records /\ Pending = In(wire) /\ Pending' = In(Tail(wire))
  BY <1>1, <1>2 DEF Pending, In
<1>4. Pending' \subseteq Pending /\ Ordered(wire')
  BY <1>1, <1>2, <1>3, InTail DEF Windows, Order
<1> HIDE DEF r
<1>5. turnSeq' \in Int /\ turnSeq <= turnSeq' /\ tombstones \subseteq tombstones'
  <2>1. r.seq \in Int /\ turnSeq \in Int
    BY <1>1, <1>3 DEF Records, LeaseTypes
  <2> QED BY <1>2, <2>1 DEF RouteToNobody, Advance
<1>6. OneByOne' /\ \A d : Clean(d)' <=> Clean(d)
  BY <1>2, LeaseKept
<1>7. Order'
  BY <1>1, <1>2, <1>4 DEF Order
<1>8. Sent'
  BY <1>2, <1>4, SentStays DEF Windows
<1>9. OwnerState'
  BY <1>1, <1>2 DEF OwnerState
<1>10. Fenced'
  <2> SUFFICES ASSUME NEW x \in Pending, Clean(x.of) PROVE x.of # None /\ Fence(x)'
    BY <1>1, <1>2, <1>4, <1>6 DEF Fenced
  <2>1. x \in Records /\ x.of \in Calls
    BY <1>1, PendingType
  <2>2. Fence(x)
    BY <1>1, <2>1 DEF Windows, Fenced
  <2> QED BY <1>1, <1>2, <1>5, <2>1, <2>2, FenceStays
<1>11. Delivered'
  BY <1>1, <1>2, <1>6 DEF Windows, Delivered, In
<1> QED BY <1>6, <1>7, <1>8, <1>9, <1>10, <1>11 DEF Windows

\* The record that is accepted is of the call that has the lease, or was let through by a
\* release.
LEMMA AcceptsOwn ==
  ASSUME IInv, Windows, owner # None, NEW r \in Pending, Accepts(state[owner], r), Clean(r.of)
  PROVE  r.of = owner
<1> SUFFICES ASSUME r.of # owner PROVE FALSE
  OBVIOUS
<1>1. LeaseTypes /\ WireTypes /\ StateTypes /\ owner \in Calls /\ state[owner] \in States
  BY TypeParts DEF IInv, LeaseTypes, StateTypes
<1>2. Fence(r) /\ ~state[owner].ready
  BY DEF Windows, Fenced
<1>3. /\ state[owner].prior = turnSeq /\ state[owner].recovery = recovery
      /\ ~state[owner].started
  BY <1>2 DEF Windows, OwnerState
<1>4. r \in Records /\ r.seq \in Int /\ turnSeq \in Int /\ r.kind \in {"turn", "body", "settled"}
  BY <1>1, PendingType DEF Records, LeaseTypes
<1>5. recovery # "unknown" /\ (recovery = "known" => r.kind = "turn")
  BY <1>3 DEF Accepts
<1>6. CASE r.kind = "turn"
  BY <1>2, <1>3, <1>4, <1>5, <1>6 DEF Accepts, Fence
<1>7. CASE r.kind = "settled"
  BY <1>2, <1>3, <1>4, <1>5, <1>7 DEF Accepts, Fence
<1>8. CASE r.kind = "body"
  BY <1>2, <1>8 DEF Accepts
<1> QED BY <1>4, <1>6, <1>7, <1>8

\* What comes after a record of the call that has the lease, or after one let through.
LEMMA AfterAccepted ==
  ASSUME IInv, Windows, owner # None, NEW r \in Pending, r.of = owner \/ ~Clean(r.of),
         NEW x \in Pending, Before(r, x), Clean(x.of)
  PROVE  x.of = owner /\ r.of = owner /\ r.kind # "settled"
<1>1. LeaseTypes /\ WireTypes /\ owner \in routed
  BY TypeParts DEF IInv, Lease
<1>2. r \in Records /\ x \in Records /\ r.of \in Calls /\ x.of \in Calls
  BY <1>1, PendingType
<1>3. Clean(r.of) /\ r.of = owner
  BY <1>2, CleanBefore
<1>4. client[owner].ran /\ post[x.of] = "ready"
  BY <1>2, <1>3 DEF Windows, Sent, IInv, PerCall, Progress
<1>5. ~(x.of > owner)
  BY <1>1, <1>2, <1>3, <1>4 DEF Windows, OneByOne
<1> QED BY <1>2, <1>3, <1>5 DEF Before

\* A queue with a record more.
LEMMA PutIn ==
  ASSUME QueueTypes, NEW c \in Calls, NEW r \in Records, Put(c, r)
  PROVE  \A d \in Calls : /\ d # c => In(queue'[d].records) = In(queue[d].records)
                          /\ In(queue'[d].records) \subseteq In(queue[d].records) \cup {r}
<1>1. queue[c].records \in Seq(Records)
  BY DEF QueueTypes, Queues
<1>2. CASE queue[c].closed
  BY <1>2 DEF Put
<1>3. CASE ~queue[c].closed
  <2>1. \A d \in Calls : queue'[d].records =
          IF d = c THEN Append(queue[c].records, r) ELSE queue[d].records
    BY <1>3 DEF Put, QueueTypes, Queues
  <2> QED BY <1>1, <2>1, InPut
<1> QED BY <1>2, <1>3

\* The states that accepting and completing leave.
LEMMA Marks ==
  ASSUME NEW s \in States, NEW r \in Records
  PROVE  /\ Accepted(s, r).prior = s.prior /\ Accepted(s, r).recovery = "normal"
         /\ Accepted(s, r).ready /\ Accepted(s, r).seen = s.seen
         /\ Completes(s, r).prior = s.prior /\ Completes(s, r).recovery = s.recovery
         /\ Completes(s, r).ready = s.ready /\ Completes(s, r).started = s.started
         /\ Completes(s, r).seen <=> s.seen \/ r.kind = "settled"
<1>1. /\ Accepted(s, r).prior = s.prior /\ Accepted(s, r).recovery = "normal"
      /\ Accepted(s, r).ready /\ Accepted(s, r).seen = s.seen
  BY DEF Accepted, States
<1>2. /\ Completes(s, r).prior = s.prior /\ Completes(s, r).recovery = s.recovery
      /\ Completes(s, r).ready = s.ready /\ Completes(s, r).started = s.started
      /\ Completes(s, r).seen <=> s.seen \/ r.kind = "settled"
  BY DEF Completes, States
<1> QED BY <1>1, <1>2

LEMMA RouteToWindows ==
  ASSUME IInv, Windows, Route, routed # {}
  PROVE  Windows'
<1>1. /\ LeaseTypes /\ WireTypes /\ StateTypes /\ QueueTypes /\ wire \in Seq(Records)
      /\ wire # <<>> /\ blocked = <<>>
      /\ owner \in Calls /\ owner # None /\ routed = {owner} /\ state[owner] \in States
  BY TypeParts DEF IInv, WireTypes, Route, Lease, LeaseTypes, StateTypes
<1> DEFINE r == Head(wire)
<1>2. /\ wire' = Tail(wire)
      /\ UNCHANGED <<client, post, routed, owner, turns>>
      /\ IF Accepts(state[owner], r) THEN RouteTo(owner, r)
         ELSE UNCHANGED <<state, queue, turnSeq, recovery, tombstones, blocked>>
  BY <1>1 DEF Route, requestVars
<1>3. /\ r \in Records /\ Pending = In(wire) /\ r \in Pending /\ In(Tail(wire)) \subseteq Pending
      /\ Ordered(wire') /\ \A x \in In(Tail(wire)) : Before(r, x)
  BY <1>1, <1>2, InTail DEF Pending, Windows, Order
<1> HIDE DEF r
<1>4. \A x \in Pending : x \in Records /\ x.of \in Calls /\ client[x.of].ran
  BY <1>1, PendingType DEF Windows, Sent
<1>5. OneByOne' /\ \A d : Clean(d)' <=> Clean(d)
  BY <1>2, LeaseKept
<1>6. CASE ~Accepts(state[owner], r)
  <2>1. UNCHANGED <<state, queue, turnSeq, recovery, tombstones, blocked>>
    BY <1>2, <1>6
  <2>2. Pending' \subseteq Pending
    BY <1>1, <1>2, <1>3, <2>1 DEF Pending, In
  <2>3. Order'
    BY <1>1, <1>3, <2>1 DEF Order
  <2>4. Sent'
    BY <1>2, <2>2, SentStays DEF Windows
  <2>5. OwnerState'
    BY <1>2, <1>5, <2>1 DEF Windows, OwnerState
  <2>6. Fenced'
    <3>1. \A x : Fence(x)' <=> Fence(x)
      BY <2>1 DEF Fence, Key
    <3> QED BY <1>2, <1>5, <2>1, <2>2, <3>1 DEF Windows, Fenced
  <2>7. Delivered'
    BY <1>1, <1>2, <1>5, <2>1 DEF Windows, Delivered, In
  <2> QED BY <1>5, <2>3, <2>4, <2>5, <2>6, <2>7 DEF Windows
<1>7. CASE Accepts(state[owner], r)
  <2> DEFINE s == Accepted(state[owner], r)
             full == s.capture /\ ~queue[owner].closed /\ ~HasRoom(owner)
             n == IF full THEN s ELSE Completes(s, r)
  <2>1. RouteTo(owner, r)
    BY <1>2, <1>7
  <2>2. /\ state' = [state EXCEPT ![owner] = n] /\ UNCHANGED <<turnSeq, tombstones>>
        /\ recovery' = IF state[owner].recovery = "known" THEN "normal" ELSE recovery
        /\ blocked' = IF full THEN <<r, owner>> ELSE <<>>
        /\ queue' = queue \/ Put(owner, r)
    BY <1>1, <2>1 DEF RouteTo
  <2>3. s \in States
    BY <1>1, <1>3, AcceptedType
  <2>4. /\ n.prior = state[owner].prior /\ n.recovery = "normal" /\ n.ready
        /\ n.seen <=> state[owner].seen \/ (r.kind = "settled" /\ ~full)
    BY <1>1, <1>3, <2>3, Marks
  <2> HIDE DEF s, full, n
  <2>5. state'[owner] = n
    BY <1>1, <2>2 DEF StateTypes
  <2>6. r.of = owner \/ ~Clean(r.of)
    BY <1>1, <1>3, <1>7, AcceptsOwn
  <2>7. \A x \in In(Tail(wire)) : Clean(x.of) => x.of = owner /\ r.of = owner /\ r.kind # "settled"
    BY <1>1, <1>3, <2>6, AfterAccepted
  <2>8. Pending' \subseteq In(Tail(wire)) \cup {r} /\ (r \in Pending' => full \/ r \in In(Tail(wire)))
    <3>1. Pending' = In(Tail(wire)) \cup (IF full THEN {r} ELSE {})
      <4>1. CASE full
        <5>1. blocked' = <<r, owner>> /\ blocked' # <<>> /\ blocked'[1] = r
          BY <2>2, <4>1
        <5> QED BY <1>2, <4>1, <5>1 DEF Pending, In
      <4>2. CASE ~full
        BY <1>2, <2>2, <4>2 DEF Pending, In
      <4> QED BY <4>1, <4>2
    <3> QED BY <3>1
  <2>9. Pending' \subseteq Pending
    BY <1>3, <2>8
  <2>10. blocked' # <<>> => full /\ blocked'[1] = r /\ blocked'[2] = owner
    BY <2>2
  <2>11. Order'
    BY <1>2, <1>3, <2>10 DEF Order, In
  <2>12. Sent'
    BY <1>2, <2>9, SentStays DEF Windows
  <2>13. OwnerState'
    <3>1. state[owner].prior = turnSeq /\ state[owner].recovery = recovery
      BY <1>1 DEF Windows, OwnerState
    <3>2. recovery' = "normal"
      <4>1. recovery # "unknown" /\ recovery \in Modes
        BY <1>1, <1>7, <3>1 DEF Accepts, LeaseTypes
      <4> QED BY <2>2, <3>1, <4>1 DEF Modes
    <3>3. client[owner].pc = "registering" => ~Clean(owner)
      <4> SUFFICES ASSUME client[owner].pc = "registering", Clean(owner) PROVE FALSE
        OBVIOUS
      <4>1. ~client[owner].ran /\ client[r.of].pc # "idle" /\ r.of \in Calls /\ client[r.of].ran
        BY <1>1, <1>3, <1>4 DEF IInv, PerCall, Progress
      <4>2. ~Clean(r.of)
        BY <2>6, <4>1
      <4>3. ~(r.of > owner)
        <5>1. r.of > owner => owner \in 1..(r.of - 1)
          BY <1>1, <4>1
        <5> QED BY <4>1, <5>1 DEF Windows, OneByOne, Ended
      <4> QED BY <1>1, <4>1, <4>2, <4>3 DEF Clean
    <3> QED BY <1>2, <1>5, <2>2, <2>4, <2>5, <3>1, <3>2, <3>3 DEF OwnerState
  <2>14. Fenced'
    <3> SUFFICES ASSUME NEW x \in Pending', Clean(x.of) PROVE x.of = owner /\ ~n.seen
      BY <1>2, <1>5, <2>5 DEF Fenced
    <3>1. x \in In(Tail(wire)) \/ (x = r /\ full)
      BY <2>8
    <3>2. x.of = owner /\ (r.kind # "settled" \/ full)
      BY <2>6, <2>7, <3>1
    <3>3. ~state[owner].seen
      BY <1>1, <2>9, <3>2 DEF Windows, Fenced
    <3> QED BY <2>4, <3>2, <3>3
  <2>15. Delivered'
    <3>1. blocked' # <<>> => /\ post'[blocked'[2]] = "ready"
                             /\ blocked'[1].of = blocked'[2] \/ ~Clean(blocked'[1].of)
      <4>1. post[owner] = "ready"
        BY <1>1 DEF IInv, Lease, PerCall, Registration
      <4> QED BY <1>2, <2>6, <2>10, <4>1
    <3>2. ASSUME NEW d \in Calls, NEW x \in In(queue'[d].records) PROVE x.of = d \/ ~Clean(x.of)
      <4>1. x \in In(queue[d].records) \/ (d = owner /\ x = r)
        <5>1. CASE queue' = queue
          BY <3>2, <5>1
        <5>2. CASE Put(owner, r)
          <6>1. /\ d # owner => In(queue'[d].records) = In(queue[d].records)
                /\ In(queue'[d].records) \subseteq In(queue[d].records) \cup {r}
            BY <1>1, <1>3, <5>2, PutIn
          <6> QED BY <3>2, <6>1
        <5> QED BY <2>2, <5>1, <5>2
      <4> QED BY <2>6, <4>1 DEF Windows, Delivered
    <3> QED BY <1>5, <3>1, <3>2 DEF Delivered, In
  <2> QED BY <1>5, <2>11, <2>12, <2>13, <2>14, <2>15 DEF Windows
<1> QED BY <1>6, <1>7

LEMMA PutEndsWindows ==
  ASSUME IInv, Windows, PutEnds
  PROVE  Windows'
<1>1. LeaseTypes /\ WireTypes /\ StateTypes /\ QueueTypes /\ blocked # <<>>
  BY TypeParts DEF IInv, PutEnds
<1> DEFINE r == blocked[1]
           c == blocked[2]
           s == Completes(state[c], r)
<1>2. r \in Records /\ c \in Calls /\ state[c] \in States
  BY <1>1, BlockedType DEF StateTypes
<1>3. /\ UNCHANGED <<client, post, routed, owner, turns, wire, turnSeq, recovery, tombstones>>
      /\ blocked' = <<>> /\ state' = [state EXCEPT ![c] = s]
      /\ queue' = queue \/ Put(c, r)
  BY DEF PutEnds, boundaryVars, piVars, requestVars
<1>4. /\ s.prior = state[c].prior /\ s.recovery = state[c].recovery /\ s.ready = state[c].ready
      /\ s.started = state[c].started /\ (s.seen <=> state[c].seen \/ r.kind = "settled")
  BY <1>2, Marks
<1>5. /\ r \in Pending /\ Pending' = In(wire) /\ In(wire) \subseteq Pending
      /\ \A x \in In(wire) : Before(r, x)
      /\ post[c] = "ready" /\ (r.of = c \/ ~Clean(r.of))
      /\ owner = c => state[c].ready
  <2>1. owner = c => owner # None
    BY <1>2
  <2> QED BY <1>1, <1>3, <2>1 DEF Pending, Windows, Order, Delivered, OwnerState, In
<1> HIDE DEF r, c, s
<1>6. OneByOne' /\ \A d : Clean(d)' <=> Clean(d)
  BY <1>3, LeaseKept
<1>7. state'[owner] = IF owner = c THEN s ELSE state[owner]
  BY <1>1, <1>2, <1>3 DEF StateTypes
<1>8. Order'
  BY <1>3 DEF Windows, Order, Ordered, Before, In
<1>9. Sent'
  BY <1>3, <1>5, SentStays DEF Windows
<1>10. OwnerState'
  <2> SUFFICES ASSUME owner # None
               PROVE  /\ state'[owner].prior = turnSeq /\ state'[owner].recovery = recovery
                      /\ state'[owner].started \/ state'[owner].seen => state'[owner].ready
                      /\ client[owner].pc = "registering" /\ state'[owner].ready => ~Clean(owner)
    BY <1>3, <1>6 DEF OwnerState
  <2>1. /\ state[owner].prior = turnSeq /\ state[owner].recovery = recovery
        /\ state[owner].started \/ state[owner].seen => state[owner].ready
        /\ client[owner].pc = "registering" /\ state[owner].ready => ~Clean(owner)
    BY DEF Windows, OwnerState
  <2>2. CASE owner = c
    BY <1>4, <1>5, <1>7, <2>1, <2>2
  <2>3. CASE owner # c
    BY <1>7, <2>1, <2>3
  <2> QED BY <2>2, <2>3
<1>11. Fenced'
  <2> SUFFICES ASSUME NEW x \in In(wire), Clean(x.of)
               PROVE  IF x.of = owner THEN ~state'[owner].seen
                      ELSE Fence(x)' /\ (owner # None => ~state'[owner].ready)
    BY <1>3, <1>5, <1>6 DEF Fenced
  <2>1. Fence(x)' <=> Fence(x)
    BY <1>3 DEF Fence, Key
  <2>2. IF x.of = owner THEN ~state[owner].seen
        ELSE Fence(x) /\ (owner # None => ~state[owner].ready)
    BY <1>5 DEF Windows, Fenced
  <2>3. CASE owner = c
    <3>1. owner # None /\ x.of = owner /\ r.kind # "settled"
      BY <1>2, <1>5, <2>3, AfterAccepted
    <3>2. ~state[c].seen
      BY <2>2, <2>3, <3>1
    <3>3. ~s.seen
      BY <1>4, <3>1, <3>2
    <3>4. state'[owner] = s
      BY <1>7, <2>3
    <3> QED BY <3>1, <3>3, <3>4
  <2>4. CASE owner # c
    BY <1>7, <2>1, <2>2, <2>4
  <2> QED BY <2>3, <2>4
<1>12. Delivered'
  <2>1. ASSUME NEW d \in Calls, NEW x \in In(queue'[d].records) PROVE x.of = d \/ ~Clean(x.of)
    <3>1. x \in In(queue[d].records) \/ (d = c /\ x = r)
      BY <1>1, <1>2, <1>3, <2>1, PutIn
    <3> QED BY <1>5, <3>1 DEF Windows, Delivered
  <2> QED BY <1>3, <1>6, <2>1 DEF Delivered, In
<1> QED BY <1>6, <1>8, <1>9, <1>10, <1>11, <1>12 DEF Windows

\* A completion that is taken back may be sent again; what was ready by it is not any more.
LEMMA PutCancelledWindows ==
  ASSUME IInv, Windows, PutCancelled
  PROVE  Windows'
<1>1. LeaseTypes /\ WireTypes /\ StateTypes /\ wire \in Seq(Records) /\ blocked # <<>>
  BY TypeParts DEF IInv, PutCancelled, WireTypes
<1> DEFINE r == blocked[1]
           c == blocked[2]
           b == state[c].ready /\ state[c].started
           s == [state[c] EXCEPT !.completion = <<>>, !.ready = b]
<1>2. r \in Records /\ c \in Calls /\ state[c] \in States
  BY <1>1, BlockedType DEF StateTypes
<1>3. /\ UNCHANGED <<client, post, routed, owner, turns, queue, turnSeq, recovery, tombstones>>
      /\ blocked' = <<>> /\ wire' \in {wire, <<r>> \o wire}
  BY DEF PutCancelled, boundaryVars, requestVars
<1>4. state' = state \/ (state' = [state EXCEPT ![c] = s] /\ ~state[c].seen)
  BY <1>1, <1>2 DEF PutCancelled, StateTypes, States
<1>5. r \in Pending /\ In(wire) \subseteq Pending /\ \A x \in In(wire) : Before(r, x)
  BY <1>1 DEF Pending, Windows, Order
<1>6. /\ s.prior = state[c].prior /\ s.recovery = state[c].recovery
      /\ s.started = state[c].started /\ s.seen = state[c].seen /\ s.ready = b
  BY <1>2 DEF States
<1>7. b <=> state[c].ready /\ state[c].started
  OBVIOUS
<1> HIDE DEF r, c, b, s
<1>8. /\ owner # None => /\ state'[owner].prior = state[owner].prior
                         /\ state'[owner].recovery = state[owner].recovery
                         /\ state'[owner].seen = state[owner].seen
                         /\ state'[owner].started = state[owner].started
                         /\ state'[owner].ready => state[owner].ready
                         /\ \/ state'[owner].ready = state[owner].ready
                            \/ ~state[owner].seen /\ (state[owner].started /\ state[owner].ready => state'[owner].ready)
  <2>1. CASE state' = state
    BY <2>1
  <2>2. CASE state' = [state EXCEPT ![c] = s] /\ ~state[c].seen
    <3>1. owner # None => state'[owner] = IF owner = c THEN s ELSE state[owner]
      BY <1>1, <2>2 DEF StateTypes, LeaseTypes
    <3> QED BY <1>6, <1>7, <2>2, <3>1
  <2> QED BY <1>4, <2>1, <2>2
<1>9. In(wire') \subseteq Pending /\ Ordered(wire')
  <2>1. CASE wire' = wire
    BY <1>5, <2>1 DEF Windows, Order
  <2>2. CASE wire' = <<r>> \o wire
    <3>1. <<r>> \in Seq(Records) /\ In(<<r>>) = {r} /\ Ordered(<<r>>)
      BY <1>2, OneRecord
    <3>2. \A x \in In(<<r>>), y \in In(wire) : Before(x, y)
      BY <1>5, <3>1
    <3>3. In(wire') = In(<<r>>) \cup In(wire) /\ Ordered(wire')
      BY <1>1, <2>2, <3>1, <3>2, InJoin DEF Windows, Order
    <3> QED BY <1>5, <3>1, <3>3
  <2> QED BY <1>3, <2>1, <2>2
<1>10. Pending' \subseteq Pending
  BY <1>3, <1>9 DEF Pending, In
<1>11. OneByOne' /\ \A d : Clean(d)' <=> Clean(d)
  BY <1>3, LeaseKept
<1>12. Order'
  BY <1>3, <1>9 DEF Order
<1>13. Sent'
  BY <1>3, <1>10, SentStays DEF Windows
<1>14. OwnerState'
  BY <1>3, <1>8, <1>11 DEF Windows, OwnerState
<1>15. Fenced'
  <2>1. \A x : Fence(x)' <=> Fence(x)
    BY <1>3 DEF Fence, Key
  <2> SUFFICES ASSUME NEW x \in Pending', Clean(x.of)
               PROVE  IF x.of = owner THEN ~state'[owner].seen
                      ELSE Fence(x) /\ (owner # None => ~state'[owner].ready)
    BY <1>3, <1>11, <2>1 DEF Fenced
  <2>2. IF x.of = owner THEN ~state[owner].seen
        ELSE Fence(x) /\ (owner # None => ~state[owner].ready)
    BY <1>10 DEF Windows, Fenced
  <2>3. x.of # None
    BY <1>1, <1>10, PendingType
  <2> QED BY <1>8, <2>2, <2>3
<1>16. Delivered'
  BY <1>3, <1>11 DEF Windows, Delivered, In
<1> QED BY <1>11, <1>12, <1>13, <1>14, <1>15, <1>16 DEF Windows

-------------------------------------------------------------------------------
LEMMA WindowsInitially == Init => Windows
<1> SUFFICES ASSUME Init PROVE Windows OBVIOUS
<1>1. Pending = {} /\ Ordered(wire)
  BY DEF Init, Pending, In, Ordered
<1>2. \A c \in Calls : /\ client[c].pc = "idle" /\ client[c].result = "none" /\ ~client[c].ran
                       /\ In(queue[c].records) = {}
  BY DEF Init, FreshClient, In
<1>3. OneByOne
  BY <1>2 DEF OneByOne
<1>4. Order
  BY <1>1 DEF Init, Order
<1>5. Sent /\ Fenced
  BY <1>1 DEF Sent, Fenced
<1>6. OwnerState
  BY DEF Init, OwnerState
<1>7. Delivered
  BY <1>2 DEF Init, Delivered
<1> QED BY <1>3, <1>4, <1>5, <1>6, <1>7 DEF Windows

LEMMA WindowsStutter ==
  ASSUME IInv, Windows, UNCHANGED vars
  PROVE  Windows'
<1>1. UNCHANGED <<client, wire, turns, blocked, owner, turnSeq, recovery, tombstones, routed,
                  state, queue, post>>
  BY DEF vars, collectorVars, boundaryVars, piVars, requestVars
<1> QED BY <1>1, SameState, QuietStep DEF In

LEMMA WindowsStep == IInv /\ Windows /\ [Next]_vars => Windows'
<1> SUFFICES ASSUME IInv, Windows, [Next]_vars PROVE Windows'
  OBVIOUS
<1>1. ASSUME NEW c \in Calls, Handler(c) PROVE Windows'
  BY <1>1, RegisterWindows, RegisterTimesOutWindows, DeregisterWaitsWindows, DeregisterWindows, Zenon
     DEF Handler
<1>2. ASSUME NEW c \in Calls, Sdk(c) PROVE Windows'
  BY <1>2, StartWindows, RegisteredWindows, RegistrationFailsWindows, ReturnsWindows,
     OutcomeEndsWindows, FinalizerEndsWindows, CompensationEndsWindows, Zenon DEF Sdk
<1>3. ASSUME NEW c \in Calls,
             StreamAttaches(c) \/ StreamReads(c) \/ StreamDetaches(c) \/ ConsumerLeaves(c)
      PROVE  Windows'
  BY <1>3, StreamAttachesWindows, StreamReadsWindows, StreamDetachesWindows,
     ConsumerLeavesWindows, Zenon
<1>4. CASE Route \/ PutEnds \/ PutCancelled
  BY <1>4, RouteToNobodyWindows, RouteToWindows, PutEndsWindows, PutCancelledWindows, Zenon
<1>5. CASE UNCHANGED vars
  BY <1>5, WindowsStutter, Zenon
<1> QED BY <1>1, <1>2, <1>3, <1>4, <1>5, Zenon DEF Next

\* What keeps the records of one invocation out of the window of another, in every state: the
\* fence the lease's end leaves, and the order in which the publisher sends
\* (_resolve_pi_boundary, _set_pi_recovery, _route_request).
THEOREM WindowInvariance == Spec => []Windows
<1> HIDE DEF IInv, Windows, vars
<1> QED BY Invariance, WindowsInitially, WindowsStep, PTL DEF Spec

\* A record that reaches the queue of another call than its own is of an invocation that was
\* released without a fence, or of one after such a release (_route_request, deregister).
THEOREM RecordsKeepToTheirWindow == Spec => []RecordsStayInTheirWindow
<1>1. ASSUME Windows, NEW c \in Calls,
             NEW r \in {queue[c].records[i] : i \in DOMAIN queue[c].records}
      PROVE  r.of = c \/ \E d \in 1..r.of : Released(d)
  BY <1>1 DEF Windows, Delivered, In, Clean
<1>2. Windows => RecordsStayInTheirWindow
  BY <1>1 DEF RecordsStayInTheirWindow
<1> HIDE DEF Windows, RecordsStayInTheirWindow
<1> QED BY <1>2, WindowInvariance, PTL
================================================================================
