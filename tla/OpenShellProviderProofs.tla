------------------------ MODULE OpenShellProviderProofs ------------------------
(****************************************************************************)
(* For any number of environments and sandboxes: what the provider reports  *)
(* of a release or of a failed prepare is true, and what it sends by name   *)
(* does not hit a sandbox that had replaced the one it checked.             *)
(****************************************************************************)
EXTENDS OpenShellProvider, TLAPS

Busy == {"get", "act", "sent", "wait"}
Alive(s) == phase[s] \in {"up", "deleting"}
Owned(e) == ownership[e] = "fabric_owned"

\* A request for a sandbox that is to be deleted is one of the environment that owns it.
Jobs ==
  \A e \in Environments :
    /\ pc[e] \in {"create", "lookup", "ready"} => Owned(e) /\ job[e] = "prepare"
    /\ pc[e] \in Busy => /\ bound[e] \in Sandboxes
                         /\ job[e] \in {"prepare", "release", "exec"}
                         /\ job[e] # "exec" => Owned(e)
    /\ pc[e] \in {"ready", "held"} => bound[e] \in Sandboxes
    /\ pc[e] = "wait" => job[e] # "exec"
    /\ pc[e] = "released" /\ Owned(e) => bound[e] \in Sandboxes

\* The labels tell who made a sandbox: one at most for an environment.
Labels ==
  \A e \in Environments :
    /\ bound[e] # None => /\ phase[bound[e]] # "unborn"
                          /\ Owned(e) => label[bound[e]] = e
    /\ e \in creating \/ pc[e] = "idle" => \A s \in Sandboxes : label[s] # e
    /\ e \in creating => pc[e] # "idle"
    /\ \A s, u \in Sandboxes : label[s] = e /\ label[u] = e => s = u
    /\ \A s \in Sandboxes : phase[s] = "unborn" => label[s] = None

\* What the gateway has answered, to whom.
Waiting == \A e \in Environments : answer[e] # None => pc[e] \in {"create", "sent"}

Created ==
  \A e \in Environments :
    pc[e] = "create" /\ answer[e] # None =>
      answer[e] \in Sandboxes /\ phase[answer[e]] # "unborn" /\ label[answer[e]] = e

AbsentIsGone == \A e \in Environments : answer[e] = "absent" => phase[bound[e]] = "gone"

Unanswered ==
  \A d \in pending : d.waited => d.bound = bound[d.env] /\ answer[d.env] = None

\* What was known when an id was checked.
Checks ==
  /\ \A e \in Environments :
       /\ \A s \in known[e] : phase[s] # "unborn"
       /\ pc[e] = "act" /\ named \in known[e] => named = bound[e]
  /\ \A d \in pending : \A s \in d.known : phase[s] # "unborn"

IInv ==
  /\ TypeOK /\ Jobs /\ Labels /\ Waiting /\ Created /\ AbsentIsGone
  /\ Unanswered /\ Checks
  /\ ChecksProtectReplacements /\ ReleasedMeansGone /\ FailedPrepareLeavesNothing

-------------------------------------------------------------------------------
(* One lemma for each action.  The conjuncts of IInv depend on one another in *)
(* almost every step, so all of them are visible.                             *)

USE ProviderAssumption
  DEF IInv, TypeOK, Jobs, Labels, Waiting, Created, AbsentIsGone, Unanswered, Checks,
      ChecksProtectReplacements, ReleasedMeansGone, FailedPrepareLeavesNothing, Busy, Owned,
      Actions, Goto, Enter, vars, requestVars, gatewayVars, pathVars

\* What is not waited for any more stays what it was, or is dropped.
LEMMA UnwaitedFacts ==
  ASSUME IInv, NEW e \in Environments, pending' \in Unwaited(e)
  PROVE  /\ pending' \subseteq Actions
         /\ \A d \in pending' : d.waited => d \in pending /\ d.env # e
         /\ \A d \in pending' : \E f \in pending :
              f.op = d.op /\ f.env = d.env /\ f.bound = d.bound /\ f.known = d.known
<1> DEFINE mine == {d \in pending : d.env = e /\ d.waited}
           rest == {[d EXCEPT !.waited = FALSE] : d \in mine}
<1>1. \A d \in rest : /\ d \in Actions /\ ~d.waited
                      /\ \E f \in pending : /\ f.op = d.op /\ f.env = d.env
                                             /\ f.bound = d.bound /\ f.known = d.known
  <2> SUFFICES ASSUME NEW d \in rest
               PROVE  /\ d \in Actions /\ ~d.waited
                      /\ \E f \in pending : /\ f.op = d.op /\ f.env = d.env
                                             /\ f.bound = d.bound /\ f.known = d.known
    BY Zenon
  <2>0. PICK f \in mine : d = [f EXCEPT !.waited = FALSE]
    BY Zenon
  <2>1. f \in [op : {"delete", "exec"}, env : Environments, bound : Sandboxes,
               known : SUBSET Sandboxes, waited : BOOLEAN]
    OBVIOUS
  <2>2. f \in pending
    OBVIOUS
  <2> HIDE DEF mine, rest, IInv, TypeOK
  <2>3. d \in Actions /\ ~d.waited
    BY <2>0, <2>1
  <2>4. f.op = d.op /\ f.env = d.env /\ f.bound = d.bound /\ f.known = d.known
    BY <2>0, <2>1
  <2> QED BY <2>2, <2>3, <2>4
<1>2. pending' \subseteq (pending \ mine) \cup rest
  BY DEF Unwaited
<1> QED BY <1>1, <1>2

LEMMA PrepareStep ==
  ASSUME IInv, NEW e \in Environments, Prepare(e)
  PROVE  IInv'
BY SMTT(60) DEF Prepare

LEMMA PrepareFailsStep ==
  ASSUME IInv, NEW e \in Environments, PrepareFails(e)
  PROVE  IInv'
BY SMTT(60) DEF PrepareFails

LEMMA CreateReturnsStep ==
  ASSUME IInv, NEW e \in Environments, CreateReturns(e)
  PROVE  IInv'
<1>1. TypeOK'
  BY SMTT(20) DEF CreateReturns
<1>2. Jobs'
  BY SMTT(20) DEF CreateReturns
<1>3. Labels'
  BY SMTT(20) DEF CreateReturns
<1>4. Waiting'
  BY SMTT(20) DEF CreateReturns
<1>5. Created'
  BY SMTT(20) DEF CreateReturns
<1>6. AbsentIsGone'
  BY SMTT(20) DEF CreateReturns
<1>7. Unanswered'
  BY SMTT(20) DEF CreateReturns
<1>8. Checks'
  BY SMTT(20) DEF CreateReturns
<1>9. ChecksProtectReplacements'
  BY SMTT(20) DEF CreateReturns
<1>10. ReleasedMeansGone'
  BY SMTT(20) DEF CreateReturns
<1>11. FailedPrepareLeavesNothing'
  BY SMTT(20) DEF CreateReturns
<1> QED BY <1>1, <1>2, <1>3, <1>4, <1>5, <1>6, <1>7, <1>8, <1>9, <1>10, <1>11

LEMMA CreateFailsStep ==
  ASSUME IInv, NEW e \in Environments, CreateFails(e)
  PROVE  IInv'
<1>0. /\ pending' \subseteq Actions
      /\ \A d \in pending' : d.waited => d \in pending /\ d.env # e
      /\ \A d \in pending' : \E f \in pending :
           f.op = d.op /\ f.env = d.env /\ f.bound = d.bound /\ f.known = d.known
  BY UnwaitedFacts DEF CreateFails, Abandon
<1>1. TypeOK'
  BY <1>0, SMTT(20) DEF CreateFails, Abandon
<1>2. Jobs'
  BY <1>0, SMTT(20) DEF CreateFails, Abandon
<1>3. Labels'
  BY <1>0, SMTT(20) DEF CreateFails, Abandon
<1>4. Waiting'
  BY <1>0, SMTT(20) DEF CreateFails, Abandon
<1>5. Created'
  BY <1>0, SMTT(20) DEF CreateFails, Abandon
<1>6. AbsentIsGone'
  BY <1>0, SMTT(20) DEF CreateFails, Abandon
<1>7. Unanswered'
  BY <1>0, SMTT(20) DEF CreateFails, Abandon
<1>8. Checks'
  BY <1>0, SMTT(20) DEF CreateFails, Abandon
<1>9. ChecksProtectReplacements'
  BY <1>0, SMTT(20) DEF CreateFails, Abandon
<1>10. ReleasedMeansGone'
  BY <1>0, SMTT(20) DEF CreateFails, Abandon
<1>11. FailedPrepareLeavesNothing'
  BY <1>0, SMTT(20) DEF CreateFails, Abandon
<1> QED BY <1>1, <1>2, <1>3, <1>4, <1>5, <1>6, <1>7, <1>8, <1>9, <1>10, <1>11

LEMMA LookupStep ==
  ASSUME IInv, NEW e \in Environments, Lookup(e)
  PROVE  IInv'
<1>1. TypeOK'
  <2>1. CASE named # None /\ label[named] = e
    BY <2>1, SMTT(30) DEF Lookup
  <2>2. CASE ~(named # None /\ label[named] = e)
    BY <2>2, SMTT(30) DEF Lookup
  <2> QED BY <2>1, <2>2
<1>2. Jobs'
  BY SMTT(20) DEF Lookup
<1>3. Labels'
  BY SMTT(20) DEF Lookup
<1>4. Waiting'
  BY SMTT(20) DEF Lookup
<1>5. Created'
  BY SMTT(20) DEF Lookup
<1>6. AbsentIsGone'
  BY SMTT(20) DEF Lookup
<1>7. Unanswered'
  BY SMTT(20) DEF Lookup
<1>8. Checks'
  BY SMTT(20) DEF Lookup
<1>9. ChecksProtectReplacements'
  BY SMTT(20) DEF Lookup
<1>10. ReleasedMeansGone'
  BY SMTT(20) DEF Lookup
<1>11. FailedPrepareLeavesNothing'
  BY SMTT(20) DEF Lookup
<1> QED BY <1>1, <1>2, <1>3, <1>4, <1>5, <1>6, <1>7, <1>8, <1>9, <1>10, <1>11

LEMMA LookupFailsStep ==
  ASSUME IInv, NEW e \in Environments, LookupFails(e)
  PROVE  IInv'
BY SMTT(60) DEF LookupFails

LEMMA ReadyStep ==
  ASSUME IInv, NEW e \in Environments, Ready(e)
  PROVE  IInv'
BY SMTT(60) DEF Ready

LEMMA ReadyFailsStep ==
  ASSUME IInv, NEW e \in Environments, ReadyFails(e)
  PROVE  IInv'
BY SMTT(60) DEF ReadyFails

LEMMA AttachStep ==
  ASSUME IInv, NEW e \in Environments, NEW s \in Sandboxes, Attach(e, s)
  PROVE  IInv'
<1>1. TypeOK'
  BY SMTT(20) DEF Attach
<1>2. Jobs'
  BY SMTT(20) DEF Attach
<1>3. Labels'
  BY SMTT(20) DEF Attach
<1>4. Waiting'
  BY SMTT(20) DEF Attach
<1>5. Created'
  BY SMTT(20) DEF Attach
<1>6. AbsentIsGone'
  BY SMTT(20) DEF Attach
<1>7. Unanswered'
  BY SMTT(20) DEF Attach
<1>8. Checks'
  BY SMTT(20) DEF Attach
<1>9. ChecksProtectReplacements'
  BY SMTT(20) DEF Attach
<1>10. ReleasedMeansGone'
  BY SMTT(20) DEF Attach
<1>11. FailedPrepareLeavesNothing'
  BY SMTT(20) DEF Attach
<1> QED BY <1>1, <1>2, <1>3, <1>4, <1>5, <1>6, <1>7, <1>8, <1>9, <1>10, <1>11

LEMMA CommandBeginsStep ==
  ASSUME IInv, NEW e \in Environments, CommandBegins(e)
  PROVE  IInv'
BY SMTT(60) DEF CommandBegins

LEMMA ReleaseBeginsStep ==
  ASSUME IInv, NEW e \in Environments, ReleaseBegins(e)
  PROVE  IInv'
BY SMTT(60) DEF ReleaseBegins

LEMMA GetStep ==
  ASSUME IInv, NEW e \in Environments, Get(e)
  PROVE  IInv'
BY SMTT(60) DEF Get, Verified, Confirmed, Unconfirmed

LEMMA ActStep ==
  ASSUME IInv, NEW e \in Environments, Act(e)
  PROVE  IInv'
<1> DEFINE new == [op |-> IF job[e] = "exec" THEN "exec" ELSE "delete", env |-> e,
                   bound |-> bound[e], known |-> known[e], waited |-> TRUE]
<1>0. /\ new \in Actions /\ pending' = pending \cup {new} /\ pc'[e] = "sent"
      /\ \A d \in pending : d.waited => d.env # e
  BY SMTT(20) DEF Act
<1>1. TypeOK'
  <2>1. \A d \in pending : d.waited => pc'[d.env] = "sent" /\ d.env # e
    BY <1>0, SMTT(20) DEF Act
  <2>2. new.env = e
    OBVIOUS
  <2> HIDE DEF new
  <2>3. ASSUME NEW d \in pending', d.waited
        PROVE  pc'[d.env] = "sent" /\ \A f \in pending' : f.waited /\ f.env = d.env => f = d
    <3>1. CASE d = new
      BY <1>0, <2>1, <2>2, <3>1, Zenon
    <3>2. CASE d \in pending
      <4>1. \A f \in pending : f.waited /\ f.env = d.env => f = d
        BY <2>3, <3>2
      <4>2. pc'[d.env] = "sent" /\ d.env # e
        BY <2>1, <2>3, <3>2
      <4>3. \A f \in pending' : f.waited /\ f.env = d.env => f \in pending
        BY <1>0, <2>2, <4>2, Zenon
      <4> QED BY <4>1, <4>2, <4>3, Zenon
    <3> QED BY <1>0, <3>1, <3>2, Zenon
  <2>4. pending' \subseteq Actions
    BY <1>0
  <2> QED BY <2>3, <2>4, SMTT(20) DEF Act
<1>2. Jobs'
  BY SMTT(20) DEF Act
<1>3. Labels'
  BY SMTT(20) DEF Act
<1>4. Waiting'
  BY SMTT(20) DEF Act
<1>5. Created'
  BY SMTT(20) DEF Act
<1>6. AbsentIsGone'
  BY SMTT(20) DEF Act
<1>7. Unanswered'
  BY SMTT(20) DEF Act
<1>8. Checks'
  BY SMTT(20) DEF Act
<1>9. ChecksProtectReplacements'
  BY SMTT(20) DEF Act
<1>10. ReleasedMeansGone'
  BY SMTT(20) DEF Act
<1>11. FailedPrepareLeavesNothing'
  BY SMTT(20) DEF Act
<1> QED BY <1>1, <1>2, <1>3, <1>4, <1>5, <1>6, <1>7, <1>8, <1>9, <1>10, <1>11

LEMMA AnsweredStep ==
  ASSUME IInv, NEW e \in Environments, Answered(e)
  PROVE  IInv'
<1>1. TypeOK'
  BY SMTT(20) DEF Answered, Gone, Confirmed, Unconfirmed
<1>2. Jobs'
  BY SMTT(20) DEF Answered, Gone, Confirmed, Unconfirmed
<1>3. Labels'
  BY SMTT(20) DEF Answered, Gone, Confirmed, Unconfirmed
<1>4. Waiting'
  BY SMTT(20) DEF Answered, Gone, Confirmed, Unconfirmed
<1>5. Created'
  BY SMTT(20) DEF Answered, Gone, Confirmed, Unconfirmed
<1>6. AbsentIsGone'
  BY SMTT(20) DEF Answered, Gone, Confirmed, Unconfirmed
<1>7. Unanswered'
  BY SMTT(20) DEF Answered, Gone, Confirmed, Unconfirmed
<1>8. Checks'
  BY SMTT(20) DEF Answered, Gone, Confirmed, Unconfirmed
<1>9. ChecksProtectReplacements'
  BY SMTT(20) DEF Answered, Gone, Confirmed, Unconfirmed
<1>10. ReleasedMeansGone'
  BY SMTT(20) DEF Answered, Gone, Confirmed, Unconfirmed
<1>11. FailedPrepareLeavesNothing'
  BY SMTT(20) DEF Answered, Gone, Confirmed, Unconfirmed
<1> QED BY <1>1, <1>2, <1>3, <1>4, <1>5, <1>6, <1>7, <1>8, <1>9, <1>10, <1>11

LEMMA DeletedStep ==
  ASSUME IInv, NEW e \in Environments, Deleted(e)
  PROVE  IInv'
BY SMTT(60) DEF Deleted, Confirmed

LEMMA CallFailsStep ==
  ASSUME IInv, NEW e \in Environments, CallFails(e)
  PROVE  IInv'
<1>0. /\ pending' \subseteq Actions
      /\ \A d \in pending' : d.waited => d \in pending /\ d.env # e
      /\ \A d \in pending' : \E f \in pending :
           f.op = d.op /\ f.env = d.env /\ f.bound = d.bound /\ f.known = d.known
  BY UnwaitedFacts DEF CallFails, Abandon, Unconfirmed
<1>1. TypeOK'
  BY <1>0, SMTT(20) DEF CallFails, Abandon, Unconfirmed
<1>2. Jobs'
  BY <1>0, SMTT(20) DEF CallFails, Abandon, Unconfirmed
<1>3. Labels'
  BY <1>0, SMTT(20) DEF CallFails, Abandon, Unconfirmed
<1>4. Waiting'
  BY <1>0, SMTT(20) DEF CallFails, Abandon, Unconfirmed
<1>5. Created'
  BY <1>0, SMTT(20) DEF CallFails, Abandon, Unconfirmed
<1>6. AbsentIsGone'
  BY <1>0, SMTT(20) DEF CallFails, Abandon, Unconfirmed
<1>7. Unanswered'
  BY <1>0, SMTT(20) DEF CallFails, Abandon, Unconfirmed
<1>8. Checks'
  BY <1>0, SMTT(20) DEF CallFails, Abandon, Unconfirmed
<1>9. ChecksProtectReplacements'
  BY <1>0, SMTT(20) DEF CallFails, Abandon, Unconfirmed
<1>10. ReleasedMeansGone'
  BY <1>0, SMTT(20) DEF CallFails, Abandon, Unconfirmed
<1>11. FailedPrepareLeavesNothing'
  BY <1>0, SMTT(20) DEF CallFails, Abandon, Unconfirmed
<1> QED BY <1>1, <1>2, <1>3, <1>4, <1>5, <1>6, <1>7, <1>8, <1>9, <1>10, <1>11

LEMMA ProviderDiesStep ==
  ASSUME IInv, NEW e \in Environments, ProviderDies(e)
  PROVE  IInv'
<1>0. /\ pending' \subseteq Actions
      /\ \A d \in pending' : d.waited => d \in pending /\ d.env # e
      /\ \A d \in pending' : \E f \in pending :
           f.op = d.op /\ f.env = d.env /\ f.bound = d.bound /\ f.known = d.known
  BY UnwaitedFacts DEF ProviderDies, Abandon
<1>1. TypeOK'
  BY <1>0, SMTT(20) DEF ProviderDies, Abandon
<1>2. Jobs'
  BY <1>0, SMTT(20) DEF ProviderDies, Abandon
<1>3. Labels'
  BY <1>0, SMTT(20) DEF ProviderDies, Abandon
<1>4. Waiting'
  BY <1>0, SMTT(20) DEF ProviderDies, Abandon
<1>5. Created'
  BY <1>0, SMTT(20) DEF ProviderDies, Abandon
<1>6. AbsentIsGone'
  BY <1>0, SMTT(20) DEF ProviderDies, Abandon
<1>7. Unanswered'
  BY <1>0, SMTT(20) DEF ProviderDies, Abandon
<1>8. Checks'
  BY <1>0, SMTT(20) DEF ProviderDies, Abandon
<1>9. ChecksProtectReplacements'
  BY <1>0, SMTT(20) DEF ProviderDies, Abandon
<1>10. ReleasedMeansGone'
  BY <1>0, SMTT(20) DEF ProviderDies, Abandon
<1>11. FailedPrepareLeavesNothing'
  BY <1>0, SMTT(20) DEF ProviderDies, Abandon
<1> QED BY <1>1, <1>2, <1>3, <1>4, <1>5, <1>6, <1>7, <1>8, <1>9, <1>10, <1>11

LEMMA GatewayCreatesStep ==
  ASSUME IInv, NEW e \in Environments, NEW s \in Sandboxes, GatewayCreates(e, s)
  PROVE  IInv'
<1>1. TypeOK'
  BY SMTT(20) DEF GatewayCreates, Takes
<1>2. Jobs'
  BY SMTT(20) DEF GatewayCreates, Takes
<1>3. Labels'
  <2> SUFFICES ASSUME NEW f \in Environments
               PROVE  /\ bound'[f] # None => /\ phase'[bound'[f]] # "unborn"
                                             /\ Owned(f)' => label'[bound'[f]] = f
                      /\ f \in creating' \/ pc'[f] = "idle" => \A u \in Sandboxes : label'[u] # f
                      /\ f \in creating' => pc'[f] # "idle"
                      /\ \A u, v \in Sandboxes : label'[u] = f /\ label'[v] = f => u = v
                      /\ \A u \in Sandboxes : phase'[u] = "unborn" => label'[u] = None
    OBVIOUS
  <2>1. bound'[f] # None => phase'[bound'[f]] # "unborn" /\ (Owned(f)' => label'[bound'[f]] = f)
    BY SMTT(20) DEF GatewayCreates, Takes
  <2>2. f \in creating' \/ pc'[f] = "idle" => \A u \in Sandboxes : label'[u] # f
    BY SMTT(20) DEF GatewayCreates, Takes
  <2>3. \A u, v \in Sandboxes : label'[u] = f /\ label'[v] = f => u = v
    BY SMTT(20) DEF GatewayCreates, Takes
  <2>4. \A u \in Sandboxes : phase'[u] = "unborn" => label'[u] = None
    BY SMTT(20) DEF GatewayCreates, Takes
  <2>5. f \in creating' => pc'[f] # "idle"
    BY SMTT(20) DEF GatewayCreates, Takes
  <2> QED BY <2>1, <2>2, <2>3, <2>4, <2>5
<1>4. Waiting'
  BY SMTT(20) DEF GatewayCreates, Takes
<1>5. Created'
  BY SMTT(20) DEF GatewayCreates, Takes
<1>6. AbsentIsGone'
  BY SMTT(20) DEF GatewayCreates, Takes
<1>7. Unanswered'
  BY SMTT(20) DEF GatewayCreates, Takes
<1>8. Checks'
  BY SMTT(20) DEF GatewayCreates, Takes
<1>9. ChecksProtectReplacements'
  BY SMTT(20) DEF GatewayCreates, Takes
<1>10. ReleasedMeansGone'
  BY SMTT(20) DEF GatewayCreates, Takes
<1>11. FailedPrepareLeavesNothing'
  BY SMTT(20) DEF GatewayCreates, Takes
<1> QED BY <1>1, <1>2, <1>3, <1>4, <1>5, <1>6, <1>7, <1>8, <1>9, <1>10, <1>11

LEMMA GatewayActsStep ==
  ASSUME IInv, NEW d \in pending, GatewayActs(d)
  PROVE  IInv'
<1>1. TypeOK'
  BY SMTT(20) DEF GatewayActs, Expire
<1>2. Jobs'
  BY SMTT(20) DEF GatewayActs, Expire
<1>3. Labels'
  BY SMTT(20) DEF GatewayActs, Expire
<1>4. Waiting'
  BY SMTT(20) DEF GatewayActs, Expire
<1>5. Created'
  BY SMTT(20) DEF GatewayActs, Expire
<1>6. AbsentIsGone'
  BY SMTT(20) DEF GatewayActs, Expire
<1>7. Unanswered'
  BY SMTT(20) DEF GatewayActs, Expire
<1>8. Checks'
  BY SMTT(20) DEF GatewayActs, Expire
<1>9. ChecksProtectReplacements'
  BY SMTT(20) DEF GatewayActs, Expire
<1>10. ReleasedMeansGone'
  BY SMTT(20) DEF GatewayActs, Expire
<1>11. FailedPrepareLeavesNothing'
  BY SMTT(20) DEF GatewayActs, Expire
<1> QED BY <1>1, <1>2, <1>3, <1>4, <1>5, <1>6, <1>7, <1>8, <1>9, <1>10, <1>11

LEMMA GatewayRemovesStep ==
  ASSUME IInv, GatewayRemoves
  PROVE  IInv'
BY SMTT(60) DEF GatewayRemoves

LEMMA OthersCreateStep ==
  ASSUME IInv, NEW s \in Sandboxes, OthersCreate(s)
  PROVE  IInv'
BY SMTT(60) DEF OthersCreate, Takes

LEMMA OthersDeleteStep ==
  ASSUME IInv, OthersDelete
  PROVE  IInv'
BY SMTT(60) DEF OthersDelete, Expire

-------------------------------------------------------------------------------

LEMMA Start == Init => IInv
BY SMTT(60) DEF Init

LEMMA Stutter ==
  ASSUME IInv, UNCHANGED vars
  PROVE  IInv'
BY SMTT(60)

LEMMA Step == IInv /\ [Next]_vars => IInv'
<1> SUFFICES ASSUME IInv, [Next]_vars PROVE IInv'
  OBVIOUS
<1> HIDE DEF IInv
<1>1. ASSUME NEW e \in Environments, Request(e) PROVE IInv'
  BY <1>1, PrepareStep, PrepareFailsStep, CreateReturnsStep, CreateFailsStep, LookupStep,
     LookupFailsStep, ReadyStep, ReadyFailsStep, AttachStep, CommandBeginsStep,
     ReleaseBeginsStep, GetStep, ActStep, AnsweredStep, DeletedStep, CallFailsStep,
     ProviderDiesStep, Zenon DEF Request
<1>2. CASE Gateway
  BY <1>2, GatewayCreatesStep, GatewayActsStep, GatewayRemovesStep, OthersCreateStep,
     OthersDeleteStep, Zenon DEF Gateway
<1>3. CASE UNCHANGED vars
  BY <1>3, Stutter, Zenon
<1> QED BY <1>1, <1>2, <1>3, Zenon DEF Next

\* IInv is inductive: it holds in every state of the specification.
THEOREM Invariance == Spec => []IInv
<1> HIDE DEF IInv, vars
<1> QED BY Start, Step, PTL DEF Spec

\* The variables have their types; at most one call of an environment is waited for, and
\* the one name resolves to the one sandbox that lives.
THEOREM TypeCorrect == Spec => []TypeOK
<1>1. IInv => TypeOK
  OBVIOUS
<1> HIDE DEF IInv, TypeOK
<1> QED BY <1>1, Invariance, PTL

\* A command or deletion sent by name never reaches a sandbox that had replaced the one
\* whose id was checked by the time of the check (SandboxBinding.verify).
THEOREM ReplacementsAreProtected == Spec => []ChecksProtectReplacements
<1>1. IInv => ChecksProtectReplacements
  OBVIOUS
<1> HIDE DEF IInv, ChecksProtectReplacements
<1> QED BY <1>1, Invariance, PTL

\* A release of an owned sandbox that reports success is true: the sandbox is gone
\* (release_environment), also when calls were lost, retried, or took effect late.
THEOREM ReleasesAreTrue == Spec => []ReleasedMeansGone
<1>1. IInv => ReleasedMeansGone
  OBVIOUS
<1> HIDE DEF IInv, ReleasedMeansGone
<1> QED BY <1>1, Invariance, PTL

\* A prepare that fails with its own error leaves no sandbox that was there when it
\* looked for one (prepare_environment, cleanup_created_sandbox).
THEOREM FailedPreparesLeaveNothing == Spec => []FailedPrepareLeavesNothing
<1>1. IInv => FailedPrepareLeavesNothing
  OBVIOUS
<1> HIDE DEF IInv, FailedPrepareLeavesNothing
<1> QED BY <1>1, Invariance, PTL

====
