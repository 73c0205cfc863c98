------------------------- MODULE OpenShellRuntimesProofs -------------------------
(****************************************************************************)
(* For any number of threads, runtimes and workers: what the bindings say   *)
(* of the runtimes in a sandbox is true, starts wait for what is uncertain, *)
(* and a release is not overtaken by commands.                              *)
(****************************************************************************)
EXTENDS OpenShellRuntimes, TLAPS

Releasing(t) == pc[t] \in {"deleting", "released"}
before == [u \in Threads |-> saved[u][2]]
had == [u \in Threads |-> saved[u][1]]
lateStarts == {u \in Threads : <<"start", u>> \in late}
lateStops == {r \in Runtimes : <<"stop", r>> \in late}

\* What each call has set before it comes to a step.
Shape ==
  \A t \in Threads :
    /\ pc[t] = "idle" => op[t] = "none" /\ reply[t] = "none"
    /\ pc[t] \in {"fetch", "lock", "await", "drop", "retire", "done"} =>
         op[t] \in {"start", "invoke", "stop"}
    /\ pc[t] = "parse" => op[t] = "start"
    /\ Releasing(t) <=> op[t] = "release"
    /\ pc[t] \in {"lock", "await", "drop", "retire"} => worker[t] \in Workers
    /\ op[t] \in {"invoke", "stop"} \/ (op[t] = "start" /\ reply[t] = "returned") =>
         target[t] \in Runtimes
    /\ pc[t] = "fetch" => reply[t] = "none"
    /\ pc[t] = "lock" => reply[t] = "none"
    /\ ~had[t] => before[t] = NoBindings

\* One start at a time is between its claim and its end; the claim, or the mark of
\* its uncertainty, is on record.
Starts ==
  \A t \in Threads : op[t] = "start" =>
    /\ \A u \in Threads : op[u] = "start" => u = t
    /\ pc[t] # "parse" => bindings["start"] = "starting"
    /\ pc[t] = "parse" => bindings["unknownStart"] = "unknown"

\* The runtimes nobody knows of: one that the start under way will bind, or none that
\* a start may clear the record of.
Unbound ==
  \A t \in Threads : op[t] = "start" =>
    /\ reply[t] \in {"none", "refused"} =>
         lateStarts = {} /\ \A r \in served : bindings[r] # "absent"
    /\ reply[t] = "returned" =>
         /\ lateStarts = {} /\ target[t] \in served /\ target[t] \notin lateStops
         /\ bindings[target[t]] = "absent"
         /\ \A r \in served : bindings[r] = "absent" => r = target[t]

\* A command belongs to its binding, until an invocation is overtaken by a stop.
CommandsOwn ==
  \A t \in Threads :
    /\ op[t] = "stop" =>
         /\ bindings[target[t]] = "stopping"
         /\ reply[t] = "returned" => target[t] \notin served
         /\ \A u \in Threads : op[u] = "stop" /\ target[u] = target[t] => u = t
    /\ op[t] = "invoke" =>
         /\ bindings[target[t]] \in {"invoking", "stopping", "unknown", "stopped"}
         /\ \A u \in Threads : op[u] = "invoke" /\ target[u] = target[t] => u = t

Bound ==
  \A r \in Runtimes :
    /\ bindings[r] # "absent" \/ r \in lateStops => r \in drawn
    /\ bindings[r] \in {"active", "invoking"} => r \in served /\ r \notin lateStops
    /\ bindings[r] = "stopped" => r \notin served

\* What a release will put back is still true, and what runs meanwhile is harmless.
Releases ==
  \A u \in Threads : Releasing(u) =>
    /\ \A v \in Threads : Releasing(v) => v = u
    /\ bindings["release"] = "releasing"
    /\ before[u]["release"] = "absent" /\ before[u]["start"] = "absent"
    /\ lateStarts # {} \/ (\E r \in served : before[u][r] = "absent") =>
         before[u]["unknownStart"] = "unknown"
    /\ \A r \in Runtimes : /\ before[u][r] \in {"absent", "unknown", "stopped"}
                           /\ before[u][r] # "absent" => r \in drawn
                           /\ before[u][r] = "stopped" => r \notin served
    /\ pc[u] = "released" => ~(reply[u] = "returned" /\ owned)

DuringRelease ==
  \A u, t \in Threads : Releasing(u) =>
    /\ op[t] # "stop"
    /\ op[t] = "invoke" => /\ bindings[target[t]] \in {"unknown", "stopped"}
                           /\ before[u][target[t]] \in {"unknown", "stopped"}
    /\ op[t] = "start" => /\ pc[t] = "parse" /\ before[u]["unknownStart"] = "unknown"
                          /\ \A r \in Runtimes : bindings[r] = "absent" <=> before[u][r] = "absent"

\* All of it is about a sandbox that is up: in one that is gone a start that was
\* unanswered may bind its runtime over another's claim.
Orphans ==
  (\E r \in served : bindings[r] = "absent") \/ lateStarts # {} =>
    \E k \in Slots : bindings[k] # "absent"

Up == /\ Starts /\ Unbound /\ CommandsOwn /\ Bound /\ Releases /\ DuringRelease
      /\ Orphans

IInv == TypeOK /\ Shape /\ (sandbox = "up" => Up)

-------------------------------------------------------------------------------
(* What the state is made of, without the sets of records and pairs.        *)

Values == States \cup {"starting", "releasing"}

Types ==
  /\ bindings \in [Keys -> Values] /\ \A r \in Runtimes : bindings[r] \in States
  /\ \A k \in Slots : bindings[k] \in {"absent", SlotState(k)}
  /\ before \in [Threads -> [Keys -> Values]] /\ had \in [Threads -> BOOLEAN]
  /\ pc \in [Threads -> {"idle", "fetch", "lock", "await", "drop", "retire", "done",
                         "parse", "deleting", "released"}]
  /\ op \in [Threads -> {"none", "start", "invoke", "stop", "release"}]
  /\ target \in [Threads -> Runtimes \cup {None}]
  /\ reply \in [Threads -> {"none", "returned", "refused", "rejected", "lost"}]
  /\ worker \in [Threads -> Workers \cup {None}]
  /\ served \subseteq drawn /\ drawn \subseteq Runtimes
  /\ lateStarts \subseteq Threads /\ lateStops \subseteq Runtimes

USE OpenShellAssumption DEF Slots, Keys, States, SlotState

LEMMA TypeFacts == TypeOK => Types
<1> SUFFICES ASSUME TypeOK PROVE Types OBVIOUS
<1>1. /\ bindings \in [Keys -> Values] /\ \A r \in Runtimes : bindings[r] \in States
      /\ \A k \in Slots : bindings[k] \in {"absent", SlotState(k)}
  BY DEF TypeOK, Entries, Values
<1>2. \A u \in Threads : saved[u] \in BOOLEAN \X Entries
  BY DEF TypeOK
<1>3. \A u \in Threads : saved[u][1] \in BOOLEAN /\ saved[u][2] \in Entries
  BY <1>2
<1>4. Entries \subseteq [Keys -> Values]
  BY DEF Entries, Values
<1>5. before \in [Threads -> [Keys -> Values]] /\ had \in [Threads -> BOOLEAN]
  BY <1>3, <1>4 DEF before, had
<1> QED BY <1>1, <1>5 DEF TypeOK, Types, lateStarts, lateStops

LEMMA SlotSet ==
  ASSUME NEW b \in Entries, NEW k \in Slots, NEW v \in {"absent", SlotState(k)}
  PROVE  [b EXCEPT ![k] = v] \in Entries
BY DEF Entries

LEMMA RuntimeSet ==
  ASSUME NEW b \in Entries, NEW r \in Runtimes, NEW v \in States
  PROVE  [b EXCEPT ![r] = v] \in Entries
BY DEF Entries

LEMMA NoBindingsIsEntry == NoBindings \in Entries
BY DEF Entries, NoBindings

\* A step that touches neither the saved entries nor the late commands.
LEMMA SameSaved == saved' = saved => before' = before /\ had' = had
BY DEF before, had

LEMMA SameLate == late' = late => lateStarts' = lateStarts /\ lateStops' = lateStops
BY DEF lateStarts, lateStops

\* What is left behind by a call that gives up.
LEMMA Abandoned ==
  ASSUME TypeOK, Shape, NEW t \in Threads, pc[t] = "await", Abandons(t)
  PROVE  /\ late' \subseteq Commands
         /\ \/ lateStarts' = lateStarts /\ lateStops' = lateStops
            \/ /\ op[t] = "start" /\ reply[t] = "none"
               /\ lateStarts' = lateStarts \cup {t} /\ lateStops' = lateStops
            \/ /\ op[t] = "stop" /\ reply[t] = "none"
               /\ lateStops' = lateStops \cup {target[t]} /\ lateStarts' = lateStarts
<1>1. op[t] \in {"start", "invoke", "stop"} /\ (op[t] = "stop" => target[t] \in Runtimes)
  BY DEF Shape
<1>2. CASE late' = late
  BY <1>2, SameLate DEF TypeOK
<1>3. CASE late' = late \cup {<<"start", t>>} /\ op[t] = "start" /\ reply[t] = "none"
  <2>1. lateStarts' = lateStarts \cup {t} /\ lateStops' = lateStops
    BY <1>3 DEF lateStarts, lateStops
  <2>2. late' \subseteq Commands
    BY <1>3 DEF Commands, TypeOK
  <2> QED BY <1>3, <2>1, <2>2
<1>4. CASE late' = late \cup {<<"stop", target[t]>>} /\ op[t] = "stop" /\ reply[t] = "none"
  <2>1. lateStops' = lateStops \cup {target[t]} /\ lateStarts' = lateStarts
    BY <1>1, <1>4 DEF lateStarts, lateStops
  <2>2. late' \subseteq Commands
    BY <1>1, <1>4 DEF Commands, TypeOK
  <2> QED BY <1>4, <2>1, <2>2
<1> QED BY <1>1, <1>2, <1>3, <1>4 DEF Abandons, Command

\* A late command is executed at most once.
LEMMA ExecutedLate ==
  ASSUME TypeOK, NEW c \in late, late' = late \ {c}
  PROVE  /\ late' \subseteq Commands
         /\ \/ c[1] = "start" /\ lateStarts # {} /\ lateStops' = lateStops
               /\ lateStarts' \subseteq lateStarts
            \/ c[1] # "start" /\ c[2] \in lateStops /\ lateStarts' = lateStarts
               /\ lateStops' = lateStops \ {c[2]}
<1>1. c \in {"start"} \X Threads \/ c \in {"stop"} \X Runtimes
  BY DEF TypeOK, Commands
<1>2. CASE \E u \in Threads : c = <<"start", u>>
  <2> PICK u \in Threads : c = <<"start", u>>
    BY <1>2
  <2>1. c[1] = "start" /\ u \in lateStarts /\ lateStarts' \subseteq lateStarts
    BY DEF lateStarts
  <2>2. lateStops' = lateStops
    BY DEF lateStops
  <2> QED BY <2>1, <2>2 DEF TypeOK
<1>3. CASE \E r \in Runtimes : c = <<"stop", r>>
  <2> PICK r \in Runtimes : c = <<"stop", r>>
    BY <1>3
  <2>1. c[1] # "start" /\ c[2] = r
    OBVIOUS
  <2>2. r \in lateStops /\ lateStops' = lateStops \ {r}
    BY DEF lateStops
  <2>3. lateStarts' = lateStarts
    BY DEF lateStarts
  <2> QED BY <2>1, <2>2, <2>3 DEF TypeOK
<1> QED BY <1>1, <1>2, <1>3

LEMMA OrphansFacts == (sandbox = "up" => Orphans) <=> OrphanBlocksStarts
BY DEF Orphans, OrphanBlocksStarts, lateStarts

-------------------------------------------------------------------------------
(* One lemma for each action. *)

USE DEF IInv, Releasing, Goto, NoBindings, vars, bindingVars, threadVars, workerVars, worldVars

LEMMA StartClaimsStep ==
  ASSUME IInv, NEW t \in Threads, StartClaims(t)
  PROVE  IInv'
<1>1. Types
  BY TypeFacts DEF IInv
<1>2. before' = before /\ had' = had
  BY SameSaved DEF StartClaims, Begins
<1>3. lateStarts' = lateStarts /\ lateStops' = lateStops
  BY SameLate DEF StartClaims, Begins
<1>4. TypeOK'
  <2>1. bindings \in Entries
    BY DEF IInv, TypeOK
  <2>2. bindings' \in Entries
    BY <1>1, <2>1, SlotSet DEF Types, IInv, Shape, StartClaims, Begins
  <2> QED BY <2>2 DEF IInv, TypeOK, StartClaims, Begins
<1>5. Shape'
  BY <1>1, <1>2 DEF Types, IInv, Shape, StartClaims, Begins
<1>6. sandbox' = "up" => Starts'
  BY SMTT(20), <1>1 DEF Types, Up, Starts, StartClaims, Begins
<1>7. sandbox' = "up" => Unbound'
  BY SMTT(20), <1>3 DEF Shape, Up, Unbound, Orphans, StartClaims, Begins
<1>8. sandbox' = "up" => CommandsOwn'
  BY SMTT(20), <1>1 DEF Types, Up, CommandsOwn, StartClaims, Begins
<1>9. sandbox' = "up" => Bound'
  BY SMTT(20), <1>3 DEF Up, Bound, StartClaims, Begins
<1>10. sandbox' = "up" => Releases'
  BY SMTT(20) DEF Up, Releases, StartClaims, Begins
<1>11. sandbox' = "up" => DuringRelease'
  BY SMTT(20) DEF Up, Releases, DuringRelease, StartClaims, Begins
<1>12. sandbox' = "up" => Orphans'
  BY SMTT(20), <1>1 DEF Types, Orphans, StartClaims, Begins
<1> QED BY <1>4, <1>5, <1>6, <1>7, <1>8, <1>9, <1>10, <1>11, <1>12 DEF IInv, Up

LEMMA StartRefusedStep ==
  ASSUME IInv, NEW t \in Threads, StartRefused(t)
  PROVE  IInv'
<1>1. Types
  BY TypeFacts DEF IInv
<1>2. before' = before /\ had' = had
  BY SameSaved DEF StartRefused, At, NothingStarted, Returns
<1>3. lateStarts' = lateStarts /\ lateStops' = lateStops
  BY SameLate DEF StartRefused, At, NothingStarted, Returns
<1>4. TypeOK'
  <2>1. bindings \in Entries
    BY DEF IInv, TypeOK
  <2>2. bindings' \in Entries
    BY <1>1, <2>1, SlotSet DEF Types, IInv, Shape, StartRefused, At, NothingStarted, Returns
  <2> QED BY <2>2 DEF IInv, TypeOK, StartRefused, At, NothingStarted, Returns
<1>5. Shape'
  BY <1>1, <1>2 DEF Types, IInv, Shape, StartRefused, At, NothingStarted, Returns
<1>6. sandbox' = "up" => Starts'
  BY SMTT(20), <1>1 DEF Types, Up, Starts, StartRefused, At, NothingStarted, Returns
<1>7. sandbox' = "up" => Unbound'
  BY SMTT(20), <1>1, <1>3 DEF Types, Up, Unbound, StartRefused, At, NothingStarted, Returns
<1>8. sandbox' = "up" => CommandsOwn'
  BY SMTT(20), <1>1 DEF Types, Up, CommandsOwn, StartRefused, At, NothingStarted, Returns
<1>9. sandbox' = "up" => Bound'
  BY SMTT(20), <1>3 DEF Up, Bound, StartRefused, At, NothingStarted, Returns
<1>10. sandbox' = "up" => Releases'
  BY SMTT(20), <1>2, <1>3 DEF Up, Releases, StartRefused, At, NothingStarted, Returns
<1>11. sandbox' = "up" => DuringRelease'
  BY SMTT(20) DEF Up, DuringRelease, StartRefused, At, NothingStarted, Returns
<1>12. sandbox' = "up" => Orphans'
  BY SMTT(20), <1>1, <1>3 DEF Types, Up, Unbound, Orphans, StartRefused, At, NothingStarted, Returns
<1> QED BY <1>4, <1>5, <1>6, <1>7, <1>8, <1>9, <1>10, <1>11, <1>12 DEF IInv, Up

LEMMA StartIsUncertainStep ==
  ASSUME IInv, NEW t \in Threads, StartIsUncertain(t)
  PROVE  IInv'
<1>1. Types
  BY TypeFacts DEF IInv
<1>2. before' = before /\ had' = had
  BY SameSaved DEF StartIsUncertain, At, NothingStarted
<1>3. lateStarts' = lateStarts /\ lateStops' = lateStops
  BY SameLate DEF StartIsUncertain, At, NothingStarted
<1>4. TypeOK'
  <2>1. bindings \in Entries
    BY DEF IInv, TypeOK
  <2>2. bindings' \in Entries
    BY <1>1, <2>1, SlotSet DEF Types, IInv, Shape, StartIsUncertain, At, NothingStarted
  <2> QED BY <2>2 DEF IInv, TypeOK, StartIsUncertain, At, NothingStarted
<1>5. Shape'
  BY <1>1, <1>2 DEF Types, IInv, Shape, StartIsUncertain, At, NothingStarted
<1>6. sandbox' = "up" => Starts'
  BY SMTT(20), <1>1 DEF Types, Up, Starts, StartIsUncertain, At, NothingStarted
<1>7. sandbox' = "up" => Unbound'
  BY SMTT(20), <1>1, <1>3 DEF Types, Up, Unbound, StartIsUncertain, At, NothingStarted
<1>8. sandbox' = "up" => CommandsOwn'
  BY SMTT(20), <1>1 DEF Types, Shape, Up, CommandsOwn, StartIsUncertain, At, NothingStarted
<1>9. sandbox' = "up" => Bound'
  BY SMTT(20), <1>1, <1>3 DEF Types, Up, Bound, StartIsUncertain, At, NothingStarted
<1>10. sandbox' = "up" => Releases'
  BY SMTT(20), <1>1, <1>2, <1>3 DEF Types, Up, Releases, StartIsUncertain, At, NothingStarted
<1>11. sandbox' = "up" => DuringRelease'
  BY SMTT(20) DEF Up, DuringRelease, StartIsUncertain, At, NothingStarted
<1>12. sandbox' = "up" => Orphans'
  BY SMTT(20), <1>1 DEF Types, Orphans, StartIsUncertain, At, NothingStarted
<1> QED BY <1>4, <1>5, <1>6, <1>7, <1>8, <1>9, <1>10, <1>11, <1>12 DEF IInv, Up

LEMMA StartFailsStep ==
  ASSUME IInv, NEW t \in Threads, StartFails(t)
  PROVE  IInv'
<1>1. Types
  BY TypeFacts DEF IInv
<1>2. before' = before /\ had' = had
  BY SameSaved DEF StartFails, At, Returns
<1>3. lateStarts' = lateStarts /\ lateStops' = lateStops
  BY SameLate DEF StartFails, At, Returns
<1>4. TypeOK'
  BY DEF IInv, TypeOK, StartFails, At, Returns
<1>5. Shape'
  BY <1>1, <1>2 DEF Types, IInv, Shape, StartFails, At, Returns
<1>6. sandbox' = "up" => Starts'
  BY SMTT(20), <1>1 DEF Types, Up, Starts, StartFails, At, Returns
<1>7. sandbox' = "up" => Unbound'
  BY SMTT(20), <1>1, <1>3 DEF Types, Up, Unbound, StartFails, At, Returns
<1>8. sandbox' = "up" => CommandsOwn'
  BY SMTT(20) DEF Up, CommandsOwn, StartFails, At, Returns
<1>9. sandbox' = "up" => Bound'
  BY SMTT(20), <1>3 DEF Up, Bound, StartFails, At, Returns
<1>10. sandbox' = "up" => Releases'
  BY SMTT(20), <1>2, <1>3 DEF Up, Releases, StartFails, At, Returns
<1>11. sandbox' = "up" => DuringRelease'
  BY SMTT(20), <1>1, <1>2 DEF Types, Up, DuringRelease, StartFails, At, Returns
<1>12. sandbox' = "up" => Orphans'
  BY SMTT(20), <1>3 DEF Up, Orphans, StartFails, At, Returns
<1> QED BY <1>4, <1>5, <1>6, <1>7, <1>8, <1>9, <1>10, <1>11, <1>12 DEF IInv, Up

LEMMA StartBindsStep ==
  ASSUME IInv, NEW t \in Threads, StartBinds(t)
  PROVE  IInv'
<1>1. Types
  BY TypeFacts DEF IInv
<1>2. before' = before /\ had' = had
  BY SameSaved DEF StartBinds, At, Returns
<1>3. lateStarts' = lateStarts /\ lateStops' = lateStops
  BY SameLate DEF StartBinds, At, Returns
<1>4. TypeOK'
  <2>1. bindings \in Entries /\ target[t] \in Runtimes
    BY DEF IInv, TypeOK, Shape, StartBinds, At
  <2>2. [bindings EXCEPT !["start"] = "absent", !["unknownStart"] = "absent"] \in Entries
    BY <2>1, SlotSet
  <2>3. bindings' \in Entries
    BY <2>1, <2>2, RuntimeSet DEF StartBinds
  <2> QED BY <2>3 DEF IInv, TypeOK, StartBinds, At, Returns
<1>5. Shape'
  BY <1>1, <1>2 DEF Types, IInv, Shape, StartBinds, At, Returns
<1>6. sandbox' = "up" => Starts'
  BY SMTT(20), <1>1 DEF Types, Up, Starts, StartBinds, At, Returns
<1>7. sandbox' = "up" => Unbound'
  BY SMTT(20), <1>1 DEF Types, Up, Starts, Unbound, StartBinds, At, Returns
<1>8. sandbox' = "up" => CommandsOwn'
  BY SMTT(20), <1>1 DEF Types, Shape, Up, Unbound, CommandsOwn, StartBinds, At, Returns
<1>9. sandbox' = "up" => Bound'
  BY SMTT(20), <1>1, <1>3 DEF Types, Up, Unbound, Bound, StartBinds, At, Returns
<1>10. sandbox' = "up" => Releases'
  BY SMTT(20), <1>1, <1>2, <1>3 DEF Types, Shape, Up, Releases, StartBinds, At, Returns
<1>11. sandbox' = "up" => DuringRelease'
  BY SMTT(20), <1>1, <1>2 DEF Types, Shape, Up, Starts, Unbound, DuringRelease, StartBinds, At, Returns
<1>12. sandbox' = "up" => Orphans'
  BY SMTT(20), <1>1, <1>3 DEF Types, Up, Unbound, Orphans, StartBinds, At, Returns
<1> QED BY <1>4, <1>5, <1>6, <1>7, <1>8, <1>9, <1>10, <1>11, <1>12 DEF IInv, Up

LEMMA InvokeClaimsStep ==
  ASSUME IInv, NEW t \in Threads, NEW r \in Runtimes, InvokeClaims(t, r)
  PROVE  IInv'
<1>1. Types
  BY TypeFacts DEF IInv
<1>2. before' = before /\ had' = had
  BY SameSaved DEF InvokeClaims, Claims, Begins
<1>3. lateStarts' = lateStarts /\ lateStops' = lateStops
  BY SameLate DEF InvokeClaims, Claims, Begins
<1>4. TypeOK'
  <2>1. bindings \in Entries
    BY DEF IInv, TypeOK
  <2>2. bindings' \in Entries
    BY <1>1, <2>1, RuntimeSet DEF Types, IInv, Shape, InvokeClaims, Claims, Begins
  <2> QED BY <2>2 DEF IInv, TypeOK, InvokeClaims, Claims, Begins
<1>5. Shape'
  BY <1>1, <1>2 DEF Types, IInv, Shape, InvokeClaims, Claims, Begins
<1>6. sandbox' = "up" => Starts'
  BY SMTT(20) DEF Up, Starts, InvokeClaims, Claims, Begins
<1>7. sandbox' = "up" => Unbound'
  BY SMTT(20), <1>1, <1>3 DEF Types, Up, Unbound, InvokeClaims, Claims, Begins
<1>8. sandbox' = "up" => CommandsOwn'
  BY SMTT(20), <1>1, <1>3 DEF Types, Up, CommandsOwn, Bound, Releases, InvokeClaims, Claims, Begins
<1>9. sandbox' = "up" => Bound'
  BY SMTT(20), <1>3 DEF Up, Bound, InvokeClaims, Claims, Begins
<1>10. sandbox' = "up" => Releases'
  BY SMTT(20) DEF Up, Releases, InvokeClaims, Claims, Begins
<1>11. sandbox' = "up" => DuringRelease'
  BY SMTT(20) DEF Up, Releases, DuringRelease, InvokeClaims, Claims, Begins
<1>12. sandbox' = "up" => Orphans'
  BY SMTT(20), <1>3 DEF Up, Orphans, InvokeClaims, Claims, Begins
<1> QED BY <1>4, <1>5, <1>6, <1>7, <1>8, <1>9, <1>10, <1>11, <1>12 DEF IInv, Up

LEMMA StopClaimsStep ==
  ASSUME IInv, NEW t \in Threads, NEW r \in Runtimes, StopClaims(t, r)
  PROVE  IInv'
<1>1. Types
  BY TypeFacts DEF IInv
<1>2. before' = before /\ had' = had
  BY SameSaved DEF StopClaims, Claims, Begins
<1>3. lateStarts' = lateStarts /\ lateStops' = lateStops
  BY SameLate DEF StopClaims, Claims, Begins
<1>4. TypeOK'
  <2>1. bindings \in Entries
    BY DEF IInv, TypeOK
  <2>2. bindings' \in Entries
    BY <1>1, <2>1, RuntimeSet DEF Types, IInv, Shape, StopClaims, Claims, Begins
  <2> QED BY <2>2 DEF IInv, TypeOK, StopClaims, Claims, Begins
<1>5. Shape'
  BY <1>1, <1>2 DEF Types, IInv, Shape, StopClaims, Claims, Begins
<1>6. sandbox' = "up" => Starts'
  BY SMTT(20) DEF Up, Starts, StopClaims, Claims, Begins
<1>7. sandbox' = "up" => Unbound'
  BY SMTT(20), <1>1, <1>3 DEF Types, Up, Unbound, StopClaims, Claims, Begins
<1>8. sandbox' = "up" => CommandsOwn'
  BY SMTT(20), <1>1 DEF Types, Shape, Up, CommandsOwn, StopClaims, Claims, Begins
<1>9. sandbox' = "up" => Bound'
  BY SMTT(20), <1>3 DEF Up, Bound, StopClaims, Claims, Begins
<1>10. sandbox' = "up" => Releases'
  BY SMTT(20) DEF Up, Releases, StopClaims, Claims, Begins
<1>11. sandbox' = "up" => DuringRelease'
  BY SMTT(20) DEF Up, Releases, DuringRelease, StopClaims, Claims, Begins
<1>12. sandbox' = "up" => Orphans'
  BY SMTT(20), <1>3 DEF Up, Orphans, StopClaims, Claims, Begins
<1> QED BY <1>4, <1>5, <1>6, <1>7, <1>8, <1>9, <1>10, <1>11, <1>12 DEF IInv, Up

LEMMA InvokeSettlesStep ==
  ASSUME IInv, NEW t \in Threads, InvokeSettles(t)
  PROVE  IInv'
<1>1. Types
  BY TypeFacts DEF IInv
<1>2. before' = before /\ had' = had
  BY SameSaved DEF InvokeSettles, At, Returns
<1>3. lateStarts' = lateStarts /\ lateStops' = lateStops
  BY SameLate DEF InvokeSettles, At, Returns
<1>4. TypeOK'
  <2>1. bindings \in Entries
    BY DEF IInv, TypeOK
  <2>2. bindings' \in Entries
    BY <1>1, <2>1, RuntimeSet DEF Types, IInv, Shape, InvokeSettles, At, Returns
  <2> QED BY <2>2 DEF IInv, TypeOK, InvokeSettles, At, Returns
<1>5. Shape'
  BY <1>1, <1>2 DEF Types, IInv, Shape, InvokeSettles, At, Returns
<1>6. sandbox' = "up" => Starts'
  BY SMTT(20) DEF Up, Starts, InvokeSettles, At, Returns
<1>7. sandbox' = "up" => Unbound'
  BY SMTT(20), <1>3 DEF Up, Unbound, InvokeSettles, At, Returns
<1>8. sandbox' = "up" => CommandsOwn'
  BY SMTT(20), <1>1 DEF Types, Up, CommandsOwn, InvokeSettles, At, Returns
<1>9. sandbox' = "up" => Bound'
  BY SMTT(20), <1>3 DEF Up, Bound, InvokeSettles, At, Returns
<1>10. sandbox' = "up" => Releases'
  BY SMTT(20), <1>2, <1>3 DEF Up, Releases, InvokeSettles, At, Returns
<1>11. sandbox' = "up" => DuringRelease'
  BY SMTT(20), <1>1, <1>2 DEF Types, Up, DuringRelease, InvokeSettles, At, Returns
<1>12. sandbox' = "up" => Orphans'
  BY SMTT(20), <1>3 DEF Up, Orphans, InvokeSettles, At, Returns
<1> QED BY <1>4, <1>5, <1>6, <1>7, <1>8, <1>9, <1>10, <1>11, <1>12 DEF IInv, Up

LEMMA StopSettlesStep ==
  ASSUME IInv, NEW t \in Threads, StopSettles(t)
  PROVE  IInv'
<1>1. Types
  BY TypeFacts DEF IInv
<1>2. before' = before /\ had' = had
  BY SameSaved DEF StopSettles, At, Returns
<1>3. lateStarts' = lateStarts /\ lateStops' = lateStops
  BY SameLate DEF StopSettles, At, Returns
<1>4. TypeOK'
  <2>1. bindings \in Entries
    BY DEF IInv, TypeOK
  <2>2. bindings' \in Entries
    BY <1>1, <2>1, RuntimeSet DEF Types, IInv, Shape, StopSettles, At, Returns
  <2> QED BY <2>2 DEF IInv, TypeOK, StopSettles, At, Returns
<1>5. Shape'
  BY <1>1, <1>2 DEF Types, IInv, Shape, StopSettles, At, Returns
<1>6. sandbox' = "up" => Starts'
  BY SMTT(20) DEF Shape, Up, Starts, StopSettles, At, Returns
<1>7. sandbox' = "up" => Unbound'
  BY SMTT(20), <1>3 DEF Up, Unbound, CommandsOwn, StopSettles, At, Returns
<1>8. sandbox' = "up" => CommandsOwn'
  BY SMTT(20), <1>1 DEF Types, Up, CommandsOwn, StopSettles, At, Returns
<1>9. sandbox' = "up" => Bound'
  BY SMTT(20), <1>3 DEF Up, CommandsOwn, Bound, StopSettles, At, Returns
<1>10. sandbox' = "up" => Releases'
  BY SMTT(20), <1>2, <1>3 DEF Shape, Up, Releases, StopSettles, At, Returns
<1>11. sandbox' = "up" => DuringRelease'
  BY SMTT(20) DEF Up, DuringRelease, StopSettles, At, Returns
<1>12. sandbox' = "up" => Orphans'
  BY SMTT(20), <1>3 DEF Up, Orphans, StopSettles, At, Returns
<1> QED BY <1>4, <1>5, <1>6, <1>7, <1>8, <1>9, <1>10, <1>11, <1>12 DEF IInv, Up

LEMMA ReleaseBeginsStep ==
  ASSUME IInv, NEW t \in Threads, ReleaseBegins(t)
  PROVE  IInv'
<1>1. Types
  BY TypeFacts DEF IInv
<1>2. before' = [before EXCEPT ![t] = bindings] /\ had' = [had EXCEPT ![t] = entry]
  <2>1. saved' = [saved EXCEPT ![t] = <<entry, bindings>>] /\ saved \in [Threads -> BOOLEAN \X Entries]
    BY DEF ReleaseBegins, IInv, TypeOK
  <2> QED BY <2>1, Zenon DEF before, had
<1>3. lateStarts' = lateStarts /\ lateStops' = lateStops
  BY SameLate DEF ReleaseBegins, Begins, InUse
<1>4. TypeOK'
  <2>1. bindings \in Entries /\ saved \in [Threads -> BOOLEAN \X Entries] /\ entry \in BOOLEAN
    BY DEF IInv, TypeOK
  <2>2. bindings' \in Entries
    BY <1>1, <2>1, SlotSet DEF Types, ReleaseBegins
  <2>3. saved' \in [Threads -> BOOLEAN \X Entries]
    BY <2>1 DEF ReleaseBegins
  <2> QED BY <2>2, <2>3 DEF IInv, TypeOK, ReleaseBegins, Begins
<1>5. Shape'
  <2>1. ~entry => bindings = NoBindings
    BY <1>1 DEF IInv, TypeOK, Types
  <2> QED BY <1>1, <1>2, <2>1 DEF Types, IInv, Shape, ReleaseBegins, Begins
<1>6. sandbox' = "up" => Starts'
  BY SMTT(20) DEF Up, Starts, ReleaseBegins, Begins, InUse
<1>7. sandbox' = "up" => Unbound'
  BY SMTT(20), <1>1, <1>3 DEF Types, Up, Unbound, ReleaseBegins, Begins, InUse
<1>8. sandbox' = "up" => CommandsOwn'
  BY SMTT(20), <1>1 DEF Types, Up, CommandsOwn, ReleaseBegins, Begins, InUse
<1>9. sandbox' = "up" => Bound'
  BY SMTT(20), <1>3 DEF Up, Bound, ReleaseBegins, Begins, InUse
<1>10. sandbox' = "up" => Releases'
  BY SMTT(20), <1>1, <1>2, <1>3 DEF Types, Up, Bound, Releases, Orphans, ReleaseBegins, Begins, InUse
<1>11. sandbox' = "up" => DuringRelease'
  BY SMTT(20), <1>1, <1>2 DEF Types, Shape, Up, Starts, CommandsOwn, DuringRelease, ReleaseBegins, Begins, InUse
<1>12. sandbox' = "up" => Orphans'
  BY SMTT(20), <1>1 DEF Types, Orphans, ReleaseBegins, Begins, InUse
<1> QED BY <1>4, <1>5, <1>6, <1>7, <1>8, <1>9, <1>10, <1>11, <1>12 DEF IInv, Up

LEMMA ProviderReleasesStep ==
  ASSUME IInv, NEW t \in Threads, ProviderReleases(t)
  PROVE  IInv'
<1>1. Types
  BY TypeFacts DEF IInv
<1>2. before' = before /\ had' = had
  BY SameSaved DEF ProviderReleases, At
<1>3. lateStarts' = lateStarts /\ lateStops' = lateStops
  BY SameLate DEF ProviderReleases, At
<1>4. TypeOK'
  BY DEF IInv, TypeOK, ProviderReleases, At
<1>5. Shape'
  BY <1>1, <1>2 DEF Types, IInv, Shape, ProviderReleases, At
<1>6. sandbox' = "up" => Starts'
  BY SMTT(20) DEF Up, Starts, ProviderReleases, At
<1>7. sandbox' = "up" => Unbound'
  BY SMTT(20), <1>3 DEF Up, Unbound, ProviderReleases, At
<1>8. sandbox' = "up" => CommandsOwn'
  BY SMTT(20) DEF Up, CommandsOwn, ProviderReleases, At
<1>9. sandbox' = "up" => Bound'
  BY SMTT(20), <1>3 DEF Up, Bound, ProviderReleases, At
<1>10. sandbox' = "up" => Releases'
  BY SMTT(20), <1>1, <1>2, <1>3 DEF Types, Up, Releases, ProviderReleases, At
<1>11. sandbox' = "up" => DuringRelease'
  BY SMTT(20), <1>2 DEF Up, DuringRelease, ProviderReleases, At
<1>12. sandbox' = "up" => Orphans'
  BY SMTT(20), <1>3 DEF Up, Orphans, ProviderReleases, At
<1> QED BY <1>4, <1>5, <1>6, <1>7, <1>8, <1>9, <1>10, <1>11, <1>12 DEF IInv, Up

LEMMA ReleaseEndsStep ==
  ASSUME IInv, NEW t \in Threads, ReleaseEnds(t)
  PROVE  IInv'
<1>1. Types
  BY TypeFacts DEF IInv
<1>2. before' = [before EXCEPT ![t] = NoBindings] /\ had' = [had EXCEPT ![t] = FALSE]
  <2>1. saved' = [saved EXCEPT ![t] = <<FALSE, NoBindings>>] /\ saved \in [Threads -> BOOLEAN \X Entries]
    BY DEF ReleaseEnds, IInv, TypeOK
  <2> QED BY <2>1 DEF before, had
<1>3. /\ lateStarts' = lateStarts /\ lateStops' = lateStops
      /\ sandbox' = "up" =>
           bindings' \in {before[t], [before[t] EXCEPT !["unknownStart"] = "unknown"]}
  <2>1. lateStarts' = lateStarts /\ lateStops' = lateStops
    BY SameLate DEF ReleaseEnds, Returns
  <2>2. saved[t][1] = had[t] /\ saved[t][2] = before[t]
    BY DEF had, before
  <2>3. ASSUME sandbox = "up" PROVE ~(reply[t] = "returned" /\ owned)
    BY <2>3 DEF Up, Releases, ReleaseEnds, At
  <2>4. ~had[t] => before[t] = NoBindings
    BY DEF Shape
  <2>5. sandbox' = sandbox
    BY DEF ReleaseEnds, Returns
  <2> QED BY <2>1, <2>2, <2>3, <2>4, <2>5, Zenon DEF ReleaseEnds
<1>4. TypeOK'
  <2>1. bindings \in Entries /\ saved \in [Threads -> BOOLEAN \X Entries] /\ NoBindings \in Entries
    BY NoBindingsIsEntry DEF IInv, TypeOK
  <2>2. saved[t][2] \in Entries
    BY <2>1
  <2>3. [NoBindings EXCEPT !["unknownStart"] = "unknown"] \in Entries
    BY <2>1, SlotSet
  <2>4. bindings' \in Entries /\ entry' \in BOOLEAN /\ (~entry' => bindings' = NoBindings)
    BY <2>1, <2>2, <2>3, Zenon DEF ReleaseEnds
  <2>5. saved' \in [Threads -> BOOLEAN \X Entries]
    BY <2>1 DEF ReleaseEnds
  <2>6. ~entry' => \A k \in Keys : bindings'[k] = "absent"
    BY <2>4
  <2> QED BY <2>4, <2>5, <2>6 DEF IInv, TypeOK, ReleaseEnds, Returns, At
<1>5. Shape'
  BY <1>1, <1>2 DEF Types, IInv, Shape, ReleaseEnds, At, Returns
<1>6. sandbox' = "up" => Starts'
  BY SMTT(20), <1>1, <1>3 DEF Types, Up, Starts, DuringRelease, ReleaseEnds, At, Returns
<1>7. sandbox' = "up" => Unbound'
  BY SMTT(20), <1>1, <1>3 DEF Types, Up, Unbound, DuringRelease, ReleaseEnds, At, Returns
<1>8. sandbox' = "up" => CommandsOwn'
  BY SMTT(20), <1>1, <1>3 DEF Types, Shape, Up, CommandsOwn, DuringRelease, ReleaseEnds, At, Returns
<1>9. sandbox' = "up" => Bound'
  BY SMTT(20), <1>1, <1>3 DEF Types, Up, Bound, Releases, ReleaseEnds, At, Returns
<1>10. sandbox' = "up" => Releases'
  BY SMTT(20), <1>1 DEF Types, Up, Releases, ReleaseEnds, At, Returns
<1>11. sandbox' = "up" => DuringRelease'
  BY SMTT(20), <1>1, <1>2, <1>3 DEF Types, Shape, Up, DuringRelease, ReleaseEnds, At, Returns
<1>12. sandbox' = "up" => Orphans'
  BY SMTT(20), <1>1, <1>3 DEF Types, Up, Releases, Orphans, ReleaseEnds, At, Returns
<1> QED BY <1>4, <1>5, <1>6, <1>7, <1>8, <1>9, <1>10, <1>11, <1>12 DEF IInv, Up

LEMMA FetchStep ==
  ASSUME IInv, NEW t \in Threads, Fetch(t)
  PROVE  IInv'
<1>1. Types
  BY TypeFacts DEF IInv
<1>2. before' = before /\ had' = had
  BY SameSaved DEF Fetch, HasWorker
<1>3. lateStarts' = lateStarts /\ lateStops' = lateStops
  BY SameLate DEF Fetch, HasWorker
<1>4. TypeOK'
  <2>1. worker' \in [Threads -> Workers \cup {None}] /\ proc' \in [Workers -> {"free", "live", "dead"}]
    <3>1. HasWorker(t) => table[target[t]] \in Workers
      BY DEF IInv, TypeOK, Shape, Fetch, HasWorker
    <3>2. worker \in [Threads -> Workers \cup {None}] /\ proc \in [Workers -> {"free", "live", "dead"}]
      BY DEF IInv, TypeOK
    <3>3. CASE HasWorker(t)
      BY <3>1, <3>2, <3>3 DEF Fetch
    <3>4. CASE ~HasWorker(t)
      BY <3>2, <3>4 DEF Fetch
    <3> QED BY <3>3, <3>4
  <2>2. table' \in [Runtimes -> Workers \cup {None}]
    BY DEF IInv, TypeOK, Fetch
  <2> QED BY <2>1, <2>2 DEF IInv, TypeOK, Fetch
<1>5. Shape'
  <2>1. worker' \in [Threads -> Workers \cup {None}] /\ worker'[t] \in Workers
    BY DEF IInv, TypeOK, Shape, Fetch, HasWorker
  <2>2. \A u \in Threads \ {t} : worker'[u] = worker[u]
    BY DEF IInv, TypeOK, Fetch
  <2> QED BY <1>1, <1>2, <2>1, <2>2 DEF Types, IInv, Shape, Fetch
<1>6. sandbox' = "up" => Starts'
  BY SMTT(20) DEF Up, Starts, Fetch, HasWorker
<1>7. sandbox' = "up" => Unbound'
  BY SMTT(20), <1>3 DEF Up, Unbound, Fetch, HasWorker
<1>8. sandbox' = "up" => CommandsOwn'
  BY SMTT(20) DEF Up, CommandsOwn, Fetch, HasWorker
<1>9. sandbox' = "up" => Bound'
  BY SMTT(20), <1>3 DEF Up, Bound, Fetch, HasWorker
<1>10. sandbox' = "up" => Releases'
  BY SMTT(20), <1>2, <1>3 DEF Up, Releases, Fetch, HasWorker
<1>11. sandbox' = "up" => DuringRelease'
  BY SMTT(20), <1>2 DEF Up, DuringRelease, Fetch, HasWorker
<1>12. sandbox' = "up" => Orphans'
  BY SMTT(20), <1>3 DEF Up, Orphans, Fetch, HasWorker
<1> QED BY <1>4, <1>5, <1>6, <1>7, <1>8, <1>9, <1>10, <1>11, <1>12 DEF IInv, Up

LEMMA FetchFailsStep ==
  ASSUME IInv, NEW t \in Threads, FetchFails(t)
  PROVE  IInv'
<1>1. Types
  BY TypeFacts DEF IInv
<1>2. before' = before /\ had' = had
  BY SameSaved DEF FetchFails, HasWorker, Lost
<1>3. lateStarts' = lateStarts /\ lateStops' = lateStops
  BY SameLate DEF FetchFails, HasWorker, Lost
<1>4. TypeOK'
  BY DEF IInv, TypeOK, FetchFails, HasWorker, Lost
<1>5. Shape'
  BY <1>1, <1>2 DEF Types, IInv, Shape, FetchFails, HasWorker, Lost
<1>6. sandbox' = "up" => Starts'
  BY SMTT(20) DEF Up, Starts, FetchFails, HasWorker, Lost
<1>7. sandbox' = "up" => Unbound'
  BY SMTT(20), <1>3 DEF Up, Unbound, FetchFails, HasWorker, Lost
<1>8. sandbox' = "up" => CommandsOwn'
  BY SMTT(20) DEF Up, CommandsOwn, FetchFails, HasWorker, Lost
<1>9. sandbox' = "up" => Bound'
  BY SMTT(20), <1>3 DEF Up, Bound, FetchFails, HasWorker, Lost
<1>10. sandbox' = "up" => Releases'
  BY SMTT(20), <1>2, <1>3 DEF Up, Releases, FetchFails, HasWorker, Lost
<1>11. sandbox' = "up" => DuringRelease'
  BY SMTT(20), <1>2 DEF Up, DuringRelease, FetchFails, HasWorker, Lost
<1>12. sandbox' = "up" => Orphans'
  BY SMTT(20), <1>3 DEF Up, Orphans, FetchFails, HasWorker, Lost
<1> QED BY <1>4, <1>5, <1>6, <1>7, <1>8, <1>9, <1>10, <1>11, <1>12 DEF IInv, Up

LEMMA SendStep ==
  ASSUME IInv, NEW t \in Threads, Send(t)
  PROVE  IInv'
<1>1. Types
  BY TypeFacts DEF IInv
<1>2. before' = before /\ had' = had
  BY SameSaved DEF Send, Lost
<1>3. lateStarts' = lateStarts /\ lateStops' = lateStops
  BY SameLate DEF Send, Lost
<1>4. TypeOK'
  <2>1. lock' \in [Workers -> Threads \cup {None}]
    BY DEF IInv, TypeOK, Send
  <2>2. pc' \in [Threads -> {"idle", "fetch", "lock", "await", "drop", "retire", "done",
                            "parse", "deleting", "released"}]
    BY DEF IInv, TypeOK, Send
  <2>3. reply' \in [Threads -> {"none", "returned", "refused", "rejected", "lost"}]
    BY DEF IInv, TypeOK, Send, Lost
  <2> QED BY <2>1, <2>2, <2>3 DEF IInv, TypeOK, Send
<1>5. Shape'
  BY <1>1, <1>2 DEF Types, IInv, Shape, Send, Lost
<1>6. sandbox' = "up" => Starts'
  BY SMTT(20), <1>1 DEF Types, Up, Starts, Send, Lost
<1>7. sandbox' = "up" => Unbound'
  BY SMTT(20), <1>1, <1>3 DEF Types, Up, Unbound, Send, Lost
<1>8. sandbox' = "up" => CommandsOwn'
  BY SMTT(20), <1>1 DEF Types, Up, CommandsOwn, Send, Lost
<1>9. sandbox' = "up" => Bound'
  BY SMTT(20), <1>3 DEF Up, Bound, Send, Lost
<1>10. sandbox' = "up" => Releases'
  BY SMTT(20), <1>1, <1>2, <1>3 DEF Types, Up, Releases, Send, Lost
<1>11. sandbox' = "up" => DuringRelease'
  BY SMTT(20), <1>1, <1>2 DEF Types, Up, DuringRelease, Send, Lost
<1>12. sandbox' = "up" => Orphans'
  BY SMTT(20), <1>3 DEF Up, Orphans, Send, Lost
<1> QED BY <1>4, <1>5, <1>6, <1>7, <1>8, <1>9, <1>10, <1>11, <1>12 DEF IInv, Up

LEMMA AnswersStep ==
  ASSUME IInv, NEW t \in Threads, Answers(t)
  PROVE  IInv'
<1>1. Types
  BY TypeFacts DEF IInv
<1>2. before' = before /\ had' = had
  BY SameSaved DEF Answers, Unlock
<1>3. lateStarts' = lateStarts /\ lateStops' = lateStops
  BY SameLate DEF Answers, Unlock
<1>4. TypeOK'
  <2>1. lock' \in [Workers -> Threads \cup {None}]
    BY DEF IInv, TypeOK, Answers, Unlock
  <2>2. table' \in [Runtimes -> Workers \cup {None}]
    BY DEF IInv, TypeOK, Shape, Answers
  <2>3. pc' \in [Threads -> {"idle", "fetch", "lock", "await", "drop", "retire", "done",
                            "parse", "deleting", "released"}]
    BY DEF IInv, TypeOK, Answers
  <2> QED BY <2>1, <2>2, <2>3 DEF IInv, TypeOK, Answers
<1>5. Shape'
  BY <1>1, <1>2 DEF Types, IInv, Shape, Answers, Unlock
<1>6. sandbox' = "up" => Starts'
  BY SMTT(20), <1>1 DEF Types, Up, Starts, Answers, Unlock
<1>7. sandbox' = "up" => Unbound'
  BY SMTT(20), <1>3 DEF Up, Unbound, Answers, Unlock
<1>8. sandbox' = "up" => CommandsOwn'
  BY SMTT(20) DEF Up, CommandsOwn, Answers, Unlock
<1>9. sandbox' = "up" => Bound'
  BY SMTT(20), <1>3 DEF Up, Bound, Answers, Unlock
<1>10. sandbox' = "up" => Releases'
  BY SMTT(20), <1>1, <1>2, <1>3 DEF Types, Up, Releases, Answers, Unlock
<1>11. sandbox' = "up" => DuringRelease'
  BY SMTT(20), <1>1, <1>2 DEF Types, Up, DuringRelease, Answers, Unlock
<1>12. sandbox' = "up" => Orphans'
  BY SMTT(20), <1>3 DEF Up, Orphans, Answers, Unlock
<1> QED BY <1>4, <1>5, <1>6, <1>7, <1>8, <1>9, <1>10, <1>11, <1>12 DEF IInv, Up

LEMMA FailsStep ==
  ASSUME IInv, NEW t \in Threads, Fails(t)
  PROVE  IInv'
<1>1. Types
  BY TypeFacts DEF IInv
<1>2. before' = before /\ had' = had
  BY SameSaved DEF Fails, Unlock
<1>3. /\ late' \subseteq Commands
      /\ \/ lateStarts' = lateStarts /\ lateStops' = lateStops
         \/ /\ op[t] = "start" /\ reply[t] = "none"
            /\ lateStarts' = lateStarts \cup {t} /\ lateStops' = lateStops
         \/ /\ op[t] = "stop" /\ reply[t] = "none"
            /\ lateStops' = lateStops \cup {target[t]} /\ lateStarts' = lateStarts
  BY Abandoned DEF IInv, Fails
<1>4. TypeOK'
  <2>1. lock' \in [Workers -> Threads \cup {None}] /\ proc' \in [Workers -> {"free", "live", "dead"}]
    BY DEF IInv, TypeOK, Fails, Unlock
  <2> QED BY <1>3, <2>1 DEF IInv, TypeOK, Fails, Unlock
<1>5. Shape'
  BY <1>1, <1>2 DEF Types, IInv, Shape, Fails, Unlock
<1>6. sandbox' = "up" => Starts'
  BY SMTT(20) DEF Up, Starts, Fails, Unlock
<1>7. sandbox' = "up" => Unbound'
  BY SMTT(20), <1>1, <1>3 DEF Types, Up, Starts, Unbound, CommandsOwn, Fails, Unlock
<1>8. sandbox' = "up" => CommandsOwn'
  BY SMTT(20) DEF Up, CommandsOwn, Fails, Unlock
<1>9. sandbox' = "up" => Bound'
  BY SMTT(20), <1>3 DEF Up, CommandsOwn, Bound, Fails, Unlock
<1>10. sandbox' = "up" => Releases'
  BY SMTT(20), <1>2, <1>3 DEF Up, Releases, DuringRelease, Fails, Unlock
<1>11. sandbox' = "up" => DuringRelease'
  BY SMTT(20), <1>2 DEF Up, DuringRelease, Fails, Unlock
<1>12. sandbox' = "up" => Orphans'
  BY SMTT(20), <1>3 DEF Up, Starts, Orphans, Fails, Unlock
<1> QED BY <1>4, <1>5, <1>6, <1>7, <1>8, <1>9, <1>10, <1>11, <1>12 DEF IInv, Up

LEMMA IsLostStep ==
  ASSUME IInv, NEW t \in Threads, IsLost(t)
  PROVE  IInv'
<1>1. Types
  BY TypeFacts DEF IInv
<1>2. before' = before /\ had' = had
  BY SameSaved DEF IsLost, Unlock, Lost
<1>3. /\ late' \subseteq Commands
      /\ \/ lateStarts' = lateStarts /\ lateStops' = lateStops
         \/ /\ op[t] = "start" /\ reply[t] = "none"
            /\ lateStarts' = lateStarts \cup {t} /\ lateStops' = lateStops
         \/ /\ op[t] = "stop" /\ reply[t] = "none"
            /\ lateStops' = lateStops \cup {target[t]} /\ lateStarts' = lateStarts
  BY Abandoned DEF IInv, IsLost
<1>4. TypeOK'
  <2>1. lock' \in [Workers -> Threads \cup {None}] /\ proc' \in [Workers -> {"free", "live", "dead"}]
    BY DEF IInv, TypeOK, IsLost, Unlock, Lost
  <2> QED BY <1>3, <2>1 DEF IInv, TypeOK, IsLost, Unlock, Lost
<1>5. Shape'
  BY <1>1, <1>2 DEF Types, IInv, Shape, IsLost, Unlock, Lost
<1>6. sandbox' = "up" => Starts'
  BY SMTT(20) DEF Up, Starts, IsLost, Unlock, Lost
<1>7. sandbox' = "up" => Unbound'
  BY SMTT(20), <1>1, <1>3 DEF Types, Up, Starts, Unbound, CommandsOwn, IsLost, Unlock, Lost
<1>8. sandbox' = "up" => CommandsOwn'
  BY SMTT(20) DEF Up, CommandsOwn, IsLost, Unlock, Lost
<1>9. sandbox' = "up" => Bound'
  BY SMTT(20), <1>3 DEF Up, CommandsOwn, Bound, IsLost, Unlock, Lost
<1>10. sandbox' = "up" => Releases'
  BY SMTT(20), <1>2, <1>3 DEF Up, Releases, DuringRelease, IsLost, Unlock, Lost
<1>11. sandbox' = "up" => DuringRelease'
  BY SMTT(20), <1>2 DEF Up, DuringRelease, IsLost, Unlock, Lost
<1>12. sandbox' = "up" => Orphans'
  BY SMTT(20), <1>3 DEF Up, Starts, Orphans, IsLost, Unlock, Lost
<1> QED BY <1>4, <1>5, <1>6, <1>7, <1>8, <1>9, <1>10, <1>11, <1>12 DEF IInv, Up

LEMMA IsBrokenStep ==
  ASSUME IInv, NEW t \in Threads, IsBroken(t)
  PROVE  IInv'
<1>1. Types
  BY TypeFacts DEF IInv
<1>2. before' = before /\ had' = had
  BY SameSaved DEF IsBroken, Unlock, Lost
<1>3. /\ late' \subseteq Commands
      /\ \/ lateStarts' = lateStarts /\ lateStops' = lateStops
         \/ /\ op[t] = "start" /\ reply[t] = "none"
            /\ lateStarts' = lateStarts \cup {t} /\ lateStops' = lateStops
         \/ /\ op[t] = "stop" /\ reply[t] = "none"
            /\ lateStops' = lateStops \cup {target[t]} /\ lateStarts' = lateStarts
  BY Abandoned DEF IInv, IsBroken
<1>4. TypeOK'
  <2>1. lock' \in [Workers -> Threads \cup {None}]
    BY DEF IInv, TypeOK, IsBroken, Unlock, Lost
  <2> QED BY <1>3, <2>1 DEF IInv, TypeOK, IsBroken, Unlock, Lost
<1>5. Shape'
  BY <1>1, <1>2 DEF Types, IInv, Shape, IsBroken, Unlock, Lost
<1>6. sandbox' = "up" => Starts'
  BY SMTT(20) DEF Up, Starts, IsBroken, Unlock, Lost
<1>7. sandbox' = "up" => Unbound'
  BY SMTT(20), <1>1, <1>3 DEF Types, Up, Starts, Unbound, CommandsOwn, IsBroken, Unlock, Lost
<1>8. sandbox' = "up" => CommandsOwn'
  BY SMTT(20) DEF Up, CommandsOwn, IsBroken, Unlock, Lost
<1>9. sandbox' = "up" => Bound'
  BY SMTT(20), <1>3 DEF Up, CommandsOwn, Bound, IsBroken, Unlock, Lost
<1>10. sandbox' = "up" => Releases'
  BY SMTT(20), <1>2, <1>3 DEF Up, Releases, DuringRelease, IsBroken, Unlock, Lost
<1>11. sandbox' = "up" => DuringRelease'
  BY SMTT(20), <1>2 DEF Up, DuringRelease, IsBroken, Unlock, Lost
<1>12. sandbox' = "up" => Orphans'
  BY SMTT(20), <1>3 DEF Up, Starts, Orphans, IsBroken, Unlock, Lost
<1> QED BY <1>4, <1>5, <1>6, <1>7, <1>8, <1>9, <1>10, <1>11, <1>12 DEF IInv, Up

LEMMA DropStep ==
  ASSUME IInv, NEW t \in Threads, Drop(t)
  PROVE  IInv'
<1>1. Types
  BY TypeFacts DEF IInv
<1>2. before' = before /\ had' = had
  BY SameSaved DEF Drop
<1>3. lateStarts' = lateStarts /\ lateStops' = lateStops
  BY SameLate DEF Drop
<1>4. TypeOK'
  BY DEF IInv, TypeOK, Drop
<1>5. Shape'
  BY <1>1, <1>2 DEF Types, IInv, Shape, Drop
<1>6. sandbox' = "up" => Starts'
  BY SMTT(20) DEF Up, Starts, Drop
<1>7. sandbox' = "up" => Unbound'
  BY SMTT(20), <1>3 DEF Up, Unbound, Drop
<1>8. sandbox' = "up" => CommandsOwn'
  BY SMTT(20) DEF Up, CommandsOwn, Drop
<1>9. sandbox' = "up" => Bound'
  BY SMTT(20), <1>3 DEF Up, Bound, Drop
<1>10. sandbox' = "up" => Releases'
  BY SMTT(20), <1>2, <1>3 DEF Up, Releases, Drop
<1>11. sandbox' = "up" => DuringRelease'
  BY SMTT(20), <1>2 DEF Up, DuringRelease, Drop
<1>12. sandbox' = "up" => Orphans'
  BY SMTT(20), <1>3 DEF Up, Orphans, Drop
<1> QED BY <1>4, <1>5, <1>6, <1>7, <1>8, <1>9, <1>10, <1>11, <1>12 DEF IInv, Up

LEMMA RetireStep ==
  ASSUME IInv, NEW t \in Threads, Retire(t)
  PROVE  IInv'
<1>1. Types
  BY TypeFacts DEF IInv
<1>2. before' = before /\ had' = had
  BY SameSaved DEF Retire
<1>3. lateStarts' = lateStarts /\ lateStops' = lateStops
  BY SameLate DEF Retire
<1>4. TypeOK'
  BY DEF IInv, TypeOK, Retire
<1>5. Shape'
  BY <1>1, <1>2 DEF Types, IInv, Shape, Retire
<1>6. sandbox' = "up" => Starts'
  BY SMTT(20) DEF Up, Starts, Retire
<1>7. sandbox' = "up" => Unbound'
  BY SMTT(20), <1>3 DEF Up, Unbound, Retire
<1>8. sandbox' = "up" => CommandsOwn'
  BY SMTT(20) DEF Up, CommandsOwn, Retire
<1>9. sandbox' = "up" => Bound'
  BY SMTT(20), <1>3 DEF Up, Bound, Retire
<1>10. sandbox' = "up" => Releases'
  BY SMTT(20), <1>2, <1>3 DEF Up, Releases, Retire
<1>11. sandbox' = "up" => DuringRelease'
  BY SMTT(20), <1>2 DEF Up, DuringRelease, Retire
<1>12. sandbox' = "up" => Orphans'
  BY SMTT(20), <1>3 DEF Up, Orphans, Retire
<1> QED BY <1>4, <1>5, <1>6, <1>7, <1>8, <1>9, <1>10, <1>11, <1>12 DEF IInv, Up

LEMMA ExecutesStep ==
  ASSUME IInv, NEW t \in Threads, Executes(t)
  PROVE  IInv'
<1>1. Types
  BY TypeFacts DEF IInv
<1>2. before' = before /\ had' = had
  BY SameSaved DEF Executes
<1>3. lateStarts' = lateStarts /\ lateStops' = lateStops
  BY SameLate DEF Executes
<1>4. TypeOK'
  BY DEF IInv, TypeOK, Executes
<1>5. Shape'
  BY <1>1, <1>2 DEF Types, IInv, Shape, Executes
<1>6. sandbox' = "up" => Starts'
  BY SMTT(20) DEF Up, Starts, Executes
<1>7. sandbox' = "up" => Unbound'
  BY SMTT(20), <1>1, <1>3 DEF Types, Up, Starts, Unbound, CommandsOwn, Bound, Executes
<1>8. sandbox' = "up" => CommandsOwn'
  BY SMTT(20), <1>1 DEF Types, Up, CommandsOwn, Bound, Executes
<1>9. sandbox' = "up" => Bound'
  BY SMTT(20), <1>3 DEF Up, CommandsOwn, Bound, Executes
<1>10. sandbox' = "up" => Releases'
  BY SMTT(20), <1>2, <1>3 DEF Up, Releases, DuringRelease, Executes
<1>11. sandbox' = "up" => DuringRelease'
  BY SMTT(20), <1>2 DEF Up, DuringRelease, Executes
<1>12. sandbox' = "up" => Orphans'
  BY SMTT(20), <1>3 DEF Up, Starts, Orphans, Executes
<1> QED BY <1>4, <1>5, <1>6, <1>7, <1>8, <1>9, <1>10, <1>11, <1>12 DEF IInv, Up

LEMMA ExecutesLateStep ==
  ASSUME IInv, NEW c \in Commands, ExecutesLate(c)
  PROVE  IInv'
<1>1. Types
  BY TypeFacts DEF IInv
<1>2. before' = before /\ had' = had
  BY SameSaved DEF ExecutesLate
<1>3. /\ late' \subseteq Commands
         /\ \/ c[1] = "start" /\ lateStarts # {} /\ lateStops' = lateStops
               /\ lateStarts' \subseteq lateStarts
            \/ c[1] # "start" /\ c[2] \in lateStops /\ lateStarts' = lateStarts
               /\ lateStops' = lateStops \ {c[2]}
  BY ExecutedLate DEF IInv, ExecutesLate
<1>4. TypeOK'
  BY DEF IInv, TypeOK, ExecutesLate
<1>5. Shape'
  BY <1>1, <1>2 DEF Types, IInv, Shape, ExecutesLate
<1>6. sandbox' = "up" => Starts'
  BY SMTT(20) DEF Up, Starts, ExecutesLate
<1>7. sandbox' = "up" => Unbound'
  BY SMTT(20), <1>3 DEF Up, Unbound, ExecutesLate
<1>8. sandbox' = "up" => CommandsOwn'
  BY SMTT(20) DEF Up, CommandsOwn, Bound, ExecutesLate
<1>9. sandbox' = "up" => Bound'
  BY SMTT(20), <1>3 DEF Up, Bound, ExecutesLate
<1>10. sandbox' = "up" => Releases'
  BY SMTT(20), <1>2, <1>3 DEF Up, Releases, ExecutesLate
<1>11. sandbox' = "up" => DuringRelease'
  BY SMTT(20), <1>2 DEF Up, DuringRelease, ExecutesLate
<1>12. sandbox' = "up" => Orphans'
  BY SMTT(20), <1>3 DEF Up, Orphans, ExecutesLate
<1> QED BY <1>4, <1>5, <1>6, <1>7, <1>8, <1>9, <1>10, <1>11, <1>12 DEF IInv, Up

LEMMA SandboxEndsStep ==
  ASSUME IInv, SandboxEnds
  PROVE  IInv'
<1>1. Types
  BY TypeFacts DEF IInv
<1>2. before' = before /\ had' = had
  BY SameSaved DEF SandboxEnds
<1>3. lateStarts' = lateStarts /\ lateStops' = lateStops
  BY SameLate DEF SandboxEnds
<1>4. TypeOK'
  BY DEF IInv, TypeOK, SandboxEnds
<1>5. Shape'
  BY <1>1, <1>2 DEF Types, IInv, Shape, SandboxEnds
<1>6. sandbox' = "up" => Starts'
  BY SMTT(20) DEF Starts, SandboxEnds
<1>7. sandbox' = "up" => Unbound'
  BY SMTT(20) DEF Unbound, SandboxEnds
<1>8. sandbox' = "up" => CommandsOwn'
  BY SMTT(20) DEF CommandsOwn, SandboxEnds
<1>9. sandbox' = "up" => Bound'
  BY SMTT(20) DEF Bound, SandboxEnds
<1>10. sandbox' = "up" => Releases'
  BY SMTT(20) DEF Releases, SandboxEnds
<1>11. sandbox' = "up" => DuringRelease'
  BY SMTT(20) DEF DuringRelease, SandboxEnds
<1>12. sandbox' = "up" => Orphans'
  BY SMTT(20) DEF Orphans, SandboxEnds
<1> QED BY <1>4, <1>5, <1>6, <1>7, <1>8, <1>9, <1>10, <1>11, <1>12 DEF IInv, Up

-------------------------------------------------------------------------------
(* The invariant, and what it says of every behaviour.                      *)

LEMMA Start == Init => IInv
<1> SUFFICES ASSUME Init PROVE IInv OBVIOUS
<1>1. TypeOK
  <2>1. NoBindings \in Entries
    BY NoBindingsIsEntry
  <2> QED BY <2>1 DEF Init, TypeOK
<1>2. Types
  BY <1>1, TypeFacts
<1>3. \A u \in Threads : had[u] = FALSE /\ before[u] = NoBindings
  BY DEF Init, had, before
<1>4. lateStarts = {} /\ lateStops = {}
  BY DEF Init, lateStarts, lateStops
<1>5. Shape
  BY <1>3 DEF Init, Shape
<1>6. Up
  BY <1>4 DEF Init, Up, Starts, Unbound, CommandsOwn, Bound, Releases, DuringRelease, Orphans
<1> QED BY <1>1, <1>5, <1>6

LEMMA Stutter == IInv /\ UNCHANGED vars => IInv'
<1> SUFFICES ASSUME IInv, UNCHANGED vars PROVE IInv' OBVIOUS
<1>1. before' = before /\ had' = had
  BY SameSaved
<1>2. lateStarts' = lateStarts /\ lateStops' = lateStops
  BY SameLate
<1>3. TypeOK'
  BY DEF TypeOK
<1>4. Shape'
  BY <1>1 DEF Shape
<1>5. Up => Up'
  BY <1>1, <1>2 DEF Up, Starts, Unbound, CommandsOwn, Bound, Releases, DuringRelease, Orphans
<1> QED BY <1>3, <1>4, <1>5

LEMMA Step == IInv /\ [Next]_vars => IInv'
<1> SUFFICES ASSUME IInv, [Next]_vars PROVE IInv' OBVIOUS
<1>1. CASE UNCHANGED vars
  BY <1>1, Stutter
<1>2. ASSUME NEW t \in Threads,
             \/ StartClaims(t) \/ StartRefused(t) \/ StartIsUncertain(t) \/ StartFails(t)
             \/ StartBinds(t) \/ InvokeSettles(t) \/ StopSettles(t)
      PROVE  IInv'
  <2> HIDE DEF IInv
  <2> QED BY <1>2, StartClaimsStep, StartRefusedStep, StartIsUncertainStep, StartFailsStep,
             StartBindsStep, InvokeSettlesStep, StopSettlesStep
<1>3. ASSUME NEW t \in Threads, NEW r \in Runtimes, InvokeClaims(t, r) \/ StopClaims(t, r)
      PROVE  IInv'
  <2> HIDE DEF IInv
  <2> QED BY <1>3, InvokeClaimsStep, StopClaimsStep
<1>4. ASSUME NEW t \in Threads, ReleaseBegins(t) \/ ProviderReleases(t) \/ ReleaseEnds(t)
      PROVE  IInv'
  <2> HIDE DEF IInv
  <2> QED BY <1>4, ReleaseBeginsStep, ProviderReleasesStep, ReleaseEndsStep
<1>5. ASSUME NEW t \in Threads, Exchange(t) \/ Executes(t)
      PROVE  IInv'
  <2> HIDE DEF IInv
  <2> QED BY <1>5, FetchStep, FetchFailsStep, SendStep, AnswersStep, FailsStep, IsLostStep,
             IsBrokenStep, DropStep, RetireStep, ExecutesStep DEF Exchange
<1>6. ASSUME NEW c \in Commands, ExecutesLate(c)
      PROVE  IInv'
  BY <1>6, ExecutesLateStep
<1>7. CASE SandboxEnds
  BY <1>7, SandboxEndsStep
<1> HIDE DEF IInv, vars
<1> QED BY <1>1, <1>2, <1>3, <1>4, <1>5, <1>6, <1>7 DEF Next

\* The inductive invariant holds in every state the threads, workers and the sandbox reach.
THEOREM Invariance == Spec => []IInv
<1> HIDE DEF IInv, vars
<1> QED BY Start, Step, PTL DEF Spec

\* The bindings, workers and calls keep their types (runtime/openshell.rs, environment.rs).
THEOREM TypeCorrect == Spec => []TypeOK
<1>1. IInv => TypeOK
  OBVIOUS
<1> HIDE DEF IInv
<1> QED BY Invariance, <1>1, PTL

\* An uncertain start blocks further starts: while the server in the sandbox has, or may
\* yet get, a runtime that no binding names, a start, its uncertainty or a release is on
\* record (start, set_start_state, release).
THEOREM OrphansBlockStarts == Spec => []OrphanBlocksStarts
<1>1. IInv => OrphanBlocksStarts
  BY OrphansFacts DEF Up
<1> HIDE DEF IInv
<1> QED BY Invariance, <1>1, PTL

\* A runtime bound as active is served and no lost stop of it is on its way; one bound as
\* stopped is not served (claim, invoke, stop, release).
THEOREM ConfirmedStates == Spec => []ConfirmedStatesAreTrue
<1>1. IInv => ConfirmedStatesAreTrue
  BY DEF Up, Bound, ConfirmedStatesAreTrue, lateStops
<1> HIDE DEF IInv
<1> QED BY Invariance, <1>1, PTL

\* While a release deletes the sandbox no start and no stop is being executed, and an
\* invocation only if a stop of its runtime was tried meanwhile (start, claim, release).
THEOREM ReleasesMeetNoCommand == Spec => []ReleaseMeetsNoCommand
<1>1. ASSUME IInv, sandbox = "up", NEW t \in Threads, NEW u \in Threads,
             pc[t] = "deleting", pc[u] \in {"fetch", "lock", "await"}
      PROVE  op[u] = "invoke" /\ bindings[target[u]] \in {"unknown", "stopped"}
  <2>1. op[u] \in {"start", "invoke", "stop"}
    BY <1>1 DEF Shape
  <2>2. op[u] # "stop" /\ op[u] # "start"
    BY <1>1 DEF Up, DuringRelease
  <2> QED BY <1>1, <2>1, <2>2 DEF Up, DuringRelease
<1>2. IInv => ReleaseMeetsNoCommand
  BY <1>1 DEF ReleaseMeetsNoCommand
<1> HIDE DEF IInv
<1> QED BY Invariance, <1>2, PTL
==============================================================================
