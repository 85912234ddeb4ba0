--------------------------- MODULE EventDelivery ----------------------------
(***************************************************************************)
(* From a recorded event to the audit log: commands run by concurrent      *)
(* workers record events on entities and in their own scope; the executor  *)
(* captures what is pending, publishes it, and then clears the recorders   *)
(* (application/eventing/collector.py, recorder_scope.py,                  *)
(* application/messaging/executors, adapters/driven/events).               *)
(*                                                                         *)
(* The in-memory backend has one object for each entity, shared by every   *)
(* command: with "memory" one command runs at a time (the CLI), with       *)
(* "threads" the HTTP handlers share them in a thread pool.  "database" is *)
(* PostgreSQL: each command loads copies of its own.                       *)
(*                                                                         *)
(* An event is the number of its occurrence; `commandOf` says whose it is. *)
(***************************************************************************)
EXTENDS Integers, Sequences, FiniteSets, SequencesExt, FiniteSetsExt

CONSTANTS
  None,
  Workers,
  Actors,        \* authenticated users
  Routes,        \* recorders: routes,
  Customers,     \* customers,
  Parcel,        \* and the package a command creates, which only it can reach
  Shared,        \* holder of the in-memory objects
  Backends,      \* the deployments explored
  CommandBound,  \* bound: commands started
  ChangeBound,   \* bound: packages of one assignment command
  FaultBound     \* bound: failures of the database and crashes, together

ASSUME EventDeliveryAssumption ==
  /\ Backends \subseteq {"memory", "threads", "database"}
  /\ Shared \notin Workers /\ Parcel \notin Routes \cup Customers
  /\ None \notin Actors
  /\ CommandBound \in Nat /\ ChangeBound \in Nat /\ FaultBound \in Nat

VARIABLES
  backend,
  commands,   \* the commands so far: [kind, actor, outcome]
  commandOf,  \* the command that recorded each event
  pending,    \* _pending_events of each recorder, by holder
  known,      \* customers in the repository
  worker,     \* each worker's control state
  audit,      \* audit records, in the order they were written
  swept,      \* events captured or cleared by a command that did not record them
  faults

vars == <<backend, commands, commandOf, pending, known, worker, audit, swept, faults>>

Recorders == Routes \cup Customers \cup {Parcel}

Idle ==
  [phase |-> "idle", command |-> 0, target |-> None, changes |-> 0,
   scope |-> <<>>, tracked |-> {}, failing |-> FALSE, queue |-> <<>>, captured |-> {}]

\* Holder if requests shared the objects of the database backend too.
HolderSharedByAll(w, r) == IF r = Parcel THEN w ELSE Shared

Holder(w, r) == IF backend = "database" \/ r = Parcel THEN w ELSE Shared

PendingOf(w, r) == pending[Holder(w, r)][r]

NewEvent == Len(commandOf) + 1

\* record_event on an entity
RecordOn(w, r) ==
  /\ pending' = [pending EXCEPT ![Holder(w, r)][r] = Append(@, NewEvent)]
  /\ commandOf' = Append(commandOf, worker[w].command)

-----------------------------------------------------------------------------
(* Running a command.                                                      *)

Busy == {w \in Workers : worker[w].phase # "idle"}

Begin(w, kind, actor, target) ==
  /\ worker[w].phase = "idle"
  /\ backend = "memory" => Busy = {}
  /\ Len(commands) < CommandBound
  /\ commands' = Append(commands, [kind |-> kind, actor |-> actor, outcome |-> "running"])
  /\ worker' = [worker EXCEPT ![w] = [Idle EXCEPT !.phase = "running", !.target = target,
                                                  !.command = Len(commands) + 1]]
  /\ UNCHANGED <<backend, commandOf, pending, known, audit, swept, faults>>

Start(w) ==
  \/ \E actor \in Actors, r \in Routes : Begin(w, "assign packages", actor, r)
  \/ \E actor \in Actors, c \in Customers : Begin(w, "create package", actor, c)
  \/ \E actor \in Actors \cup {None} : Begin(w, "not permitted", actor, None)
  \/ /\ backend # "threads"   \* only the command line beats, before each command
     /\ \E actor \in Actors \cup {None}, r \in Routes : Begin(w, "heartbeat", actor, r)

Running(w, kind) ==
  worker[w].phase = "running" /\ commands[worker[w].command].kind = kind

Return(w, tracked, scope) ==
  worker' = [worker EXCEPT ![w].phase = "returned", ![w].tracked = tracked, ![w].scope = scope]

Raise(w, scope) ==
  worker' = [worker EXCEPT ![w].phase = "raised", ![w].failing = TRUE, ![w].scope = scope]

\* The database refuses a write: the use case restores the entity's state and
\* its pending events and raises.
DatabaseError(w) ==
  /\ backend = "database"
  /\ worker[w].phase = "running"
  /\ commands[worker[w].command].kind # "not permitted"
  /\ faults < FaultBound
  /\ faults' = faults + 1
  /\ Raise(w, <<>>)
  /\ UNCHANGED <<backend, commands, commandOf, pending, known, audit, swept>>

\* AssignPackagesToRouteUseCase: each package is committed by itself.
AssignPackage(w) ==
  /\ Running(w, "assign packages")
  /\ worker[w].changes < ChangeBound
  /\ RecordOn(w, worker[w].target)
  /\ worker' = [worker EXCEPT ![w].changes = @ + 1]
  /\ UNCHANGED <<backend, commands, known, audit, swept, faults>>

AssignmentsDone(w) ==
  /\ Running(w, "assign packages")
  /\ Return(w, IF worker[w].changes > 0 THEN {worker[w].target} ELSE {}, <<>>)
  /\ UNCHANGED <<backend, commands, commandOf, pending, known, audit, swept, faults>>

\* CreatePackageUseCase: the customer first, in a transaction of its own.
CreateCustomer(w) ==
  /\ Running(w, "create package")
  /\ worker[w].target \notin known
  /\ known' = known \cup {worker[w].target}
  /\ RecordOn(w, worker[w].target)
  /\ UNCHANGED <<backend, commands, worker, audit, swept, faults>>

\* Equal locations, or an unknown one: nothing has been tracked.
RefusePackage(w) ==
  /\ Running(w, "create package")
  /\ worker[w].target \in known
  /\ Raise(w, <<>>)
  /\ UNCHANGED <<backend, commands, commandOf, pending, known, audit, swept, faults>>

CreatePackage(w) ==
  /\ Running(w, "create package")
  /\ worker[w].target \in known
  /\ RecordOn(w, Parcel)
  /\ Return(w, {Parcel, worker[w].target}, <<>>)
  /\ UNCHANGED <<backend, commands, known, audit, swept, faults>>

\* A denial is recorded in the command's scope, and the command raises.
Deny(w) ==
  /\ Running(w, "not permitted")
  /\ commandOf' = Append(commandOf, worker[w].command)
  /\ Raise(w, <<NewEvent>>)
  /\ UNCHANGED <<backend, commands, pending, known, audit, swept, faults>>

\* AdvanceWorldStateUseCase: the routes that moved, then the summary.
Advance(w) ==
  /\ Running(w, "heartbeat")
  /\ LET r == worker[w].target IN
       /\ pending' = [pending EXCEPT ![Holder(w, r)][r] = Append(@, NewEvent)]
       /\ Return(w, {r}, <<NewEvent + 1>>)
  /\ commandOf' = commandOf \o <<worker[w].command, worker[w].command>>
  /\ UNCHANGED <<backend, commands, known, audit, swept, faults>>

Run(w) ==
  \/ AssignPackage(w) \/ AssignmentsDone(w)
  \/ CreateCustomer(w) \/ RefusePackage(w) \/ CreatePackage(w)
  \/ Deny(w) \/ Advance(w) \/ DatabaseError(w)

-----------------------------------------------------------------------------
(* Draining what was recorded.                                             *)

CommandOf(w) == commands[worker[w].command]

TrackedEvents(w, r) == IF r \in worker[w].tracked THEN PendingOf(w, r) ELSE <<>>

\* Events of the tracked recorders, in the order they are tracked: a package
\* before its customer.
DomainEvents(w) == TrackedEvents(w, Parcel) \o TrackedEvents(w, worker[w].target)

\* Without WorldStateAdvancementExecutor: the scope always comes first.
ScopeFirst(w) == worker[w].scope \o DomainEvents(w)

\* What the executor drains: the scope and then the tracked recorders, but the
\* heartbeat's recorders before its scope; after a failed heartbeat the scope only.
Drained(w) ==
  IF CommandOf(w).kind # "heartbeat" THEN worker[w].scope \o DomainEvents(w)
  ELSE IF worker[w].failing THEN worker[w].scope
  ELSE DomainEvents(w) \o worker[w].scope

\* Whose events a step takes from their recorders without having recorded them.
Foreign(w, events) == {e \in events : commandOf[e] # worker[w].command}

Capture(w) ==
  /\ worker[w].phase \in {"returned", "raised"}
  /\ worker' = [worker EXCEPT
       ![w].phase = "publishing", ![w].queue = Drained(w),
       ![w].captured = {r \in worker[w].tracked : PendingOf(w, r) # <<>>}]
  /\ swept' = swept \cup Foreign(w, ToSet(Drained(w)))
  /\ UNCHANGED <<backend, commands, commandOf, pending, known, audit, faults>>

\* InMemoryAuditRepository.add or its SQL without the test on the event's id.
AddAlways(e, actor) == Append(audit, [event |-> e, actor |-> actor])

AddRecord(e, actor) ==
  IF \E i \in DOMAIN audit : audit[i].event = e THEN audit
  ELSE Append(audit, [event |-> e, actor |-> actor])

\* The envelopes of a batch carry the actor of the command that drains it.
Publish(w) ==
  /\ worker[w].phase = "publishing"
  /\ worker[w].queue # <<>>
  /\ audit' = AddRecord(Head(worker[w].queue), CommandOf(w).actor)
  /\ worker' = [worker EXCEPT ![w].queue = Tail(@)]
  /\ UNCHANGED <<backend, commands, commandOf, pending, known, swept, faults>>

\* The worker is free; copies loaded from the database are dropped with it.
Finish(w, outcome, cleared) ==
  /\ commands' = [commands EXCEPT ![worker[w].command].outcome = outcome]
  /\ worker' = [worker EXCEPT ![w] = Idle]
  /\ pending' = [h \in DOMAIN pending |-> [r \in Recorders |->
       IF h = w \/ (h = Shared /\ r \in cleared) THEN <<>> ELSE pending[h][r]]]

\* PublishFails if the executor swallowed the failure of a drain.
PublishFailsQuietly(w) ==
  /\ backend = "database"
  /\ worker[w].phase = "publishing"
  /\ worker[w].queue # <<>>
  /\ faults < FaultBound
  /\ faults' = faults + 1
  /\ Finish(w, IF worker[w].failing THEN "raised" ELSE "returned", {})
  /\ UNCHANGED <<backend, commandOf, known, audit, swept>>

\* The audit handler's insert fails: the rest of the batch is not published, no
\* recorder is cleared and the command raises, although its change is committed.
PublishFails(w) ==
  /\ backend = "database"
  /\ worker[w].phase = "publishing"
  /\ worker[w].queue # <<>>
  /\ faults < FaultBound
  /\ faults' = faults + 1
  /\ Finish(w, "raised", {})
  /\ UNCHANGED <<backend, commandOf, known, audit, swept>>

\* The publisher has accepted the batch.
Clear(w) ==
  /\ worker[w].phase = "publishing"
  /\ worker[w].queue = <<>>
  /\ swept' = swept \cup
       Foreign(w, UNION {ToSet(PendingOf(w, r)) : r \in worker[w].captured})
  /\ Finish(w, IF worker[w].failing THEN "raised" ELSE "returned", worker[w].captured)
  /\ UNCHANGED <<backend, commandOf, known, audit, faults>>

Drain(w) == Capture(w) \/ Publish(w) \/ PublishFails(w) \/ Clear(w)

\* The process dies: what is in the database stays.
Crash ==
  /\ backend = "database"
  /\ Busy # {}
  /\ faults < FaultBound
  /\ faults' = faults + 1
  /\ commands' = [c \in DOMAIN commands |->
       IF commands[c].outcome = "running" THEN [commands[c] EXCEPT !.outcome = "died"]
       ELSE commands[c]]
  /\ worker' = [w \in Workers |-> Idle]
  /\ pending' = [h \in DOMAIN pending |-> [r \in Recorders |-> <<>>]]
  /\ UNCHANGED <<backend, commandOf, known, audit, swept>>

-----------------------------------------------------------------------------

Init ==
  /\ backend \in Backends
  /\ commands = <<>> /\ commandOf = <<>>
  /\ pending = [h \in Workers \cup {Shared} |-> [r \in Recorders |-> <<>>]]
  /\ known = {}
  /\ worker = [w \in Workers |-> Idle]
  /\ audit = <<>>
  /\ swept = {}
  /\ faults = 0

Next == Crash \/ \E w \in Workers : Start(w) \/ Run(w) \/ Drain(w)

Spec == Init /\ [][Next]_vars

-----------------------------------------------------------------------------
(* Properties.                                                             *)

Audited(e, actor) == \E i \in DOMAIN audit : audit[i] = [event |-> e, actor |-> actor]

\* When a command has returned, the audit log holds each event it recorded,
\* under its own actor, unless another command took the event from a shared
\* recorder meanwhile (collector.py: single-workflow draining).
AcknowledgedIsAudited ==
  \A e \in DOMAIN commandOf :
    LET c == commands[commandOf[e]] IN
      c.outcome = "returned" => Audited(e, c.actor) \/ e \in swept

\* With objects of its own, or run one at a time, no returned command loses an
\* event that way: only handlers that share the in-memory objects in a thread
\* pool can (recorder_scope.py, routes_router.py).
OnlyThreadsSweep ==
  \A e \in swept : backend = "threads" \/ commands[commandOf[e]].outcome = "raised"

\* An event has one audit record, whoever publishes it and however often
\* (AuditRepositoryPort.add is idempotent by event id).
AuditedOnce ==
  \A i, j \in DOMAIN audit : audit[i].event = audit[j].event => i = j

\* The record of a heartbeat's summary follows those of the changes it sums up
\* (README: domain-event-before-summary ordering).
SummaryComesLast ==
  \A i, j \in DOMAIN audit :
    LET e == audit[i].event
        f == audit[j].event
    IN  /\ commandOf[e] = commandOf[f] /\ e < f
        /\ commands[commandOf[e]].kind = "heartbeat"
        /\ e \notin swept
        => i < j

=============================================================================
