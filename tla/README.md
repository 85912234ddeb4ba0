# A TLA+ model of FleetFlow

FleetFlow keeps packages, delivery routes and a fleet of trucks for a
dispatcher. It has a command line and an HTTP API over the same use cases, an
in-memory and a PostgreSQL backend, JSON snapshots of the in-memory world, and
a heartbeat that derives everything that changes by the passing of time. This
directory models

* the in-memory world: the domain rules, the use cases and the heartbeat, the
  snapshot files, and the life of the CLI process around them;
* the events: what each class carries, how it is stored and read back, how it is
  described for the audit log, how it gets there from the entity that recorded
  it, and how the log is kept and shown;
* the HTTP side: tokens and their revocation over both user stores, and
  concurrent commands on PostgreSQL, statement by statement.

Source paths below are relative to the repository's root.

* `tlc -workers 2 -config <cfg> <module>` repeats a run (the table in
  [Runs](#runs-and-what-they-show)).
* `tlapm <module>` repeats the proofs of `FleetWorldProofs`,
  `WorldSnapshotProofs`, `CliSessionProofs`, `AuthTokensProofs`,
  `PublishedEventsProofs`, `AuditLogProofs`, `EventDeliveryProofs` and
  `DispatchDatabaseProofs`.

## 1. Inventory

### Components

| Component | State | Operations | Interacts with |
|---|---|---|---|
| Scheduling and load rules (`domain/services`, `domain/value_objects`) | none | arrival times, position at an instant, status at an instant, segment loads | called by the policies, the entities and the reconciler |
| Assignment policies | none | accept or reject a package or a truck for a route | called by the assignment use cases |
| Entities `DeliveryRoute`, `DeliveryPackage`, `Truck`, `Customer` | status, links in both directions, place, window, expected arrival, recorded events | assign, release, detach, mark started/picked up/delivered/completed, reset | mutate each other through the links |
| Route and package use cases | none | create, assign a batch of packages, assign a truck, remove | policies, entities, repositories |
| Heartbeat and reconciliation | the `now` of one pass | reconcile every route; on an exception roll that route back and go on | entities; runs before each CLI command |
| In-memory repositories | entities by id, the next ids, the fleet | add, get, remove, replace all | shared by all use cases |
| World-state snapshots | the file | build, validate, rebuild, link, reconcile, swap; write beside and rename | repositories, reconciler |
| CLI engine and startup | who is logged in, what the heartbeat changed | restore, heartbeat, command, autosave | buses, snapshots, authorization |
| Authorization | current user | check a permission | decorates every use case |
| Authentication, users, tokens | users, token versions | login, logout, change/reset password, verify | user stores, HTTP |
| Customer registry | customers and two lookup indexes | find or create by e-mail and phone | package creation |
| JSON user store | two dictionaries of users and a file | look up, update, save whole | token and password use cases |
| Event recording and publication | recorders, scopes, pending events | record, collect, publish, clear | every use case |
| Audit log | records by event id | describe an event, store once, show a page | subscribes to events |
| Outbox and codecs | messages and their status | encode, decode, claim, complete, fail | not wired into the runtime yet |
| PostgreSQL persistence | rows, transactions, one unit of work for each process | load graphs, write rows, commit | replaces the in-memory repositories |
| HTTP API | request-local user | translate requests | buses, thread pool |
| Buses, composition, views, parsing, logging | wiring only | dispatch, render | - |

`PROJECT.json` lists all twenty-one with their files and what is modelled of
each.

### What is hard about it

* **Derived state under a clock nobody controls.** No timer ends a route. Every
  status, place and arrival is recomputed by whichever heartbeat comes next,
  possibly after the route is over. Times are naive local times, so the clock
  may also go back.
* **Links stored on both sides.** Route and truck, route and package, package
  and customer point at each other, and five pieces of code write each pair.
* **Loops that survive a failure.** The batch assignment skips a package that is
  refused; the heartbeat rolls back one route and goes on with the next.
* **One rule, two pieces of code.** Capacity is checked when a truck joins the
  packages and again when a package joins the truck; a truck's place and its
  cargo's are computed by different walks over the stop times; the validator
  restates what the use cases guarantee; the loader recomputes what the
  heartbeat had computed.
* **Crashes and files.** A file may be older than the world, of an older
  release, or edited; the process may stop in any phase; a save may be denied or
  fail.
* **Publication after the fact.** Events are published when the command's change
  is already committed. A failing handler makes a successful command look
  failed, leaves events for somebody else to publish, and may be reached twice.
* **Handlers in a thread pool.** The HTTP API runs synchronous handlers
  concurrently over one container: one unit of work, one set of in-memory
  entities and recorders, one user store, none of them with a lock.
* **Check, then write.** On PostgreSQL a use case decides on copies and writes
  whole rows back; what it read in three statements may never have been true at
  one time.
* **Revocation by version.** A token is as good as the version in it: a version
  handed out twice, or an update lost, revives a token or ends a session.
* **Thirty-odd hand-written tables.** Each event class has a codec and an audit
  mapping; a key missing in one of them shows when an event is read or audited,
  long after the command.

The hazards are listed one by one, each at the line where it bites, in
`PROJECT.json`.

### What makes each component correct

* World: the three kinds of link agree, no truck is overloaded or off its
  route, a truck waits for its route at the start, the lifecycle never reverts,
  trucks come free and packages arrive.
* Reconciliation: never fails while the clock does not go back; cargo is where
  its truck is; a package boards ahead of the truck, never behind it; a
  completed route has delivered everything and given its truck back.
* Snapshots: what is saved can be loaded; loading it is a heartbeat and nothing
  else; no accepted file breaks the world; identifiers are never reused.
* CLI: the file holds the world, unless the operator was told that it does not or
  a command was cut short after its use case had changed something.
* Events: what a command that returned recorded is in the audit log, once, under
  its own actor, and in the promised order; what is lost is lost to commands
  that share objects, and to nothing else.
* Codecs and audit mapping: everything the program can record is stored, read
  back the same, and described in a way that tells it from other events; nothing
  unsound is read.
* Audit log: both repositories hold and show the same; a page is exactly the
  records at its places among those asked for that the viewer may see, as many
  as offset and limit leave, with the number of all of them.
* Tokens: revoked tokens stay refused, the others go on working, a changed
  password stays changed.
* PostgreSQL: keys hold, a unit of work is kept whole or not at all, also when the
  answer to its `COMMIT` is lost, and unsound worlds come from stale copies only.

## 2. Modules

| Module | Stands for |
|---|---|
| `FleetDomain` | `RoutePath`, `RouteScheduler`, `RouteSchedule.position_at`, `RouteLoadCalculator`, the pickup rule, the status and the last reached city of the reconciler: operators, no state |
| `FleetWorld` | the three repositories, the customers' package lists, the use cases and the heartbeat |
| `DispatchBoard` | abstract specification: what the dispatcher sees, without clock, distance or load |
| `WorldSnapshot` | extends `FleetWorld` with saving, validating and loading snapshot files |
| `CliSession` | extends `WorldSnapshot` with the CLI process: startup, users, heartbeat, command, autosave, stop |
| `EventTypes` | the catalogue of event classes: contract version and the possible values of every attribute |
| `EventCodecs` | extends `EventTypes` with the codec of each class, the registry, and the life of one event in storage |
| `AuditMapping` | extends `EventTypes` with the descriptor, payload and draft of each class |
| `PublishedEvents` | puts the two together: what is recorded can be audited and told apart |
| `EventDelivery` | recorders, scopes, capture, publication, clearing, failures and crashes, with concurrent commands |
| `AuditLog` | the two audit repositories side by side, filters, pages, and the use case that shows them |
| `AuthTokens` | logins, refreshes, logouts, password changes and resets in threads, over PostgreSQL and over the JSON user store |
| `DispatchDatabase` | routes, trucks and packages in PostgreSQL under concurrent commands |
| `FleetWorldProofs`, `WorldSnapshotProofs`, `CliSessionProofs`, `AuthTokensProofs`, `PublishedEventsProofs`, `AuditLogProofs`, `EventDeliveryProofs`, `DispatchDatabaseProofs` | theorems; those about the operators of `FleetDomain` open `FleetWorldProofs` |
| `MCFleetWorld`, `MCWorldSnapshot`, `MCCliSession`, `MCEventCodecs`, `MCEventDelivery`, `MCDispatchDatabase`, `MCRequests` | the small instances TLC checks |

### FleetWorld and the code

`routes`, `packages` and `trucks` are the repositories: a record per entity with
the fields that the rules read. `accounts` is `Customer.delivery_packages`. An
identifier whose entity was removed maps to `NoRoute` or `NoPackage`. `clock` is
`datetime.now()`. The runtime modelled is the command line, which is one thread:
every use case is one action, except for the two loops (the HTTP API with the
memory backend runs its use cases in a thread pool over the same entities; that
is left out, see section 5): `job` holds the loop in progress with the
`now` it captured, and each iteration is an action (`AssignPackage` or
`SkipPackage`; `ReconcileRoute` or `ReconcileRouteFails`), so the clock moves
between iterations while the captured `now` does not. The heartbeat visits the
routes in the order of their identifiers, as the repository lists them; the
order of a batch is the caller's and therefore any.

The reconciler mutates a route, its truck and its packages and undoes all of it
when anything raises; a failed iteration is therefore a step that changes
nothing but the loop. What can raise is modelled by the guards of the entity
methods (`StatusApplies`, `LifecycleApplies`).

Time is measured in the time a truck needs for one unit of distance, so a leg's
duration is its distance. The load of a segment is the number of kilograms on
it, as the cardinality of a set of (package, kilogram) pairs: this needs no
recursion and can be proved about.

### WorldSnapshot and the code

`CurrentSnapshot` is `WorldStateSnapshotBuilder`: no route status and no package
position, times without a fraction of a second (`Second` clock units make one
second). `ValidSnapshot` is the validator, one definition per check, in its
order. `Loaded...` are the candidates after `WorldStateSnapshotRebuilder`,
`WorldStateSnapshotLinker` and `reconcile_routes`. `LoadWorld` swaps them in in
one step, `LoadRejected` leaves everything as it was. `Files` are the files a
load may meet: what this release would write, what the previous release would
have written (version 1, no trucks), and what this release would write with any
one entry changed or removed.

### CliSession and the code

`cli` is the phase of the process; `changed` is `heartbeat_changed`; `file` and
`aside` are the default state file and one that the operator moved away;
`mutated` records that the use case of the line has changed the world. A line is
a heartbeat, then the use case, then the autosave if the heartbeat or the command
asks for it. `CutShort` is every exception `_exec_line` catches: a `ValueError`
or `PermissionError` before the use case changes anything, and any other
exception, or Ctrl-C, in the middle of the heartbeat or of a batch, after the use
case, or during the autosave. The prompt returns without an autosave and without
a word about the file, and what was changed stays. `behind` records that `file`
need not be the world: an autosave failed with a warning, another file was
loaded, or a command was cut short after a change (what only a heartbeat changed
is computed again by the next one, so losing it is not counted). The process may
stop in every phase and takes the world with it. The write of the file is atomic because the code writes a
temporary file and renames it.

### EventTypes, EventCodecs, AuditMapping, PublishedEvents and the code

An event class is an entry of `Catalogue`: its version and the set of values of
each attribute. A codec is the table its two functions implement: under each
payload key, how `encode_payload` writes the attribute and how `decode_payload`
checks it; both are evaluated from the table, with the shared converters of
`validation.py` and `json_serialization.py` as operators. `row` is what is
stored. Between `Store` and `Read` a row may lose or gain a key, have any value
replaced by a scalar of another JSON type or content or by a short list, a list
lengthened, its class or version changed, or its metadata made unsound: a
stand-in for other releases and manual edits. The audit side is the same kind of
table, one per class, and `Draft` is what `AuditEventHandler` hands to the
repository. A denial names the target its resolver computes.

### EventDelivery and the code

`commands` are the commands so far with their actor and outcome; an event is
the number of its occurrence, and `commandOf` says who recorded it. `pending` is
`_pending_events` of each recorder, for each holder of objects: `Shared` for the
in-memory ones, the worker for copies loaded from PostgreSQL and for the package
a command has just created. A worker goes from running its use case to
returned or raised, captures what is pending (`EventDrainingExecutor`,
`RecorderScope.collect`), publishes the batch event by event, and clears the
recorders it captured from (`EventCollector`). The executor around the heartbeat
puts the recorders before the scope; every other one drains the scope first.
`PublishFails` is a failing audit insert; `DatabaseError` a refused write of the
use case, which restores the recorder; `Crash` the end of the process. `swept`
is a history variable: events captured or cleared by a command that did not
record them.

Four command kinds stand for all, because the executor tells no others apart:
changes committed one by one (assigning packages), two recorders of which one is
committed first (creating a package and its customer), a denial, and the
heartbeat with its scope. `backend` is one of three deployments: the in-memory
CLI, the in-memory HTTP API with its thread pool, and PostgreSQL.

One thing the model shows that no property forbids: the customer created before
a refused package keeps its `CustomerCreated` pending (the refusing command has
tracked nothing), and the next command that tracks this customer publishes it,
under its own actor. The properties speak of commands that returned, and the
refused one did not.

### AuditLog and the code

`records` is the in-memory repository, `rows` with `serial` the table. `Add`
delivers a draft to both: the dictionary keeps the first, and so does
`ON CONFLICT (event_id) DO NOTHING`, which still consumes a serial number. A
filter is a function from the fields given. The pages of the memory backend are
slices of the filtered list; those of the table are the two SQL statements,
including the row of NULLs that brings the total of a page beyond the end.
`ViewAudits` replaces the actor in the filter of a user who may not see
others' records.

### AuthTokens and the code

A token is its account and the version in it, with the number of updates that
had been written when its record was read (a history value). `handler` is what
each thread is doing: a login or refresh reads the record and issues later; an
update checks, reads, writes. On PostgreSQL the write is one statement on the
row. In `JSONUserStore` it is an assignment to each of two dictionaries, the
collection of all records and the replacement of the file, with a step between
any two. A restart reloads the file. `disturbed` becomes true when two updates
of the JSON store overlap, when a save fails, or when the process stops with an
update not yet saved. The properties are excused then, and each of the three
excuses is needed: the store reads, computes and assigns without a lock, and it
raises the version in memory before the file has it, so an overlap can undo a
password change or a revocation, and a version lost with the process is handed
out a second time. PostgreSQL needs no excuse. What the properties excuse they cannot catch: the
lost updates of the JSON store are known, and no property is claimed to find
them.

### DispatchDatabase and the code

`db` is the committed rows, reduced to their links. A connection collects the
writes of its transaction and locks their rows; `View` is what the transaction
itself reads. A command reads its copy statement by statement (READ COMMITTED),
decides with the policy, and writes: the assignments of packages each in a
transaction of its own, as the use case does it, the other commands in the
`PostgresUnitOfWork`. `unit` is that object, one for each process: `__enter__`
replaces its connection, and each statement, the commit and `__exit__` use
whatever connection they find there. A statement may wait for a lock, miss its
row, violate a key, fail or lose the connection. A `COMMIT` may do its work and
be answered (`Commit`), do its work and lose the answer (`CommitUnanswered`), or
fail (`CommitFails`); in the last two cases the command raises. Only writes fail
so: a read that fails ends a command that has written nothing. `stale` records that a write
was committed whose copies no longer matched the rows (`OnlyStaleCopiesHarm`
excuses the harm such a write does, so it finds what else could do harm); `shared` that another
thread entered the same unit of work.

## 3. Runs and what they show

| Run | Module, cfg | Shows |
|---|---|---|
| `world_safety` | `MCFleetWorld`, `FleetWorldSafety.cfg` | links, capacity and places hold under every order of use cases, heartbeat iterations and clock steps, with a clock that may go back |
| `world_progress` | `MCFleetWorld`, `FleetWorldLiveness.cfg` | with a clock that does not go back: reconciliation never fails, nothing reverts, cargo travels with its truck, packages board ahead of the truck, a completed route has delivered and given its truck back, trucks come free, packages arrive, and the world implements `DispatchBoard` |
| `suitable_trucks` | `MCFleetWorld`, `SuitableTrucks.cfg` | a disagreement (below) |
| `snapshot_files` | `MCWorldSnapshot`, `SnapshotFiles.cfg` | every save loads, a reload is a heartbeat, and no accepted file breaks the world: the links of routes and trucks, routes and packages, packages and customers agree through handlers and loads |
| `cli_session` | `MCCliSession`, `CliSession.cfg` | the file never falls behind the world without a warning unless a command is cut short after its use case changed something, although every command that raises skips the autosave of what its heartbeat changed |
| `cli_startup` | `MCCliSession`, `CliStartup.cfg` | a disagreement |
| `cli_autosave` | `MCCliSession`, `CliAutosave.cfg` | a disagreement |
| `stored_events` | `MCEventCodecs`, `EventCodecs.cfg` | every event class, with every pair of attribute values: nothing recorded is refused, changed or left untold by codec or audit mapping; whatever is done to a stored row, nothing unsound is read |
| `event_delivery` | `MCEventDelivery`, `EventDelivery.cfg` | two workers in each deployment, with failing writes, failing inserts and crashes: what a returned command recorded is audited once, under its actor and in order, except events that threads take from each other |
| `requests` | `MCRequests`, `Requests.cfg` | tokens: revocation, sessions and passwords under concurrent requests and restarts; audit log: both backends give the same pages, of exactly the records at their places and with the total, and keep what they have |
| `dispatch_database` | `MCDispatchDatabase`, `DispatchDatabase.cfg` | rows stay linked; a unit of work that no other thread enters is atomic, whatever becomes of its `COMMIT`; an unsound world needs a stale copy or a shared unit |
| `shared_unit` | `MCDispatchDatabase`, `SharedUnit.cfg` | a disagreement |

Each property of a passing run has a mutant in `PROJECT.json`: a faulty variant
of a definition (named as such in the modules) under which TLC finds the
property violated.

### Bounds, and why they are enough

* **Map and fleet.** Three hubs, the paths `a b c` and `c a`, one truck. A
  two-leg path has a first, a middle and a last stop, which is every case the
  position and load rules distinguish; the second path starts where the first
  ends, so one truck can serve both in turn, and competition for it arises with
  two routes. No rule compares two trucks with each other, except that they may
  not share a route, and a route's `truck` field holds one; that several trucks
  do no harm is left to the proofs.
* **Parcels.** One for the whole way and one for the second leg, weights 1 and
  2, capacity 2: each fits alone and not both on the second leg. In
  `snapshot_files` a weight can be edited to 3, beyond the truck.
* **Time.** `LongLeg = 2` in `world_progress` and `suitable_trucks` puts an
  instant strictly inside a leg. `MaxTime` is the smallest that lets the longest
  route run to its end after the latest departure; routes that would outlast
  the clock are not scheduled (`WithinHorizon`). A departure of 1 can lie in the
  past, the present or the future of its creation.
* **Clock set back.** `MaxClockBack = 1` in `world_safety` and 0 elsewhere: the
  properties of the other runs really need a clock that does not go back, all
  but `CargoTravelsWithTruck`, which is proved for any clock.
* **Entities.** Two routes and two packages (`world_safety`), two routes and one
  package (`world_progress`, `snapshot_files`), one route and one package (the
  CLI runs, whose subject is the file). Two customers in `snapshot_files`, so
  that a package could be on the wrong account. Identifiers run out, which
  bounds the number of creations.
* **Files.** `Second = 2`: a clock instant may be cut by a save.
* `DiskMayFail` is TRUE in `cli_session` and FALSE in the runs whose violation
  should not be blamed on a disk.
* **Stored events.** Two identifiers, two times, three weights, strings that
  differ in case, blanks, emptiness and in being an ISO time with or without an
  offset: a converter distinguishes no more. Of an event's attributes any two
  take all their values while the others keep one: a codec handles one attribute
  at a time, so a mistake shows in one or, when two are swapped, in two. Only
  rows of one exemplar of each class are altered, once (`AlterationBound`).
  Lists have at most two items (`ListBound`), those of permissions one
  (`PermissionBound`): order and duplicates need two, and what is done with an
  item does not depend on its place. No list is made longer than that in the
  store either (`Fitting`), since what is read is compared with the values
  enumerated.
* **Event delivery.** Three commands (`CommandBound`): one that leaves events
  behind, one that takes them, and one more at the same time. One route and one
  customer that all commands share (sharing is the hazard), at most one package
  in an assignment (`ChangeBound`), one fault (`FaultBound`). The proofs remove
  these bounds.
* **Requests.** Four requests (`RequestBound`): a login, an update, another
  update that overlaps and a refresh. Three additions to the log (`LogBound`)
  with one delivery repeated are enough for a page in the middle, one beyond the
  end, and a serial number that was skipped. The two halves share no variable;
  the run explores each while the other rests, which checks every property of
  each half in all of its states.
* **Dispatch on PostgreSQL.** Two commands at a time, from *every* sound world
  of two routes, two trucks and two packages, so that what earlier commands may
  have done is in the initial state. Two processes, or both commands in one.
  `Capacity = 1`, so that two packages overload a truck. Two transactions that
  lock rows in opposite orders would need a third command or a removal of more
  than these packages; a deadlock the database resolves is a failing statement,
  which may happen anywhere. `shared_unit` needs one process, truck and package
  only.

The proofs below remove these bounds for the safety properties they cover.

### Fairness

`FairSpec` assumes weak fairness of the clock and of both loops (a loop in
progress goes on: it is a Python `for` in one thread) and strong fairness of
`Heartbeat`: the CLI dispatches a heartbeat before each line
(`src/adapters/driving/cli/engine.py`), so this says that the operator keeps
typing. It must be strong because other handlers come between, during which a
heartbeat cannot start. No use case is assumed to happen. The clock stops at
`MaxTime`; since only routes that end by then are scheduled, this does not make
any arrival true or false. A batch assignment in progress is not interrupted by
a heartbeat in the model or in the code.

The modules of events, requests and PostgreSQL state safety only. What would
be live in them depends on a client that sends another command, on a lock that
the database grants, or on a handler that stops failing, and the code promises
none of these.

Deadlock is checked in every run but two: in the CLI a heartbeat is always
possible when nothing else is, a request or a restart always is in `requests`,
and in `DispatchDatabase` the end of all commands is a stuttering step of its
own, so that commands that wait for each other for ever would be found. In
`stored_events` an event's life ends when it has been read, and in
`event_delivery` when the commands are used up; there `CHECK_DEADLOCK` is off.

### Disagreements between the code and what it says of itself

1. `suitable_trucks`: trucks that are on another route are listed as able to
   serve a later route, and the policy (with a unit test) accepts them, but
   `DeliveryRoute.assign_truck` takes only a free truck.
2. `cli_startup`: the restore at startup is dispatched while nobody is logged in
   and denied; `main()` does not handle the `PermissionError`, so the program
   does not start while a state file is there.
3. `cli_autosave`: the autosave runs with the rights of the user who typed the
   command, and an employee may change the world but not save it.
4. `shared_unit`: the container of a process holds one `PostgresUnitOfWork`,
   whose connection is an attribute. Two handlers in the thread pool that enter
   it at the same time commit each other's transactions, lose their own writes
   and report success, although the port promises atomic persistence.

The quotations are in `PROJECT.json`.

## 4. What is proved

The proofs hold for every value of the constants: every map, set of paths,
parcels, fleet, set of customers, bound, and amount by which the clock is set
back; every number of processes, workers, threads, accounts, commands, requests,
failures and restarts. They assume of the constants what the constructors enforce:
distances between different hubs are positive (`DistanceAssumption`), paths have
at least two different hubs (`PathsAssumption`), weights are positive and start
and end differ (`ParcelsAssumption`), capacities and ranges are naturals
(`FleetAssumption`), departures are times or `None` (`DeparturesAssumption`),
`Second` is positive, users have one name for each id, events of a kind have the
same fields and limits and offsets are numbers (`AuditLogAssumption`), ids and
weights are positive, stripping a text twice is stripping it once, every time
has its ISO text and every ISO text its time (`EventTypesAssumption`), rows are
of one kind each and there are finitely many packages
(`DispatchDatabaseAssumption`), and the sentinels are distinct from the values
they stand beside. The theorems on lifecycles assume `MaxClockBack = 0`, in
their statement. TLC evaluates the assumptions of a module on every run of a
module that extends it.

* **`FleetWorldProofs`.** About the operators of `FleetDomain`: `StopsInOrder`,
  along a valid path the arrival times strictly increase;
  `UnloadingNeverOverloads`, packages taken off a route never bring a segment
  beyond a capacity it was within. The recursion of `StopOffsets` is handled
  with a set-based induction on `Nat` derived from the well-foundedness of `<`,
  since a parametrised induction rule is not available. About the world:
  `Spec => []Inv`, where `Inv` conjoins the type
  invariant, `RouteTruckLinks`, `RoutePackageLinks`, `TruckNeverOverloaded`,
  `TruckOnItsPath` and two strengthenings. `FreshIds` (nothing is stored under
  an identifier not handed out yet) is needed because creating a route under an
  identifier in use would cut the links of the old one. `JobOK` (what a running
  loop still holds is still in the repositories) is needed because
  `AssignPackage` writes to the route its batch started with. There is a lemma
  per action. Capacity rests on `UnloadingNeverOverloads` when something leaves
  a route and on the guards when something joins it. `OwnerLinks` and
  `TruckWaitsAtStart` are proved on top of `Inv`.
  With a clock that is not set back: `NeverFailsHolds`,
  `CompletedDeliveredHolds`, `BoardsAhead`, `LifecycleHolds`, and the
  refinement, `BoardImplemented`. They follow from one invariant, `Timely`: whatever the
  status of a route or package says has happened was due by the schedule at an
  instant no later than the one the handler in progress works with (`Present`:
  the clock between handlers, the captured `now` within a loop), and nothing on
  a completed route is undelivered. It is needed because a status by itself does
  not say when it was set: with it, the status a heartbeat computes is never
  behind the one the route has, so no iteration fails. A batch that
  started before a route was over works with its old `now`, but so does no
  heartbeat meanwhile, hence `AssignPackageToOpenRoute`. That a completed route
  has given its truck back needs `LateTrucks`: a truck on one came after the end,
  is at the start and not under way, since the heartbeat that completed the route
  released the truck it had and only a later assignment gives it another.
  `BoardsAhead` (`PackagesBoardAhead`) needs `TrucksTimely`: a truck is recorded
  at a stop the schedule has reached by `Present`, so a pickup that has not
  passed by then is not behind it. The initial states of
  the world are initial states of `DispatchBoard`, and every step is a step of
  the board or leaves it as it is: there is a lemma for each handler.
  `CargoTravels` needs no assumption on the clock. Truck and package are placed
  by two walks over the stop times, which end at the same stop
  (`LastStopReached`, `CargoIsWithTruck`); a route whose reconciliation fails
  because the clock was set back is a completed one, with nothing under way
  (`Settled`, `OnlyCompletedFails`).
* **`WorldSnapshotProofs`.** `AcceptedFilesAreSound`: the world loaded from
  *any* snapshot of the right shape that passes the validator satisfies the
  whole invariant, wherever the file comes from. Every check of the validator is
  used in it except the schema's (a version 1 file without trucks), which is not
  needed for soundness. The heart is that a rebuilt candidate always reconciles
  (`CandidatesReconcile`), so its truck is on its path or released, whatever
  place the file gave it. `EverySaveLoadsHolds`: the validator accepts the
  snapshot of every world that satisfies `Inv`. Together, `WorldInvHolds`:
  handlers and loads in any mix preserve the invariant, `CountersAhead`, the
  types and the links. `ReloadHolds`: loading what was just saved is a heartbeat
  and nothing else, also after the clock was set back; the extra invariant
  `UnassignedAsCreated` says that a package without a route has no progress that
  the file would forget.
* **`CliSessionProofs`.** `CliInvHolds`, for every sequence of startups, logins,
  commands, failed saves, loads and stops. `FileKeepsUp` is
  `AutosaveKeepsUp`, which is not inductive: a heartbeat changes the world
  without touching the file, and a command that raises skips the autosave of
  that change. What is inductive (`HoldsWorld`) is that, unless `behind` or the
  use case of the line has changed something, file and world agree on what a load
  at any later instant would bring back; a command cut short after that change
  leaves `behind` true, and is the one silent loss the theorem excuses. A heartbeat keeps this because reconciling now and loading later is
  loading later (`ReconcileKeepsRecovery`, with `ReleasedFromTheEndOn` for
  trucks whose route is over). `StateFilesLoad`: a state file, when there is one,
  passes the validator. `CliWorldIsSound`: links and capacity hold through
  restarts and loads.
* **`AuthTokensProofs`.** The three properties of tokens. The inductive
  invariant `AuthInv` counts: unless the store has been disturbed, an account's
  version is one more than the updates written to it, a token's version is one
  more than the updates before its record was read (or two, when it was read
  between the two assignments of the JSON store), the file holds what has been
  acknowledged, and a thread that has read a record for an update is the only
  one between reading and saving. Revocation follows because an acknowledged
  update has been counted after every token issued before it began.
* **`PublishedEventsProofs`.** What becomes of an event, by tables. A converter
  *fits* the values of an attribute (`FieldFits`) when it is the one for values
  of that kind, the null of JSON included or not and lists within their bound;
  an audit entry *shows* them (`FieldShown`) when it tells them apart. What
  follows is proved once: a value is read back as it was written
  (`FieldRoundTrip`), and whatever is read from an admissible JSON value is a
  value of the attribute (`FieldSound`). One lemma for each of the 41 classes
  (`CustomerCreatedFits`, ...) compares the class with its codec and its audit
  mapping attribute by attribute, and the codec's identity with those of all
  others. From these tables and `RowInv` follow `EveryEventIsKept`
  (`StoredEventReadsBack`), `ReadingIsSound` (`ReadIsSound`) and `StoredValues`
  (`CodecTypeOK`); from the tables and the fact that events keep to the
  catalogue, `EventsAreAudited` (`EventIsAuditable`) and `AuditsAreTelling`
  (`AuditTellsEvent`). That a row holds JSON values is not inductive enough: a
  location is read from any text, so the invariant says under which keys a
  stored text is one of `Strings` (`AdmissibleAt`). Events are those of
  `PairwiseBound` and alterations those of `AlterationBound`, over all values;
  the round trip itself (`EncodedAndDecoded`) and the drafts
  (`DraftsAreAccepted`, `DraftsAreTelling`) are proved for every event of the
  catalogue. What a draft does not tell (`Omitted`) is a gap of the mapping:
  `RouteRemoved.previous_departure_time` is nowhere in the audit log.
* **`AuditLogProofs`.** `RepositoriesKeepStep`: the list and the table hold the
  same events with the same contents in the same order, each once (`LogInv`),
  for every number of deliveries, repeats and denials. `LogOnlyGrows`: no step
  changes or drops a record. `BackendsShowTheSame` (`BackendsAgree`) and
  `PagesAreExact` (`PageIsExact`: the records of its places, as many as offset and
  limit leave, and the total) are about every log, filter, limit and offset.
  The two backends number their records differently, and a filter that names a
  field is false on a NULL in one and on a `None` in the other; but a record and
  its row come in the same order in both (`PairedSorted`), and a page is the
  interval of ranks from its offset (`SliceIsPage`), so the pages consist of
  the same pairs (`PairedPages`). That sorting ranks a finite set without gaps
  (`RankBijection`) is derived from cardinalities.
* **`EventDeliveryProofs`.** `AcknowledgedIsAudited`, `OnlyThreadsSweep` and
  `AuditedOnce`. None is inductive by itself. `DeliveryInv` follows each event
  of a running command that nobody has swept: it is on the recorder the command
  works on, then on one it has tracked or in its scope, then in its batch or
  already in the log under its actor (`Held`); a shared recorder that holds
  an event of a command is one the command is going to clear (`Placed`); with
  one command at a time no event of another running command can be pending
  (`SharedOK`). The proof is rely/guarantee: `Guarantee(w)` says what a step of
  worker `w` may do to commands, events, shared recorders, swept events and the
  log; every action of `w` is shown to keep it (a lemma for each), `OtherWorker`
  shows that it keeps every other worker's part of the invariant, and `StepInv`
  draws the conclusion once for all actions. The crash has a lemma of its own.
  `SummaryFollows` (`SummaryComesLast`) needs more: an event that a summary sums
  up must be ahead of it wherever the two can be. `OrderInv` says so place by
  place: no summary is pending on an entity, a heartbeat's scope holds its
  summary only, and in every batch and in the log whatever precedes an event is
  there before it. That what precedes is there at all is `Held` again, at the
  moment of capture.
* **`DispatchDatabaseProofs`.** Three properties, in layers. `BaseInvariant`
  has the types and who owns what: a connection serves one unit of work, and
  what a transaction holds was written by commands of the process whose unit has
  that connection; a command nobody disturbed (`Lone`) is alone in its unit.
  `LinksHold` (`RowsStayLinked`) is about any interleaving, shared units
  included. Linked rows are not inductive, since a commit lays the writes of one
  transaction over whatever rows there are then. `RemovalCascades` says that a
  transaction which removes a route also takes off every package that names it
  *now*, and `TrucksReserved` that no truck is on two routes in the rows as any
  transaction sees them (`View`), and that no two open transactions give out one
  truck: the row locks and the unique index, as an invariant. `LoneUnitsAtomic`
  (`LoneUnitIsAtomic`) counts: the statements a lone unit's transaction holds
  and those left are those planned; of a command that raised nothing is
  committed, or all of it when the answer to its `COMMIT` was lost. `OnlyStaleHarms` (`OnlyStaleCopiesHarm`) carries a decision from the
  copy to the commit. `PlansInv` says that the command's policy accepted its copy
  (`Decided`), and that what its transaction holds, with what is left to do, is
  the plan made from that copy and nothing else. When the copy still matches the
  rows at the commit, the rows after it are sound by cases of the command;
  assignments of packages, which have no unit, commit one row by itself.

### Only model-checked

Liveness (`TrucksComeFree`, `ScheduledPackagesArrive`) is out of the prover's
reach. Every invariant and action property of a passing run is stated by a
theorem. Where a definition computes over a list or along a path, the proofs do
not use induction with an operator parameter, which the provers cannot
instantiate, but sets closed under successor (`SetInduction`), ranks, or the
bound of the list.

## 5. What is not modelled

* The HTTP API with the memory backend as threads over shared entities: its
  handlers run in a thread pool without a lock, so two of them may interleave
  within a use case. `FleetWorld` runs one use case after the other, as the
  command line does; only the recorders and events of that deployment are
  modelled with threads (`EventDelivery`).
* Ctrl-C between two assignments of one use case, or within the reconciliation of
  one route (the handler that rolls a route back does not catch it): `CutShort`
  comes between the steps of `FleetWorld`.
* The column lengths of `audit_records`: a text longer than its column is kept in
  memory and refused by the table.
* Reads that fail in `DispatchDatabase`, which write nothing.
* Customer lookup by e-mail and phone and its conflicts, and customers' contact
  data in snapshot files; a package's customer is any member of a set.
* Registration of users and the bootstrap of the first manager. The JSON store
  allocates a user's id without a lock, and a command line and a server on one
  `users.json` would each read it once; neither is explored.
* The life of outbox messages (claiming, completing, failing): the repository
  has the messages and codecs and nothing at run time that stores or delivers
  them.
* Nested commands and subscribers other than the audit handler: the log handler
  only writes a line, and no handler dispatches a command.
* The import of a whole world into PostgreSQL and the heartbeat's write of what
  moved; the HTTP API runs no heartbeat, so they never run beside a request of
  the same process.
* A swap of the in-memory repositories that fails half-way: they give it no
  reason to.
* The counters of the fleet overview and of the heartbeat's summary: sums over
  what is modelled, read only.
* The quarantine of an unreadable state file at startup: with the code as it is,
  the restore is denied before the file is read.
* Fractions of kilometres and the division by the speed: legs last a natural
  number of units.
* HTTP schemas, status codes and exception handlers; expiry and signatures of
  tokens (they only refuse more); password hashing.
* Rejection reasons, messages, menus, parsing, rendering, settings and logging.

## 6. Plan

What is left, in the order of what matters most:

1. `CustomerRegistry`: find-or-create with two indexes in memory and two unique
   keys in PostgreSQL, under concurrent requests.
2. The heartbeat and the importer on PostgreSQL, beside the commands of
   `DispatchDatabase`: a command line and a server on one database.
3. Registration in `AuthTokens`: identifiers and the first manager.
4. The outbox's message life, when something runs it.
5. Customers in `WorldSnapshot`, and the fleet overview as operators over
   `FleetWorld`.
