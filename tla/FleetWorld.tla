----------------------------- MODULE FleetWorld -----------------------------
(***************************************************************************)
(* The world of FleetFlow's in-memory runtime: routes, packages and the    *)
(* fleet, the use cases that change them and the heartbeat that reconciles *)
(* them with the clock.                                                    *)
(*                                                                         *)
(* The runtime is the command line's, which is one thread; the handlers of *)
(* the HTTP API, which share these entities between the threads of a pool  *)
(* when the backend is memory, are not modelled here.  Two handlers are    *)
(* loops that go on after one iteration failed: the batch assignment of    *)
(* packages and the heartbeat over all routes.  `job' is the handler in    *)
(* progress; each iteration is one action, and no other handler runs until *)
(* it ends.  The clock is the wall clock (datetime.now()): it moves while  *)
(* a handler runs, and may be set back by at most MaxClockBack.            *)
(***************************************************************************)
EXTENDS FleetDomain

CONSTANTS
    Paths,          \* the location lists routes are created with
    Parcels,        \* the (start, end, weight) triples packages are created with
    Customers,      \* who packages are created for
    Trucks,         \* the seeded fleet
    Capacity,       \* Capacity[t]: kilograms a truck carries
    MaxRange,       \* MaxRange[t]: kilometres a truck can go
    InitialLocation,\* InitialLocation[t]: where seed_fleet puts a truck
    Departures,     \* the departure times routes are created with, None included
    MaxRoutes,      \* bound: how many routes are ever created
    MaxPackages,    \* bound: how many packages are ever created
    MaxTime,        \* bound: the last instant of the clock
    MaxClockBack,   \* bound: how far the wall clock is ever set back at once
    NoRoute,        \* the repository holds no route under this id
    NoPackage       \* the repository holds no package under this id

RouteIds == 1..MaxRoutes
PackageIds == 1..MaxPackages

ASSUME BoundAssumption ==
    /\ MaxRoutes \in Nat
    /\ MaxPackages \in Nat
    /\ MaxTime \in Nat
    /\ MaxClockBack \in Nat

ASSUME PathsAssumption == \A path \in Paths : IsRoutePath(path)

ASSUME ParcelsAssumption ==
    /\ Parcels \subseteq [start : Cities, end : Cities, weight : 1..MaxWeight]
    /\ \A parcel \in Parcels : parcel.start # parcel.end

ASSUME FleetAssumption ==
    /\ Capacity \in [Trucks -> Nat]
    /\ MaxRange \in [Trucks -> Nat]
    /\ InitialLocation \in [Trucks -> Cities]
    /\ None \notin Trucks

ASSUME DeparturesAssumption == Departures \subseteq Nat \cup {None}

RouteStatus == {"PLANNED", "SCHEDULED", "IN_PROGRESS", "COMPLETED"}
ItemStatus == {"TODO", "IN_PROGRESS", "DONE"}
TruckStatus == {"FREE", "ON_THE_WAY"}
OptionalTime == Times \cup {None}

\* DeliveryRoute, DeliveryPackage and Truck.
Route == [path : Paths, dep : OptionalTime, status : RouteStatus,
          truck : Trucks \cup {None}, pkgs : SUBSET PackageIds]

Package == [start : Cities, end : Cities, weight : 1..MaxWeight,
            customer : Customers, route : RouteIds \cup {None},
            status : ItemStatus, loc : Cities, eta : OptionalTime]

Truck == [loc : Cities, route : RouteIds \cup {None}, status : TruckStatus,
          busyFrom : OptionalTime, busyUntil : OptionalTime,
          transit : Cities \cup {None}]

ASSUME SentinelAssumption == NoRoute \notin Route /\ NoPackage \notin Package

\* The handler in progress: which loop, its captured `now', its route and the
\* identifiers its loop has still to visit.
Job == [kind : {"idle", "assign", "heartbeat"}, now : Times,
        route : RouteIds \cup {None}, todo : SUBSET (RouteIds \cup PackageIds)]

Idle == [kind |-> "idle", now |-> 0, route |-> None, todo |-> {}]

VARIABLES
    clock,          \* datetime.now()
    routes,         \* InMemoryRouteRepository
    packages,       \* InMemoryPackageRepository
    trucks,         \* InMemoryTruckRepository
    nextRouteId,
    nextPackageId,
    accounts,       \* Customer.delivery_packages of every customer
    job

vars == <<clock, routes, packages, trucks, nextRouteId, nextPackageId, accounts, job>>

LiveRoutes == {r \in RouteIds : routes[r] # NoRoute}
LivePackages == {p \in PackageIds : packages[p] # NoPackage}

FreeTruck(loc) ==
    [loc |-> loc, route |-> None, status |-> "FREE",
     busyFrom |-> None, busyUntil |-> None, transit |-> None]

Init ==
    /\ clock = 0
    /\ routes = [r \in RouteIds |-> NoRoute]
    /\ packages = [p \in PackageIds |-> NoPackage]
    /\ trucks = [t \in Trucks |-> FreeTruck(InitialLocation[t])]
    /\ nextRouteId = 1
    /\ nextPackageId = 1
    /\ accounts = [c \in Customers |-> {}]
    /\ job = Idle

-----------------------------------------------------------------------------
(* Creating routes and packages                                            *)

\* Bound: only routes that end before the clock does are scheduled.
WithinHorizon(path, dep) == dep # None => EtaFinal(path, dep) <= MaxTime

\* CreateRouteUseCase.execute.  A departure time in the past is accepted.
CreateRoute(path, dep) ==
    /\ job.kind = "idle"
    /\ nextRouteId \in RouteIds
    /\ WithinHorizon(path, dep)
    /\ routes' = [routes EXCEPT ![nextRouteId] =
                    [path |-> path, dep |-> dep,
                     status |-> IF dep = None THEN "PLANNED" ELSE "SCHEDULED",
                     truck |-> None, pkgs |-> {}]]
    /\ nextRouteId' = nextRouteId + 1
    /\ UNCHANGED <<clock, packages, trucks, nextPackageId, accounts, job>>

\* CreatePackageUseCase.execute.  Which customer the contact details of the
\* request resolve to is not modelled here: it may be any.
CreatePackage(parcel, c) ==
    /\ job.kind = "idle"
    /\ nextPackageId \in PackageIds
    /\ packages' = [packages EXCEPT ![nextPackageId] =
                      [start |-> parcel.start, end |-> parcel.end, weight |-> parcel.weight,
                       customer |-> c, route |-> None, status |-> "TODO", loc |-> parcel.start, eta |-> None]]
    /\ nextPackageId' = nextPackageId + 1
    /\ accounts' = [accounts EXCEPT ![c] = @ \cup {nextPackageId}]
    /\ UNCHANGED <<clock, routes, trucks, nextRouteId, job>>

-----------------------------------------------------------------------------
(* Assigning packages                                                      *)

\* Faulty variant: the truck is checked against the new package alone, not
\* against the load the route already has.
PackageAcceptedAlone(R, p, now) ==
    LET q == packages[p]
    IN  /\ IncludesInOrder(R.path, q.start, q.end)
        /\ PickupNotPassed(R.path, R.dep, q.start, now)
        /\ R.truck # None =>
              /\ MaximumSegmentLoadWithin(R.path, packages, {p}, Capacity[R.truck])
              /\ MaxRange[R.truck] >= TotalDistance(R.path)

\* PackageAssignmentPolicy.evaluate
PackageAccepted(R, p, now) ==
    LET q == packages[p]
    IN  /\ IncludesInOrder(R.path, q.start, q.end)
        /\ PickupNotPassed(R.path, R.dep, q.start, now)
        /\ R.truck # None =>
              /\ MaximumSegmentLoadWithin(R.path, packages, R.pkgs \cup {p}, Capacity[R.truck])
              /\ MaxRange[R.truck] >= TotalDistance(R.path)

\* AssignPackagesToRouteUseCase.execute up to the loop: the route is fetched
\* and the clock is read once for the whole batch.
AssignPackagesToRoute(r, ids) ==
    /\ job.kind = "idle"
    /\ r \in LiveRoutes
    /\ job' = [kind |-> "assign", now |-> clock, route |-> r, todo |-> ids]
    /\ UNCHANGED <<clock, routes, packages, trucks, nextRouteId, nextPackageId, accounts>>

LoopAfter(x) ==
    IF job.todo = {x} THEN Idle ELSE [job EXCEPT !.todo = @ \ {x}]

\* Faulty variant: only this route is asked whether it has the package.
AssignableFromAnotherRoute(p) ==
    /\ p \in LivePackages
    /\ p \notin routes[job.route].pkgs
    /\ PackageAccepted(routes[job.route], p, job.now)

AssignablePackage(p) ==
    /\ p \in LivePackages
    /\ packages[p].route = None
    /\ p \notin routes[job.route].pkgs
    /\ PackageAccepted(routes[job.route], p, job.now)

\* DeliveryRoute.assign_package: link both sides, and refresh the expected
\* arrival when the route is scheduled.
AssignPackage(p) ==
    /\ job.kind = "assign"
    /\ p \in job.todo
    /\ AssignablePackage(p)
    /\ LET R == routes[job.route]
       IN  /\ routes' = [routes EXCEPT ![job.route].pkgs = @ \cup {p}]
           /\ packages' = [packages EXCEPT
                 ![p].route = job.route,
                 ![p].eta = IF R.dep = None THEN @
                            ELSE ArrivalTimeAt(R.path, R.dep, packages[p].end)]
    /\ job' = LoopAfter(p)
    /\ UNCHANGED <<clock, trucks, nextRouteId, nextPackageId, accounts>>

\* A missing, already assigned or rejected package is reported and skipped.
SkipPackage(p) ==
    /\ job.kind = "assign"
    /\ p \in job.todo
    /\ ~ AssignablePackage(p)
    /\ job' = LoopAfter(p)
    /\ UNCHANGED <<clock, routes, packages, trucks, nextRouteId, nextPackageId, accounts>>

-----------------------------------------------------------------------------
(* Assigning trucks                                                        *)

\* Faulty variant: the location of an unassigned truck is not looked at.
TruckSuitableAnywhere(t, R, dep) ==
    LET T == trucks[t]
    IN  /\ MaxRange[t] >= TotalDistance(R.path)
        /\ MaximumSegmentLoadWithin(R.path, packages, R.pkgs, Capacity[t])
        /\ T.route # None =>
                LET C == routes[T.route]
                IN  /\ dep # None
                    /\ C.dep # None
                    /\ EtaFinal(C.path, C.dep) < dep
                    /\ End(C.path) = Start(R.path)

\* TruckAssignmentPolicy.evaluate.  dep is the route's departure time, or the
\* probe's (now) when the use case is about to schedule the route itself.
TruckSuitable(t, R, dep) ==
    LET T == trucks[t]
    IN  /\ MaxRange[t] >= TotalDistance(R.path)
        /\ MaximumSegmentLoadWithin(R.path, packages, R.pkgs, Capacity[t])
        /\ IF T.route = None
           THEN T.loc = Start(R.path)
           ELSE LET C == routes[T.route]
                IN  /\ dep # None
                    /\ C.dep # None
                    /\ EtaFinal(C.path, C.dep) < dep
                    /\ End(C.path) = Start(R.path)

\* Faulty variant: a route that has a departure time is scheduled again.
Rescheduled(R) == [R EXCEPT !.dep = clock, !.status = "SCHEDULED"]

\* DeliveryRoute.schedule, as called by _assign_in_memory.  The packages of
\* the route keep the expected arrival they have.
Scheduled(R) ==
    IF R.dep = None THEN [R EXCEPT !.dep = clock, !.status = "SCHEDULED"] ELSE R

\* DeliveryRoute.assign_truck takes only a free truck without a route.
TruckTakeable(t) == trucks[t].status = "FREE" /\ trucks[t].route = None

\* AssignTruckToRouteUseCase.execute
AssignTruckToRoute(r, t) ==
    /\ job.kind = "idle"
    /\ r \in LiveRoutes
    /\ routes[r].truck = None
    /\ LET S == Scheduled(routes[r])
       IN  /\ WithinHorizon(S.path, S.dep)
           /\ TruckSuitable(t, routes[r], S.dep)
           /\ TruckTakeable(t)
           /\ routes' = [routes EXCEPT ![r] = [S EXCEPT !.truck = t]]
           /\ trucks' = [trucks EXCEPT ![t] =
                 [@ EXCEPT !.route = r, !.status = "ON_THE_WAY", !.busyFrom = S.dep,
                           !.busyUntil = EtaFinal(S.path, S.dep), !.transit = None]]
    /\ UNCHANGED <<clock, packages, nextRouteId, nextPackageId, accounts, job>>

\* VehicleManager.find_available_for_route
FindAvailableForRoute(r) == {t \in Trucks : TruckSuitable(t, routes[r], routes[r].dep)}

-----------------------------------------------------------------------------
(* Removing routes and packages                                            *)

\* DeliveryPackage.reset_assignment_state
ResetPackage(q) == [q EXCEPT !.route = None, !.eta = None, !.status = "TODO", !.loc = q.start]

\* Truck.release: the truck reappears, free, at the end of the route it had.
ReleasedTruck(path) == FreeTruck(End(path))

\* RemoveRouteUseCase.execute: detach every package, release the truck by
\* force, drop the route.
RemoveRoute(r) ==
    /\ job.kind = "idle"
    /\ r \in LiveRoutes
    /\ LET R == routes[r]
       IN  /\ \A p \in R.pkgs : packages[p].route # None
           /\ R.truck # None => trucks[R.truck].route # None
           /\ packages' = [p \in PackageIds |->
                             IF p \in R.pkgs THEN ResetPackage(packages[p]) ELSE packages[p]]
           /\ trucks' = IF R.truck = None THEN trucks
                        ELSE [trucks EXCEPT ![R.truck] =
                                ReleasedTruck(routes[trucks[R.truck].route].path)]
    /\ routes' = [routes EXCEPT ![r] = NoRoute]
    /\ UNCHANGED <<clock, nextRouteId, nextPackageId, accounts, job>>

\* RemovePackageUseCase.execute
RemovePackage(p) ==
    /\ job.kind = "idle"
    /\ p \in LivePackages
    /\ LET r == packages[p].route
       IN  /\ r # None => p \in routes[r].pkgs
           /\ routes' = IF r = None THEN routes
                        ELSE [routes EXCEPT ![r].pkgs = @ \ {p}]
    /\ LET owner == packages[p].customer
       IN  /\ p \in accounts[owner]
           /\ accounts' = [accounts EXCEPT ![owner] = @ \ {p}]
    /\ packages' = [packages EXCEPT ![p] = NoPackage]
    /\ UNCHANGED <<clock, trucks, nextRouteId, nextPackageId, job>>

-----------------------------------------------------------------------------
(* The heartbeat                                                           *)

\* HeartbeatService.advance: all routes are reconciled with one `now'.
Heartbeat ==
    /\ job.kind = "idle"
    /\ job' = IF LiveRoutes = {} THEN Idle
              ELSE [kind |-> "heartbeat", now |-> clock, route |-> None, todo |-> LiveRoutes]
    /\ UNCHANGED <<clock, routes, packages, trucks, nextRouteId, nextPackageId, accounts>>

\* Faulty variant: a route is completed only from IN_PROGRESS, as if every
\* route met a heartbeat while it is under way.
StatusAppliesInOrder(old, new) ==
    CASE new = old -> TRUE
      [] new # old /\ new = "IN_PROGRESS" -> old = "SCHEDULED"
      [] new # old /\ new = "COMPLETED" -> old = "IN_PROGRESS"
      [] OTHER -> TRUE

\* _apply_route_status: mark_started and mark_completed raise when the route
\* is not in a status they start from; SCHEDULED and PLANNED are written
\* directly, even backwards.
StatusApplies(old, new) ==
    CASE new = old -> TRUE
      [] new # old /\ new = "IN_PROGRESS" -> old = "SCHEDULED"
      [] new # old /\ new = "COMPLETED" -> old \in {"SCHEDULED", "IN_PROGRESS"}
      [] OTHER -> TRUE

\* mark_picked_up and mark_delivered raise for a package that has no route.
\* A TODO package is picked up, and one in progress delivered, once its time
\* has come.
LifecycleApplies(q, R, now) ==
    R.dep # None /\ IncludesInOrder(R.path, q.start, q.end) =>
        LET due == CASE q.status = "TODO" -> now >= ArrivalTimeAt(R.path, R.dep, q.start)
                     [] q.status = "IN_PROGRESS" -> now >= ArrivalTimeAt(R.path, R.dep, q.end)
                     [] q.status = "DONE" -> FALSE
        IN  due => q.route # None

ReconcileSucceeds(r, now) ==
    LET R == routes[r]
    IN  /\ StatusApplies(R.status, ComputeRouteStatus(R.path, R.dep, now))
        /\ R.truck # None => trucks[R.truck].route \in {None, r}
        /\ \A p \in R.pkgs : LifecycleApplies(packages[p], R, now)

\* Faulty variant: the truck is handed back only by a heartbeat at the instant
\* of the final arrival.
TruckReleasesOnTime(R, now) ==
    LET position == PositionAt(R.path, R.dep, now)
    IN  position.kind = "AT_STOP" /\ position.stop = End(R.path)

\* The truck is handed back at or after the final arrival.
TruckReleases(R, now) ==
    LET position == PositionAt(R.path, R.dep, now)
    IN  \/ position.kind = "AT_STOP" /\ position.stop = End(R.path)
        \/ position.kind = "AFTER_END"

\* Faulty variant: a truck in transit is located at position.stop.
ReconciledTruckAtStop(T, r, R, now) ==
    LET position == PositionAt(R.path, R.dep, now)
    IN  IF TruckReleases(R, now) THEN ReleasedTruck(R.path)
        ELSE [T EXCEPT !.route = r, !.loc = position.stop, !.transit = position.to]

\* Faulty variant: a truck in transit is bound for the end of the route.
ReconciledTruckToEnd(T, r, R, now) ==
    LET position == PositionAt(R.path, R.dep, now)
        located == [T EXCEPT !.route = r]
    IN  CASE TruckReleases(R, now) -> ReleasedTruck(R.path)
          [] position.kind = "UNSCHEDULED" -> [located EXCEPT !.transit = None]
          [] position.kind = "IN_TRANSIT" ->
               [located EXCEPT !.loc = position.from, !.transit = End(R.path)]
          [] OTHER -> [located EXCEPT !.loc = position.stop, !.transit = None]

\* _reconcile_truck_for_route
ReconciledTruck(T, r, R, now) ==
    LET position == PositionAt(R.path, R.dep, now)
        located == [T EXCEPT !.route = r]
    IN  CASE TruckReleases(R, now) -> ReleasedTruck(R.path)
          [] position.kind = "UNSCHEDULED" -> [located EXCEPT !.transit = None]
          [] position.kind = "IN_TRANSIT" ->
               [located EXCEPT !.loc = position.from, !.transit = position.to]
          [] OTHER -> [located EXCEPT !.loc = position.stop, !.transit = None]

\* Faulty variant: a package is delivered only by a heartbeat at the instant of
\* its arrival.
ReconciledPackageOnTime(q, R, now) ==
    IF R.dep = None \/ ~ IncludesInOrder(R.path, q.start, q.end)
    THEN [q EXCEPT !.status = "TODO", !.loc = q.start, !.eta = None]
    ELSE LET pickup == ArrivalTimeAt(R.path, R.dep, q.start)
             delivery == ArrivalTimeAt(R.path, R.dep, q.end)
             due == [q EXCEPT !.eta = delivery]
         IN  CASE now < pickup -> [due EXCEPT !.status = "TODO", !.loc = q.start]
               [] now = delivery -> [due EXCEPT !.status = "DONE", !.loc = q.end]
               [] OTHER -> [due EXCEPT !.status = "IN_PROGRESS",
                              !.loc = LastReachedCity(R.path, R.dep, q.start, q.end, now)]

\* _update_packages_for_route, one package
ReconciledPackage(q, R, now) ==
    IF R.dep = None \/ ~ IncludesInOrder(R.path, q.start, q.end)
    THEN [q EXCEPT !.status = "TODO", !.loc = q.start, !.eta = None]
    ELSE LET pickup == ArrivalTimeAt(R.path, R.dep, q.start)
             delivery == ArrivalTimeAt(R.path, R.dep, q.end)
             due == [q EXCEPT !.eta = delivery]
         IN  CASE now < pickup -> [due EXCEPT !.status = "TODO", !.loc = q.start]
               [] now >= pickup /\ now >= delivery -> [due EXCEPT !.status = "DONE", !.loc = q.end]
               [] OTHER -> [due EXCEPT !.status = "IN_PROGRESS",
                              !.loc = LastReachedCity(R.path, R.dep, q.start, q.end, now)]

\* Faulty variant: the route keeps the truck it has released.
ReconciledRouteKeepsTruck(R, now) ==
    [R EXCEPT !.status = ComputeRouteStatus(R.path, R.dep, now)]

\* _apply_route_status, and release_truck at the end of the route
ReconciledRoute(R, now) ==
    [R EXCEPT !.status = ComputeRouteStatus(R.path, R.dep, now),
              !.truck = IF TruckReleases(R, now) THEN None ELSE R.truck]

NextInLoop(r) ==
    /\ job.kind = "heartbeat"
    /\ r \in job.todo
    /\ \A s \in job.todo : r <= s

\* One iteration of reconcile_routes: the status, then the truck, then the
\* packages of the route.
ReconcileRoute(r) ==
    /\ NextInLoop(r)
    /\ ReconcileSucceeds(r, job.now)
    /\ LET R == routes[r]
           now == job.now
       IN  /\ routes' = [routes EXCEPT ![r] = ReconciledRoute(R, now)]
           /\ trucks' = IF R.truck = None THEN trucks
                        ELSE [trucks EXCEPT ![R.truck] = ReconciledTruck(trucks[R.truck], r, R, now)]
           /\ packages' = [p \in PackageIds |->
                 IF p \in R.pkgs THEN ReconciledPackage(packages[p], R, now) ELSE packages[p]]
    /\ job' = LoopAfter(r)
    /\ UNCHANGED <<clock, nextRouteId, nextPackageId, accounts>>

\* Any exception restores the route, its packages and its truck, and the loop
\* goes on with the next route.
ReconcileRouteFails(r) ==
    /\ NextInLoop(r)
    /\ ~ ReconcileSucceeds(r, job.now)
    /\ job' = LoopAfter(r)
    /\ UNCHANGED <<clock, routes, packages, trucks, nextRouteId, nextPackageId, accounts>>

-----------------------------------------------------------------------------
(* The wall clock                                                          *)

Tick ==
    /\ clock < MaxTime
    /\ clock' = clock + 1
    /\ UNCHANGED <<routes, packages, trucks, nextRouteId, nextPackageId, accounts, job>>

\* Daylight saving or a correction of the system clock: datetime.now() is
\* naive local time.
SetClockBack(by) ==
    /\ clock >= by
    /\ clock' = clock - by
    /\ UNCHANGED <<routes, packages, trucks, nextRouteId, nextPackageId, accounts, job>>

Next ==
    \/ \E path \in Paths, dep \in Departures : CreateRoute(path, dep)
    \/ \E parcel \in Parcels, c \in Customers : CreatePackage(parcel, c)
    \/ \E r \in RouteIds, ids \in SUBSET PackageIds \ {{}} : AssignPackagesToRoute(r, ids)
    \/ \E p \in PackageIds : AssignPackage(p)
    \/ \E p \in PackageIds : SkipPackage(p)
    \/ \E r \in RouteIds, t \in Trucks : AssignTruckToRoute(r, t)
    \/ \E r \in RouteIds : RemoveRoute(r)
    \/ \E p \in PackageIds : RemovePackage(p)
    \/ Heartbeat
    \/ \E r \in RouteIds : ReconcileRoute(r)
    \/ \E r \in RouteIds : ReconcileRouteFails(r)
    \/ Tick
    \/ \E by \in 1..MaxClockBack : SetClockBack(by)

Spec == Init /\ [][Next]_vars

\* The loops run to their end, time passes, and the operator keeps issuing
\* commands: the CLI runs a heartbeat before each of them.
Fairness ==
    /\ WF_vars(Tick)
    /\ SF_vars(Heartbeat)
    /\ WF_vars(\E r \in RouteIds : ReconcileRoute(r) \/ ReconcileRouteFails(r))
    /\ WF_vars(\E p \in PackageIds : AssignPackage(p) \/ SkipPackage(p))

FairSpec == Spec /\ Fairness

-----------------------------------------------------------------------------
(* Properties: the links between the three repositories                    *)

\* Type invariant: every entity has the shape of its Python class, and
\* identifiers are handed out in order.
TypeOK ==
    /\ clock \in Times
    /\ routes \in [RouteIds -> Route \cup {NoRoute}]
    /\ packages \in [PackageIds -> Package \cup {NoPackage}]
    /\ trucks \in [Trucks -> Truck]
    /\ nextRouteId \in 1..(MaxRoutes + 1)
    /\ nextPackageId \in 1..(MaxPackages + 1)
    /\ accounts \in [Customers -> SUBSET PackageIds]
    /\ job \in Job

\* A truck and a route always point at each other: DeliveryRoute.truck and
\* Truck.route are written by assign_truck, release_truck, remove_route and
\* the reconciler, each on both sides.  A truck with a route is on its way for
\* exactly that route's time window, a truck without one is free.
RouteTruckLinks ==
    /\ \A r \in LiveRoutes : routes[r].truck # None => trucks[routes[r].truck].route = r
    /\ \A t \in Trucks :
          LET T == trucks[t]
          IN  IF T.route = None
              THEN T = FreeTruck(T.loc)
              ELSE /\ T.route \in LiveRoutes
                   /\ routes[T.route].truck = t
                   /\ routes[T.route].dep # None
                   /\ T.status = "ON_THE_WAY"
                   /\ T.busyFrom = routes[T.route].dep
                   /\ T.busyUntil = EtaFinal(routes[T.route].path, routes[T.route].dep)

\* A package and a route always point at each other, a package is only ever on
\* a route that visits its pickup before its destination, its expected arrival
\* is the route's or not known yet, and a package without a route is untouched:
\* it waits at its pickup.
RoutePackageLinks ==
    /\ \A r \in LiveRoutes : \A p \in routes[r].pkgs :
          p \in LivePackages /\ packages[p].route = r
    /\ \A p \in LivePackages :
          LET q == packages[p]
          IN  IF q.route = None
              THEN q.status = "TODO" /\ q.loc = q.start /\ q.eta = None
              ELSE /\ q.route \in LiveRoutes
                   /\ p \in routes[q.route].pkgs
                   /\ IncludesInOrder(routes[q.route].path, q.start, q.end)
                   /\ q.eta # None =>
                        /\ routes[q.route].dep # None
                        /\ q.eta = ArrivalTimeAt(routes[q.route].path, routes[q.route].dep, q.end)

\* A customer's list holds exactly the packages in the repository that name the
\* customer: both sides are written by create_package and remove_package only,
\* whatever happens to the package on its route.
OwnerLinks ==
    \A c \in Customers : accounts[c] = {p \in LivePackages : packages[p].customer = c}

\* No truck is ever overloaded or sent beyond its range, whichever came first,
\* the truck or the packages: assign_truck checks the packages the route has,
\* assign_package checks the truck the route has.
TruckNeverOverloaded ==
    \A r \in LiveRoutes :
        LET R == routes[r]
        IN  R.truck # None =>
              /\ MaximumSegmentLoadWithin(R.path, packages, R.pkgs, Capacity[R.truck])
              /\ TotalDistance(R.path) <= MaxRange[R.truck]

\* At a stop of the path, and in transit, if at all, to the next one.
StandsOn(T, path) ==
    \E i \in 1..Len(path) :
        /\ T.loc = path[i]
        /\ T.transit = None \/ (i < Len(path) /\ T.transit = path[i + 1])

\* A truck with a route stands at one of its stops, and is in transit only to
\* the stop that follows.
TruckOnItsPath ==
    \A t \in Trucks : trucks[t].route # None => StandsOn(trucks[t], routes[trucks[t].route].path)

\* A truck whose route has not started is still at the route's first stop: the
\* policy checks the location of a free truck, and a heartbeat that finds the
\* route before its departure puts the truck back there, even after the clock
\* was set back.
TruckWaitsAtStart ==
    \A t \in Trucks :
        LET T == trucks[t]
        IN  T.route # None /\ routes[T.route].status = "SCHEDULED" =>
              T.loc = Start(routes[T.route].path) /\ T.transit = None

\* What a heartbeat has reconciled.
Reconciled(r) == job.kind = "heartbeat" /\ r \in LiveRoutes \ job.todo

\* The cargo travels with its truck: once a heartbeat has reconciled a route,
\* each package under way is in the city its truck was last in, although the
\* truck's position (RouteSchedule.position_at) and the package's
\* (_last_reached_city) are computed by different code.
CargoTravelsWithTruck ==
    \A r \in RouteIds : Reconciled(r) /\ routes[r].truck # None =>
        \A p \in routes[r].pkgs :
            packages[p].status = "IN_PROGRESS" => packages[p].loc = trucks[routes[r].truck].loc

\* "Return trucks that can serve a route": each truck find_available_for_route
\* lists for a route that has none can be assigned to it.
SuitableTrucksAreAssignable ==
    \A r \in LiveRoutes : routes[r].truck = None =>
        \A t \in FindAvailableForRoute(r) : TruckTakeable(t)

-----------------------------------------------------------------------------
(* Properties that rest on a clock that is never set back                  *)

\* Every iteration of reconcile_routes succeeds: the exception handler is
\* never entered, because a route is always in a status from which the status
\* its schedule asks for can be reached.
ReconcileNeverFails ==
    \A r \in RouteIds : NextInLoop(r) => ReconcileSucceeds(r, job.now)

\* A completed route has delivered all its packages, no package is added to it
\* afterwards, and it has given its truck back: one that is still there was
\* assigned after the end and not met by a heartbeat since, and has not moved
\* from the start of the path.
CompletedRouteIsDelivered ==
    \A r \in LiveRoutes : routes[r].status = "COMPLETED" =>
        /\ \A p \in routes[r].pkgs : packages[p].status = "DONE" /\ packages[p].loc = packages[p].end
        /\ clock >= EtaFinal(routes[r].path, routes[r].dep)
        /\ LET t == routes[r].truck
           IN  t # None =>
                 /\ ~ Reconciled(r)
                 /\ trucks[t].loc = Start(routes[r].path)
                 /\ trucks[t].transit = None

\* The truck stands at a later stop of the path, or has left the city.
Passed(T, path, city) ==
    LET here == PathIndex(path, T.loc)
        there == PathIndex(path, city)
    IN  there < here \/ (there = here /\ T.transit # None)

\* Packages board ahead of the truck: no package joins a route whose truck is
\* recorded beyond the package's pickup, though the batch checks it against
\* the schedule at the instant it started and the truck's place was written
\* from the schedule at the last heartbeat.
PackagesBoardAhead ==
    [][\A r \in LiveRoutes : routes[r].truck # None /\ routes'[r] # NoRoute =>
          \A p \in routes'[r].pkgs \ routes[r].pkgs :
             ~ Passed(trucks[routes[r].truck], routes[r].path, packages[p].start)]_vars

RouteRank == [PLANNED |-> 0, SCHEDULED |-> 1, IN_PROGRESS |-> 2, COMPLETED |-> 3]
ItemRank == [TODO |-> 0, IN_PROGRESS |-> 1, DONE |-> 2]

\* The lifecycle never runs backwards: no step lowers the status of a route,
\* and only detaching a package from its route lowers the package's.
LifecycleNeverReverts ==
    [][/\ \A r \in LiveRoutes : routes'[r] # NoRoute =>
             RouteRank[routes[r].status] <= RouteRank[routes'[r].status]
       /\ \A p \in LivePackages : packages'[p] # NoPackage /\ packages'[p].route = packages[p].route =>
             ItemRank[packages[p].status] <= ItemRank[packages'[p].status]]_vars

\* Every truck that takes a route comes free again.
TrucksComeFree ==
    \A t \in Trucks : trucks[t].route # None ~> trucks[t].route = None

\* Every package on a scheduled route is delivered, or taken off that route.
ScheduledPackagesArrive ==
    \A p \in PackageIds, r \in RouteIds :
        (routes[r] # NoRoute /\ p \in routes[r].pkgs /\ routes[r].dep # None)
            ~> (packages[p] = NoPackage \/ packages[p].route # r \/ packages[p].status = "DONE")

-----------------------------------------------------------------------------
(* The board this world implements                                         *)

\* Where each route and each package is in its life, and who holds whom.
Stage ==
    [r \in RouteIds |->
        IF r >= nextRouteId THEN "new"
        ELSE IF routes[r] = NoRoute THEN "gone" ELSE routes[r].status]

ParcelStage ==
    [p \in PackageIds |->
        IF p >= nextPackageId THEN "new"
        ELSE IF packages[p] = NoPackage THEN "gone" ELSE packages[p].status]

Booking == [p \in PackageIds |-> IF packages[p] = NoPackage THEN None ELSE packages[p].route]
Lease == [t \in Trucks |-> trucks[t].route]

Board == INSTANCE DispatchBoard WITH
    Routes <- RouteIds, Packages <- PackageIds,
    stage <- Stage, parcel <- ParcelStage, booking <- Booking, lease <- Lease

\* Every handler of the runtime is one step of the dispatcher's board or is
\* invisible there: a truck is on one route at a time, a removal or the end of
\* a route is visible for the truck, the packages and the route at once, and
\* nothing moves backwards.
ImplementsBoard == Board!BoardSpec
=============================================================================
