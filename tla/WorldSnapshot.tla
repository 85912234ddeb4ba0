--------------------------- MODULE WorldSnapshot ---------------------------
(***************************************************************************)
(* Saving the world to a snapshot file and loading it back.                *)
(*                                                                         *)
(* A snapshot keeps the counters, the links, the departure times and the   *)
(* state of the trucks.  It keeps neither the status of a route nor the    *)
(* progress of a package: loading rebuilds detached candidates from it,    *)
(* links them, reconciles them with the clock and only then swaps them for *)
(* the repositories.  A file comes from this release (version 2), from an  *)
(* older one (version 1, without trucks), or from somewhere else: all that *)
(* stands between it and the world is the validator.                       *)
(*                                                                         *)
(* What a load brings depends on the file and on the clock at the load.    *)
(* The clock runs on without any other step, so loading a file of the      *)
(* world as it is now covers loading one that was saved earlier.           *)
(***************************************************************************)
EXTENDS FleetWorld

CONSTANTS
    Second,         \* units of the clock in the second that files are written in
    NoTruck         \* the snapshot says nothing of this truck

ASSUME SecondAssumption == Second \in Nat \ {0}
ASSUME NoTruckAssumption == NoTruck \notin Truck

PackageSnapshot == [start : Cities, end : Cities, weight : 1..MaxWeight,
                    customer : Customers, route : RouteIds \cup {None}]

RouteSnapshot == [path : Paths, dep : OptionalTime,
                  truck : Trucks \cup {None}, pkgs : SUBSET PackageIds]

WorldStateSnapshot ==
    [version : {1, 2}, nextRouteId : 0..(MaxRoutes + 1), nextPackageId : 0..(MaxPackages + 1),
     routes : [RouteIds -> RouteSnapshot \cup {NoRoute}],
     packages : [PackageIds -> PackageSnapshot \cup {NoPackage}],
     trucks : [Trucks -> Truck \cup {NoTruck}]]

ASSUME SnapshotSentinelAssumption == NoRoute \notin RouteSnapshot /\ NoPackage \notin PackageSnapshot

-----------------------------------------------------------------------------
(* Saving                                                                  *)

\* dt_to_str: the format has no fraction of a second.
SavedTime(time) == IF time = None THEN None ELSE time - (time % Second)

\* WorldStateSnapshotBuilder.build_world_state_snapshot
CurrentSnapshot ==
    [version |-> 2, nextRouteId |-> nextRouteId, nextPackageId |-> nextPackageId,
     routes |-> [r \in RouteIds |->
        IF r \notin LiveRoutes THEN NoRoute
        ELSE [path |-> routes[r].path, dep |-> SavedTime(routes[r].dep),
              truck |-> routes[r].truck, pkgs |-> routes[r].pkgs]],
     packages |-> [p \in PackageIds |->
        IF p \notin LivePackages THEN NoPackage
        ELSE [start |-> packages[p].start, end |-> packages[p].end, weight |-> packages[p].weight,
              customer |-> packages[p].customer, route |-> packages[p].route]],
     trucks |-> [t \in Trucks |->
        [trucks[t] EXCEPT !.busyFrom = SavedTime(@), !.busyUntil = SavedTime(@)]]]

-----------------------------------------------------------------------------
(* Validating: WorldStateSnapshotValidator.validate_snapshot               *)

SavedRoutes(s) == {r \in RouteIds : s.routes[r] # NoRoute}
SavedPackages(s) == {p \in PackageIds : s.packages[p] # NoPackage}

ValidSchema(s) == s.version = 1 => \A t \in Trucks : s.trucks[t] = NoTruck

ValidCounters(s) == s.nextRouteId >= 1 /\ s.nextPackageId >= 1

ValidReferences(s) ==
    /\ \A p \in SavedPackages(s) :
          s.packages[p].route # None => s.packages[p].route \in SavedRoutes(s)
    /\ \A r \in SavedRoutes(s) : s.routes[r].pkgs \subseteq SavedPackages(s)
    /\ \A r1, r2 \in SavedRoutes(s) :
          s.routes[r1].truck # None /\ s.routes[r1].truck = s.routes[r2].truck => r1 = r2

\* Faulty variant: a truck on its way must be between two stops.
ValidTrucksInTransit(s) ==
    \A t \in Trucks : s.trucks[t] # NoTruck =>
        IF s.trucks[t].status = "FREE" THEN s.trucks[t] = FreeTruck(s.trucks[t].loc)
        ELSE s.trucks[t].route # None /\ s.trucks[t].transit # None

\* TruckSnapshotValidator
ValidTrucks(s) ==
    /\ \A t \in Trucks : s.trucks[t] # NoTruck =>
          LET T == s.trucks[t]
          IN  /\ T.status = "FREE" => T = FreeTruck(T.loc)
              /\ T.status = "ON_THE_WAY" => T.route # None
              /\ T.route # None => T.route \in SavedRoutes(s) /\ s.routes[T.route].truck = t
    /\ s.version = 2 => \A t \in Trucks : s.trucks[t] # NoTruck
    /\ \A r \in SavedRoutes(s) :
          LET t == s.routes[r].truck
          IN  t # None /\ s.trucks[t] # NoTruck => s.trucks[t].route = r

\* Faulty variant: only the packages are asked for their route.
ValidRoutePackagesOneSided(s) ==
    \A p \in SavedPackages(s) :
        s.packages[p].route # None => p \in s.routes[s.packages[p].route].pkgs

\* ReferenceSnapshotValidator.validate_route_package_consistency
ValidRoutePackages(s) ==
    /\ \A p \in SavedPackages(s) :
          s.packages[p].route # None => p \in s.routes[s.packages[p].route].pkgs
    /\ \A r \in SavedRoutes(s) : \A p \in s.routes[r].pkgs : s.packages[p].route = r

\* CompatibilitySnapshotValidator.validate_route_package_compatibility
ValidPackageRoutes(s) ==
    \A p \in SavedPackages(s) :
        LET q == s.packages[p]
        IN  q.route # None => IncludesInOrder(s.routes[q.route].path, q.start, q.end)

\* Faulty variant: the load is not checked against the truck.
ValidTruckRoutesUnweighed(s) ==
    \A r \in SavedRoutes(s) :
        LET S == s.routes[r]
        IN  S.truck # None => S.dep # None /\ TotalDistance(S.path) <= MaxRange[S.truck]

\* CompatibilitySnapshotValidator.validate_truck_route_compatibility
ValidTruckRoutes(s) ==
    \A r \in SavedRoutes(s) :
        LET S == s.routes[r]
        IN  S.truck # None =>
              /\ S.dep # None
              /\ MaximumSegmentLoadWithin(S.path, s.packages, S.pkgs, Capacity[S.truck])
              /\ TotalDistance(S.path) <= MaxRange[S.truck]

\* Faulty variant: a counter may be the largest identifier in use.
ValidCounterBoundsInclusive(s) ==
    /\ \A p \in SavedPackages(s) : p <= s.nextPackageId
    /\ \A r \in SavedRoutes(s) : r <= s.nextRouteId

\* IdentitySnapshotValidator.validate_counter_bounds
ValidCounterBounds(s) ==
    /\ \A p \in SavedPackages(s) : p < s.nextPackageId
    /\ \A r \in SavedRoutes(s) : r < s.nextRouteId

\* The order matters: each check reads what the ones before it made safe.
ValidSnapshot(s) ==
    /\ ValidSchema(s)
    /\ ValidCounters(s)
    /\ ValidReferences(s)
    /\ ValidTrucks(s)
    /\ ValidRoutePackages(s)
    /\ ValidPackageRoutes(s)
    /\ ValidTruckRoutes(s)
    /\ ValidCounterBounds(s)

-----------------------------------------------------------------------------
(* Loading: rebuild, link, reconcile, swap                                 *)

\* DeliveryRoute(...) as WorldStateSnapshotRebuilder calls it
RebuiltRoute(s, r) ==
    LET S == s.routes[r]
    IN  [path |-> S.path, dep |-> S.dep,
         status |-> IF S.dep = None THEN "PLANNED" ELSE "SCHEDULED",
         truck |-> S.truck, pkgs |-> S.pkgs]

\* DeliveryPackage(...), then DeliveryRoute.restore_package_link
RebuiltPackage(s, p) ==
    LET q == s.packages[p]
    IN  [start |-> q.start, end |-> q.end, weight |-> q.weight, customer |-> q.customer,
         route |-> q.route, status |-> "TODO", loc |-> q.start,
         eta |-> IF q.route = None \/ s.routes[q.route].dep = None THEN None
                 ELSE ArrivalTimeAt(s.routes[q.route].path, s.routes[q.route].dep, q.end)]

\* WorldStateSnapshotLinker: a clone of the truck in the state the snapshot
\* gives it (version 1: free, at the start of the route), assigned to r.
CandidateTruck(s, t, r) ==
    LET R == RebuiltRoute(s, r)
        clone == IF s.trucks[t] = NoTruck THEN FreeTruck(Start(R.path)) ELSE s.trucks[t]
    IN  [clone EXCEPT !.route = r, !.status = "ON_THE_WAY", !.busyFrom = R.dep,
                      !.busyUntil = EtaFinal(R.path, R.dep), !.transit = None]

\* reconcile_routes over the candidates; a failure leaves the route as rebuilt.
CandidateReconciles(s, r, now) ==
    LET R == RebuiltRoute(s, r)
    IN  /\ StatusApplies(R.status, ComputeRouteStatus(R.path, R.dep, now))
        /\ \A p \in R.pkgs : LifecycleApplies(RebuiltPackage(s, p), R, now)

LoadedRoute(s, r, now) ==
    CASE r \notin SavedRoutes(s) -> NoRoute
      [] r \in SavedRoutes(s) /\ CandidateReconciles(s, r, now) ->
            ReconciledRoute(RebuiltRoute(s, r), now)
      [] OTHER -> RebuiltRoute(s, r)

LoadedPackage(s, p, now) ==
    IF p \notin SavedPackages(s) THEN NoPackage
    ELSE LET q == RebuiltPackage(s, p)
         IN  IF q.route # None /\ CandidateReconciles(s, q.route, now)
             THEN ReconciledPackage(q, RebuiltRoute(s, q.route), now)
             ELSE q

\* Faulty variant: the candidates' trucks are linked but not reconciled.
LoadedTruckAsSaved(s, t, now) ==
    IF \E r \in SavedRoutes(s) : s.routes[r].truck = t
    THEN CandidateTruck(s, t, CHOOSE r \in SavedRoutes(s) : s.routes[r].truck = t)
    ELSE IF s.trucks[t] = NoTruck THEN FreeTruck(trucks[t].loc) ELSE s.trucks[t]

\* build_truck_bindings and VehicleManager.replace_truck_bindings.  A truck
\* the snapshot says nothing of is freed where it stands.
LoadedTruck(s, t, now) ==
    IF \E r \in SavedRoutes(s) : s.routes[r].truck = t
    THEN LET r == CHOOSE r \in SavedRoutes(s) : s.routes[r].truck = t
         IN  IF CandidateReconciles(s, r, now)
             THEN ReconciledTruck(CandidateTruck(s, t, r), r, RebuiltRoute(s, r), now)
             ELSE CandidateTruck(s, t, r)
    ELSE IF s.trucks[t] = NoTruck THEN FreeTruck(trucks[t].loc) ELSE s.trucks[t]

\* Customer.add_package, as WorldStateSnapshotRebuilder calls it
LoadedAccount(s, c) == {p \in SavedPackages(s) : s.packages[p].customer = c}

\* LoadWorldStateUseCase.execute of a file that holds s
LoadWorld(s) ==
    /\ job.kind = "idle"
    /\ ValidSnapshot(s)
    /\ routes' = [r \in RouteIds |-> LoadedRoute(s, r, clock)]
    /\ packages' = [p \in PackageIds |-> LoadedPackage(s, p, clock)]
    /\ trucks' = [t \in Trucks |-> LoadedTruck(s, t, clock)]
    /\ nextRouteId' = s.nextRouteId
    /\ nextPackageId' = s.nextPackageId
    /\ accounts' = [c \in Customers |-> LoadedAccount(s, c)]
    /\ UNCHANGED <<clock, job>>

\* A corrupt snapshot is refused before anything is swapped.
LoadRejected(s) ==
    /\ job.kind = "idle"
    /\ ~ ValidSnapshot(s)
    /\ UNCHANGED vars

-----------------------------------------------------------------------------
(* The files there are to load                                             *)

\* What the previous release would have written.
OldFormat(s) == [s EXCEPT !.version = 1, !.trucks = [t \in Trucks |-> NoTruck]]

\* What an edit may make of one entry.
EditedRoute(S) ==
         {NoRoute, [S EXCEPT !.dep = None]}
    \cup {[S EXCEPT !.path = path] : path \in Paths}
    \cup {[S EXCEPT !.truck = t] : t \in Trucks \cup {None}}
    \cup {[S EXCEPT !.pkgs = ids] : ids \in SUBSET PackageIds}

EditedPackage(q) ==
         {NoPackage, [q EXCEPT !.weight = MaxWeight]}
    \cup {[q EXCEPT !.route = r] : r \in RouteIds \cup {None}}

EditedTruck(T) == {NoTruck, FreeTruck(T.loc)}

EditedCounters(s) ==
         {[s EXCEPT !.nextRouteId = n] : n \in 0..s.nextRouteId}
    \cup {[s EXCEPT !.nextPackageId = n] : n \in 0..s.nextPackageId}

EditedRoutes(s) ==
    UNION {{[s EXCEPT !.routes[r] = S] : S \in EditedRoute(s.routes[r])} : r \in SavedRoutes(s)}

EditedPackages(s) ==
    UNION {{[s EXCEPT !.packages[p] = q] : q \in EditedPackage(s.packages[p])} : p \in SavedPackages(s)}

EditedTrucks(s) ==
    UNION {{[s EXCEPT !.trucks[t] = T] : T \in EditedTruck(s.trucks[t])} : t \in Trucks}

\* The file with one entry edited.
Edited(s) == EditedCounters(s) \cup EditedRoutes(s) \cup EditedPackages(s) \cup EditedTrucks(s)

Files == LET s == CurrentSnapshot IN {s, OldFormat(s)} \cup Edited(s)

SnapshotNext ==
    \/ Next
    \/ \E s \in Files : LoadWorld(s)
    \/ \E s \in Files : LoadRejected(s)

SnapshotSpec == Init /\ [][SnapshotNext]_vars

-----------------------------------------------------------------------------
(* Properties                                                              *)

\* Type invariant: the world keeps its shape, and the file it is saved to has
\* the one the reader expects.
SnapshotTypeOK == TypeOK /\ CurrentSnapshot \in WorldStateSnapshot

\* Whatever the world is when a handler has ended, its snapshot passes the
\* validator: the program never writes a file that it would refuse to load.
EverySaveLoads == job.kind = "idle" => ValidSnapshot(CurrentSnapshot)

\* Routes and trucks, routes and packages, packages and accounts name each other,
\* also in a world loaded from a file that the validator accepts
\* (reference_validator.py, truck_snapshot_validator.py).
LinksAgree == RouteTruckLinks /\ RoutePackageLinks /\ OwnerLinks

\* No identifier is handed out twice: the repositories' counters stay ahead of
\* the entities they hold, also when a file brings counters of its own.
CountersAhead ==
    /\ \A r \in LiveRoutes : r < nextRouteId
    /\ \A p \in LivePackages : p < nextPackageId

\* What a heartbeat at `now' makes of the world, all routes reconciled.
AfterHeartbeat(now) ==
    [routes |-> [r \in RouteIds |->
        IF r \in LiveRoutes THEN ReconciledRoute(routes[r], now) ELSE NoRoute],
     packages |-> [p \in PackageIds |->
        IF p \in LivePackages /\ packages[p].route # None
        THEN ReconciledPackage(packages[p], routes[packages[p].route], now) ELSE packages[p]],
     trucks |-> [t \in Trucks |->
        IF trucks[t].route # None
        THEN ReconciledTruck(trucks[t], trucks[t].route, routes[trucks[t].route], now) ELSE trucks[t]]]

\* Loading what was just saved is a heartbeat and nothing else, although the
\* file has no status and no position in it: when the departure times are
\* whole seconds, nothing is lost on the way, wherever the clock has been.
ReloadIsHeartbeat ==
    job.kind = "idle" /\ (\A r \in LiveRoutes : SavedTime(routes[r].dep) = routes[r].dep) =>
        [routes |-> [r \in RouteIds |-> LoadedRoute(CurrentSnapshot, r, clock)],
         packages |-> [p \in PackageIds |-> LoadedPackage(CurrentSnapshot, p, clock)],
         trucks |-> [t \in Trucks |-> LoadedTruck(CurrentSnapshot, t, clock)]]
        = AfterHeartbeat(clock)
=============================================================================
