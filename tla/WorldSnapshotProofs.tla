------------------------ MODULE WorldSnapshotProofs ------------------------
(***************************************************************************)
(* The validator is strict enough and not too strict, for every map, fleet *)
(* and bound: a world loaded from any file it accepts, however the file    *)
(* was made, satisfies Inv, and every world that satisfies Inv is saved to *)
(* a file it accepts. What such a file brings back, a heartbeat at the     *)
(* time of the load would have made of the world that was saved.           *)
(***************************************************************************)
EXTENDS WorldSnapshot, FleetWorldProofs

-----------------------------------------------------------------------------
(* Saved instants                                                          *)

LEMMA SavedTimeType ==
  ASSUME NEW time \in OptionalTime
  PROVE  /\ SavedTime(time) \in OptionalTime
         /\ SavedTime(time) = None <=> time = None
<1>1. CASE time = None
  BY <1>1 DEF SavedTime
<1>2. CASE time # None
  <2>1. time \in Nat
    BY <1>2 DEF OptionalTime, Times
  <2>2. time % Second \in 0..(Second - 1)
    BY <2>1, SecondAssumption
  <2>3. time % Second <= time
    BY <2>1, SecondAssumption
  <2>4. time - (time % Second) \in Nat
    BY <2>1, <2>2, <2>3, SecondAssumption
  <2> QED BY <1>2, <2>4, NoneAssumption DEF SavedTime, OptionalTime, Times
<1> QED BY <1>1, <1>2

-----------------------------------------------------------------------------
(* The candidates a snapshot is rebuilt into                               *)

LEMMA SavedRouteFacts ==
  ASSUME NEW s \in WorldStateSnapshot, NEW r \in SavedRoutes(s)
  PROVE  /\ r \in RouteIds /\ r # None
         /\ s.routes[r] \in RouteSnapshot
         /\ IsRoutePath(s.routes[r].path)
         /\ RebuiltRoute(s, r) \in Route
         /\ RebuiltRoute(s, r).path = s.routes[r].path
         /\ RebuiltRoute(s, r).dep = s.routes[r].dep
         /\ RebuiltRoute(s, r).truck = s.routes[r].truck
         /\ RebuiltRoute(s, r).pkgs = s.routes[r].pkgs
         /\ RebuiltRoute(s, r).status = IF s.routes[r].dep = None THEN "PLANNED" ELSE "SCHEDULED"
<1>1. r \in RouteIds /\ s.routes[r] \in RouteSnapshot
  BY DEF SavedRoutes, WorldStateSnapshot
<1>2. r # None
  BY <1>1, NoneAssumption, BoundAssumption DEF RouteIds
<1>3. s.routes[r].path \in Paths /\ IsRoutePath(s.routes[r].path)
  BY <1>1, PathsAssumption DEF RouteSnapshot
<1>4. RebuiltRoute(s, r) = [path |-> s.routes[r].path, dep |-> s.routes[r].dep,
         status |-> IF s.routes[r].dep = None THEN "PLANNED" ELSE "SCHEDULED",
         truck |-> s.routes[r].truck, pkgs |-> s.routes[r].pkgs]
  BY DEF RebuiltRoute
<1>5. (IF s.routes[r].dep = None THEN "PLANNED" ELSE "SCHEDULED") \in RouteStatus
  BY DEF RouteStatus
<1> QED BY <1>1, <1>2, <1>3, <1>4, <1>5 DEF RouteSnapshot, Route

LEMMA SavedPackageFacts ==
  ASSUME NEW s \in WorldStateSnapshot, ValidSnapshot(s), NEW p \in SavedPackages(s)
  PROVE  LET q == s.packages[p]
             b == RebuiltPackage(s, p)
         IN  /\ p \in PackageIds
             /\ q \in PackageSnapshot
             /\ q.route # None =>
                  /\ q.route \in SavedRoutes(s)
                  /\ p \in s.routes[q.route].pkgs
                  /\ IncludesInOrder(s.routes[q.route].path, q.start, q.end)
             /\ b \in Package
             /\ SameParcel(b, q)
             /\ b.route = q.route /\ b.customer = q.customer
             /\ b.status = "TODO" /\ b.loc = q.start
             /\ q.route = None => b.eta = None
<1> DEFINE q == s.packages[p]
           S == s.routes[q.route]
           b == RebuiltPackage(s, p)
           eta == IF q.route = None \/ S.dep = None THEN None ELSE ArrivalTimeAt(S.path, S.dep, q.end)
<1>1. p \in PackageIds /\ q \in PackageSnapshot
  BY DEF SavedPackages, WorldStateSnapshot
<1>2. q.route # None =>
        /\ q.route \in SavedRoutes(s)
        /\ p \in S.pkgs
        /\ IncludesInOrder(S.path, q.start, q.end)
  BY DEF ValidSnapshot, ValidReferences, ValidRoutePackages, ValidPackageRoutes
<1>3. eta \in OptionalTime
  <2>1. CASE q.route = None \/ S.dep = None
    BY <2>1 DEF OptionalTime
  <2>2. CASE q.route # None /\ S.dep # None
    <3>1. q.route \in SavedRoutes(s) /\ OnPath(S.path, q.end)
      BY <1>2, <2>2 DEF IncludesInOrder
    <3>2. IsRoutePath(S.path) /\ S.dep \in Nat
      BY <2>2, <3>1, SavedRouteFacts DEF RouteSnapshot, OptionalTime, Times
    <3> QED BY <2>2, <3>1, <3>2, ArrivalTimeType DEF OptionalTime, Times
  <2> QED BY <2>1, <2>2
<1>4. b = [start |-> q.start, end |-> q.end, weight |-> q.weight, customer |-> q.customer,
           route |-> q.route, status |-> "TODO", loc |-> q.start, eta |-> eta]
  BY DEF RebuiltPackage
<1>5. q.route = None => eta = None
  OBVIOUS
<1> HIDE DEF eta, b
<1>6. b \in Package /\ SameParcel(b, q) /\ b.route = q.route /\ b.customer = q.customer
      /\ b.status = "TODO" /\ b.loc = q.start /\ b.eta = eta
  BY <1>1, <1>3, <1>4 DEF PackageSnapshot, Package, ItemStatus, SameParcel
<1> QED BY <1>1, <1>2, <1>5, <1>6 DEF b

\* Reconciling candidates never fails: they start as PLANNED or SCHEDULED and
\* their packages as TODO, linked to their route.
LEMMA CandidatesReconcile ==
  ASSUME NEW s \in WorldStateSnapshot, ValidSnapshot(s), NEW r \in SavedRoutes(s), NEW now \in Nat
  PROVE  CandidateReconciles(s, r, now)
<1> DEFINE R == RebuiltRoute(s, r)
<1>1. R.status = IF R.dep = None THEN "PLANNED" ELSE "SCHEDULED"
  BY SavedRouteFacts
<1>2. StatusApplies(R.status, ComputeRouteStatus(R.path, R.dep, now))
  <2> HIDE DEF R
  <2>1. CASE R.dep = None
    BY <1>1, <2>1 DEF StatusApplies, ComputeRouteStatus
  <2>2. CASE R.dep # None
    BY <1>1, <2>2 DEF StatusApplies, ComputeRouteStatus
  <2> QED BY <2>1, <2>2
<1>3. ASSUME NEW p \in R.pkgs PROVE LifecycleApplies(RebuiltPackage(s, p), R, now)
  <2>1. p \in s.routes[r].pkgs
    BY SavedRouteFacts
  <2>2. p \in SavedPackages(s) /\ s.packages[p].route = r
    BY <2>1 DEF ValidSnapshot, ValidReferences, ValidRoutePackages
  <2>3. RebuiltPackage(s, p).route # None
    BY <2>2, SavedPackageFacts, SavedRouteFacts
  <2> QED BY <2>3 DEF LifecycleApplies
<1> QED BY <1>2, <1>3 DEF CandidateReconciles

-----------------------------------------------------------------------------
(* The world that is swapped in                                            *)

LEMMA LoadedRouteFacts ==
  ASSUME NEW s \in WorldStateSnapshot, ValidSnapshot(s), NEW r \in SavedRoutes(s), NEW now \in Nat
  PROVE  LET L == LoadedRoute(s, r, now)
         IN  /\ L \in Route /\ L # NoRoute
             /\ L.path = s.routes[r].path
             /\ L.dep = s.routes[r].dep
             /\ L.pkgs = s.routes[r].pkgs
             /\ L.status = ComputeRouteStatus(s.routes[r].path, s.routes[r].dep, now)
             /\ L.truck = IF TruckReleases(RebuiltRoute(s, r), now) THEN None ELSE s.routes[r].truck
<1> DEFINE R == RebuiltRoute(s, r)
           L == LoadedRoute(s, r, now)
           status == ComputeRouteStatus(R.path, R.dep, now)
           truck == IF TruckReleases(R, now) THEN None ELSE R.truck
<1>1. L = ReconciledRoute(R, now)
  BY CandidatesReconcile DEF LoadedRoute
<1>2. L = [R EXCEPT !.status = status, !.truck = truck]
  BY <1>1 DEF ReconciledRoute
<1>3. R \in Route /\ R.path = s.routes[r].path /\ R.dep = s.routes[r].dep
      /\ R.pkgs = s.routes[r].pkgs /\ R.truck = s.routes[r].truck
  BY SavedRouteFacts
<1>4. status \in RouteStatus
  BY DEF ComputeRouteStatus, RouteStatus
<1>5. truck \in Trucks \cup {None}
  BY <1>3 DEF Route
<1> HIDE DEF R, L
<1>6. /\ L \in Route
      /\ L.path = R.path /\ L.dep = R.dep /\ L.pkgs = R.pkgs /\ L.status = status /\ L.truck = truck
  <2> HIDE DEF status, truck
  <2> QED BY <1>2, <1>3, <1>4, <1>5 DEF Route
<1> QED BY <1>3, <1>6, SentinelAssumption DEF L, R

LEMMA LoadedPackageFacts ==
  ASSUME NEW s \in WorldStateSnapshot, ValidSnapshot(s), NEW p \in SavedPackages(s), NEW now \in Nat
  PROVE  LET L == LoadedPackage(s, p, now)
             q == s.packages[p]
         IN  /\ L \in Package /\ L # NoPackage
             /\ SameParcel(L, q)
             /\ L.route = q.route
             /\ L.customer = q.customer
             /\ q.route = None => L.status = "TODO" /\ L.loc = q.start /\ L.eta = None
             /\ q.route # None /\ L.eta # None =>
                  /\ s.routes[q.route].dep # None
                  /\ L.eta = ArrivalTimeAt(s.routes[q.route].path, s.routes[q.route].dep, q.end)
<1> DEFINE q == s.packages[p]
           b == RebuiltPackage(s, p)
           L == LoadedPackage(s, p, now)
<1>1. /\ b \in Package /\ SameParcel(b, q) /\ b.route = q.route /\ b.customer = q.customer
      /\ b.status = "TODO" /\ b.loc = q.start
      /\ q.route = None => b.eta = None
      /\ q.route # None => q.route \in SavedRoutes(s)
  BY SavedPackageFacts
<1>2. CASE q.route = None
  <2>1. L = b
    BY <1>1, <1>2 DEF LoadedPackage
  <2> QED BY <1>1, <1>2, <2>1, SentinelAssumption
<1>3. CASE q.route # None
  <2> DEFINE R == RebuiltRoute(s, q.route)
  <2>1. CandidateReconciles(s, q.route, now)
    BY <1>1, <1>3, CandidatesReconcile
  <2>2. L = ReconciledPackage(b, R, now)
    BY <1>1, <1>3, <2>1 DEF LoadedPackage
  <2>3. R \in Route /\ IsRoutePath(R.path) /\ R.path = s.routes[q.route].path /\ R.dep = s.routes[q.route].dep
    BY <1>1, <1>3, SavedRouteFacts
  <2>4. /\ L \in Package /\ SameParcel(L, b) /\ L.route = b.route
        /\ L.eta # None => R.dep # None /\ L.eta = ArrivalTimeAt(R.path, R.dep, b.end)
    BY <1>1, <2>2, <2>3, ReconciledPackageFacts
  <2>5. L # NoPackage
    BY <2>4, SentinelAssumption
  <2>6. L.customer = b.customer
    BY <1>1, <2>2, <2>5, ReconciledPackageOwner
  <2> HIDE DEF L, R, b
  <2>7. SameParcel(L, q) /\ b.end = q.end
    BY <1>1, <2>4 DEF SameParcel
  <2>8. L.eta # None =>
          /\ s.routes[q.route].dep # None
          /\ L.eta = ArrivalTimeAt(s.routes[q.route].path, s.routes[q.route].dep, q.end)
    BY <2>3, <2>4, <2>7
  <2>9. L.route = q.route /\ L.customer = q.customer
    BY <1>1, <2>4, <2>6
  <2> QED BY <1>3, <2>4, <2>5, <2>7, <2>8, <2>9 DEF L
<1> QED BY <1>2, <1>3

\* A heartbeat puts the truck of a scheduled route on the route's path, wherever
\* it was before.
LEMMA ReconciledStands ==
  ASSUME NEW T \in Truck, NEW r \in RouteIds, NEW R \in Route, IsRoutePath(R.path), R.dep \in Nat,
         NEW now \in Nat, ~ TruckReleases(R, now)
  PROVE  StandsOn(ReconciledTruck(T, r, R, now), R.path)
<1> DEFINE P == PositionAt(R.path, R.dep, now)
           T2 == ReconciledTruck(T, r, R, now)
<1>0. R.dep \in Nat \cup {None}
  OBVIOUS
<1>1. \/ /\ P.kind = "IN_TRANSIT"
         /\ \E i \in 1..(Len(R.path) - 1) : P.from = R.path[i] /\ P.to = R.path[i + 1]
      \/ /\ P.kind \in {"UNSCHEDULED", "BEFORE_START", "AT_STOP", "AFTER_END"}
         /\ \E i \in 1..Len(R.path) : P.stop = R.path[i]
  BY <1>0, PositionKinds
<1>2. P.kind # "UNSCHEDULED"
  BY NoneAssumption DEF PositionAt, Standing, Driving
<1>3. Len(R.path) \in Nat
  BY PathFacts
<1> HIDE DEF P
<1>4. CASE P.kind = "IN_TRANSIT"
  <2>1. T2 = [[T EXCEPT !.route = r] EXCEPT !.loc = P.from, !.transit = P.to]
    BY <1>4 DEF ReconciledTruck, P
  <2>2. T2.loc = P.from /\ T2.transit = P.to
    BY <2>1 DEF Truck
  <2>3. PICK i \in 1..(Len(R.path) - 1) : P.from = R.path[i] /\ P.to = R.path[i + 1]
    BY <1>1, <1>4
  <2>4. i \in 1..Len(R.path) /\ i < Len(R.path)
    BY <1>3, <2>3
  <2> HIDE DEF T2
  <2>5. StandsOn(T2, R.path)
    BY <2>2, <2>3, <2>4 DEF StandsOn
  <2> QED BY <2>5 DEF T2
<1>5. CASE P.kind # "IN_TRANSIT"
  <2>1. T2 = [[T EXCEPT !.route = r] EXCEPT !.loc = P.stop, !.transit = None]
    BY <1>2, <1>5 DEF ReconciledTruck, P
  <2>2. T2.loc = P.stop /\ T2.transit = None
    BY <2>1 DEF Truck
  <2>3. PICK i \in 1..Len(R.path) : P.stop = R.path[i]
    BY <1>1, <1>5
  <2> HIDE DEF T2
  <2>4. StandsOn(T2, R.path)
    BY <2>2, <2>3 DEF StandsOn
  <2> QED BY <2>4 DEF T2
<1> QED BY <1>4, <1>5

\* A truck that the file puts on a route: on its way on it, or released.
LEMMA LoadedTruckOnRoute ==
  ASSUME NEW s \in WorldStateSnapshot, ValidSnapshot(s), NEW r \in SavedRoutes(s), NEW now \in Nat,
         NEW t \in Trucks, s.routes[r].truck = t
  PROVE  LET L == LoadedTruck(s, t, now)
             S == s.routes[r]
         IN  /\ L \in Truck
             /\ S.dep # None
             /\ TruckReleases(RebuiltRoute(s, r), now) => L = FreeTruck(End(S.path))
             /\ ~ TruckReleases(RebuiltRoute(s, r), now) =>
                  /\ L.route = r
                  /\ L.status = "ON_THE_WAY"
                  /\ L.busyFrom = S.dep
                  /\ L.busyUntil = EtaFinal(S.path, S.dep)
                  /\ StandsOn(L, S.path)
                  /\ ComputeRouteStatus(S.path, S.dep, now) = "SCHEDULED" =>
                       L.loc = Start(S.path) /\ L.transit = None
<1> DEFINE S == s.routes[r]
           R == RebuiltRoute(s, r)
           clone == IF s.trucks[t] = NoTruck THEN FreeTruck(Start(R.path)) ELSE s.trucks[t]
           C == CandidateTruck(s, t, r)
           L == LoadedTruck(s, t, now)
<1>1. t # None
  BY FleetAssumption
<1>2. /\ S \in RouteSnapshot /\ IsRoutePath(S.path) /\ r \in RouteIds
      /\ R \in Route /\ R.path = S.path /\ R.dep = S.dep
  BY SavedRouteFacts
<1>3. S.dep # None
  BY <1>1 DEF ValidSnapshot, ValidTruckRoutes
<1>4. S.dep \in Nat
  BY <1>2, <1>3 DEF RouteSnapshot, OptionalTime, Times
<1>5. r = CHOOSE r2 \in SavedRoutes(s) : s.routes[r2].truck = t
  <2>1. \A r2 \in SavedRoutes(s) : s.routes[r2].truck = t => r2 = r
    BY <1>1 DEF ValidSnapshot, ValidReferences
  <2> QED BY <2>1
<1>6. L = ReconciledTruck(C, r, R, now)
  <2>1. CandidateReconciles(s, r, now)
    BY CandidatesReconcile
  <2>2. LoadedTruck(s, t, now) =
           LET r2 == CHOOSE r2 \in SavedRoutes(s) : s.routes[r2].truck = t
           IN  IF CandidateReconciles(s, r2, now)
               THEN ReconciledTruck(CandidateTruck(s, t, r2), r2, RebuiltRoute(s, r2), now)
               ELSE CandidateTruck(s, t, r2)
    BY DEF LoadedTruck
  <2> QED BY <1>5, <2>1, <2>2
<1>7. clone \in Truck
  <2>1. Start(R.path) \in Cities
    BY <1>2, PathFacts DEF Start
  <2>2. FreeTruck(Start(R.path)) \in Truck
    BY <2>1 DEF FreeTruck, Truck, TruckStatus, OptionalTime
  <2>3. s.trucks[t] \in Truck \cup {NoTruck}
    BY DEF WorldStateSnapshot
  <2> QED BY <2>2, <2>3
<1>8. EtaFinal(R.path, R.dep) \in Nat
  <2>1. StopOffsets(R.path)[Len(R.path)] \in Nat
    BY <1>2, OffsetsType, PathFacts
  <2> QED BY <1>2, <1>3, <1>4, <2>1 DEF EtaFinal, TotalDistance
<1>9. /\ C \in Truck /\ C.route = r /\ C.status = "ON_THE_WAY" /\ C.busyFrom = R.dep
      /\ C.busyUntil = EtaFinal(R.path, R.dep) /\ C.loc = clone.loc /\ C.transit = None
  <2>1. C = [clone EXCEPT !.route = r, !.status = "ON_THE_WAY", !.busyFrom = R.dep,
                          !.busyUntil = EtaFinal(R.path, R.dep), !.transit = None]
    BY DEF CandidateTruck
  <2> HIDE DEF clone, C, R
  <2> QED BY <1>2, <1>4, <1>7, <1>8, <2>1 DEF Truck, TruckStatus, OptionalTime, Times
<1> HIDE DEF C, R, clone
<1>10. /\ L \in Truck
       /\ TruckReleases(R, now) => L = FreeTruck(End(R.path))
       /\ ~ TruckReleases(R, now) =>
            L.route = r /\ L.status = C.status /\ L.busyFrom = C.busyFrom /\ L.busyUntil = C.busyUntil
  BY <1>2, <1>6, <1>9, ReconciledTruckFacts
<1>11. ~ TruckReleases(R, now) => StandsOn(L, R.path)
  BY <1>2, <1>3, <1>4, <1>6, <1>9, ReconciledStands
<1>12. ComputeRouteStatus(R.path, R.dep, now) = "SCHEDULED" => L.loc = Start(R.path) /\ L.transit = None
  BY <1>2, <1>6, <1>9, ReconciledBeforeStart
<1> QED BY <1>2, <1>3, <1>9, <1>10, <1>11, <1>12 DEF R

\* Any other truck: free, where the file or the fleet has it.
LEMMA LoadedTruckOffRoute ==
  ASSUME TypeOK, NEW s \in WorldStateSnapshot, ValidSnapshot(s), NEW now \in Nat, NEW t \in Trucks,
         \A r \in SavedRoutes(s) : s.routes[r].truck # t
  PROVE  /\ LoadedTruck(s, t, now) \in Truck
         /\ LoadedTruck(s, t, now) = FreeTruck(LoadedTruck(s, t, now).loc)
<1> DEFINE T == s.trucks[t]
           L == LoadedTruck(s, t, now)
<1>1. L = IF T = NoTruck THEN FreeTruck(trucks[t].loc) ELSE T
  BY DEF LoadedTruck
<1>2. \A loc : FreeTruck(loc).loc = loc
  BY DEF FreeTruck
<1>3. CASE T = NoTruck
  <2>1. trucks[t].loc \in Cities
    BY DEF TypeOK, Truck
  <2>2. FreeTruck(trucks[t].loc) \in Truck
    BY <2>1 DEF FreeTruck, Truck, TruckStatus, OptionalTime
  <2> QED BY <1>1, <1>2, <1>3, <2>2
<1>4. CASE T # NoTruck
  <2>1. T \in Truck
    BY <1>4 DEF WorldStateSnapshot
  <2>2. /\ T.status = "FREE" => T = FreeTruck(T.loc)
        /\ T.status = "ON_THE_WAY" => T.route # None
        /\ T.route # None => T.route \in SavedRoutes(s) /\ s.routes[T.route].truck = t
    BY <1>4 DEF ValidSnapshot, ValidTrucks
  <2>3. T.status = "FREE"
    BY <2>1, <2>2 DEF Truck, TruckStatus
  <2> QED BY <1>1, <1>4, <2>1, <2>2, <2>3
<1> QED BY <1>3, <1>4

-----------------------------------------------------------------------------
(* Whatever the validator accepts                                          *)

\* Inv, and the two invariants proved from it.
WorldInv == Inv /\ OwnerLinks /\ TruckWaitsAtStart

\* Any file at all, not only one that this program wrote and somebody edited:
\* if the validator lets it through, the world that LoadWorldStateUseCase swaps
\* in has consistent links, fresh identifiers, no overloaded truck and every
\* truck on its path.
THEOREM AcceptedFilesAreSound ==
  ASSUME WorldInv, NEW s \in WorldStateSnapshot, LoadWorld(s)
  PROVE  WorldInv'
<1> DEFINE now == clock
           LR(r) == LoadedRoute(s, r, now)
           LP(p) == LoadedPackage(s, p, now)
           LT(t) == LoadedTruck(s, t, now)
           Releases(r) == TruckReleases(RebuiltRoute(s, r), now)
<1>1. /\ job.kind = "idle" /\ ValidSnapshot(s)
      /\ routes' = [r \in RouteIds |-> LR(r)]
      /\ packages' = [p \in PackageIds |-> LP(p)]
      /\ trucks' = [t \in Trucks |-> LT(t)]
      /\ nextRouteId' = s.nextRouteId
      /\ nextPackageId' = s.nextPackageId
      /\ accounts' = [c \in Customers |-> LoadedAccount(s, c)]
      /\ clock' = clock /\ job' = job
  BY DEF LoadWorld
<1>2. TypeOK /\ now \in Nat
  BY DEF WorldInv, Inv, TypeOK, Times
<1>3. \A r \in RouteIds : r \notin SavedRoutes(s) => LR(r) = NoRoute
  BY DEF LoadedRoute
<1>4. \A p \in PackageIds : p \notin SavedPackages(s) => LP(p) = NoPackage
  BY DEF LoadedPackage
<1>5. \A r \in SavedRoutes(s) :
        /\ r \in RouteIds /\ r # None
        /\ s.routes[r] \in RouteSnapshot
        /\ LR(r) \in Route /\ LR(r) # NoRoute
        /\ LR(r).path = s.routes[r].path
        /\ LR(r).dep = s.routes[r].dep
        /\ LR(r).pkgs = s.routes[r].pkgs
        /\ LR(r).status = ComputeRouteStatus(s.routes[r].path, s.routes[r].dep, now)
        /\ LR(r).truck = IF Releases(r) THEN None ELSE s.routes[r].truck
  BY <1>1, <1>2, LoadedRouteFacts, SavedRouteFacts
<1>6. ASSUME NEW p \in SavedPackages(s)
      PROVE  LET q == s.packages[p]
             IN  /\ p \in PackageIds
                 /\ LP(p) \in Package /\ LP(p) # NoPackage
                 /\ SameParcel(LP(p), q)
                 /\ LP(p).route = q.route
                 /\ LP(p).customer = q.customer
                 /\ q.route = None => LP(p).status = "TODO" /\ LP(p).loc = q.start /\ LP(p).eta = None
                 /\ q.route # None =>
                      /\ q.route \in SavedRoutes(s)
                      /\ p \in s.routes[q.route].pkgs
                      /\ IncludesInOrder(s.routes[q.route].path, q.start, q.end)
                 /\ q.route # None /\ LP(p).eta # None =>
                      /\ s.routes[q.route].dep # None
                      /\ LP(p).eta = ArrivalTimeAt(s.routes[q.route].path, s.routes[q.route].dep, q.end)
  BY <1>1, <1>2, LoadedPackageFacts, SavedPackageFacts
<1>7. ASSUME NEW r \in SavedRoutes(s), s.routes[r].truck # None
      PROVE  LET t == s.routes[r].truck
                 S == s.routes[r]
             IN  /\ t \in Trucks
                 /\ LT(t) \in Truck
                 /\ S.dep # None
                 /\ Releases(r) => LT(t) = FreeTruck(End(S.path))
                 /\ ~ Releases(r) =>
                      /\ LT(t).route = r
                      /\ LT(t).status = "ON_THE_WAY"
                      /\ LT(t).busyFrom = S.dep
                      /\ LT(t).busyUntil = EtaFinal(S.path, S.dep)
                      /\ StandsOn(LT(t), S.path)
                      /\ ComputeRouteStatus(S.path, S.dep, now) = "SCHEDULED" =>
                           LT(t).loc = Start(S.path) /\ LT(t).transit = None
  <2>1. s.routes[r].truck \in Trucks
    BY <1>5, <1>7 DEF RouteSnapshot
  <2> QED BY <1>1, <1>2, <2>1, LoadedTruckOnRoute
<1>8. \A t \in Trucks : (\A r \in SavedRoutes(s) : s.routes[r].truck # t) =>
        LT(t) \in Truck /\ LT(t) = FreeTruck(LT(t).loc)
  BY <1>1, <1>2, LoadedTruckOffRoute
<1>9. \A loc : FreeTruck(loc).route = None /\ FreeTruck(loc).loc = loc
  BY DEF FreeTruck
<1>10. \A r \in SavedRoutes(s) : \A p \in s.routes[r].pkgs : p \in SavedPackages(s) /\ s.packages[p].route = r
  BY <1>1 DEF ValidSnapshot, ValidReferences, ValidRoutePackages
<1>11. None \notin Trucks
  BY FleetAssumption
<1> HIDE DEF LR, LP, LT, Releases
<1>12. LiveRoutes' = SavedRoutes(s) /\ LivePackages' = SavedPackages(s)
  BY <1>1, <1>3, <1>4, <1>5, <1>6 DEF LiveRoutes, LivePackages
<1>13. /\ \A r \in SavedRoutes(s) : routes'[r] = LR(r)
       /\ \A p \in SavedPackages(s) : packages'[p] = LP(p)
       /\ \A t \in Trucks : trucks'[t] = LT(t)
  BY <1>1, <1>5, <1>6
<1>14. TypeOK'
  <2>1. routes' \in [RouteIds -> Route \cup {NoRoute}]
    BY <1>1, <1>3, <1>5
  <2>2. packages' \in [PackageIds -> Package \cup {NoPackage}]
    BY <1>1, <1>4, <1>6
  <2>3. \A t \in Trucks : LT(t) \in Truck
    BY <1>7, <1>8, <1>11
  <2>4. s.nextRouteId \in 1..(MaxRoutes + 1) /\ s.nextPackageId \in 1..(MaxPackages + 1)
    BY <1>1, BoundAssumption DEF WorldStateSnapshot, ValidSnapshot, ValidCounters
  <2>5. \A c \in Customers : LoadedAccount(s, c) \in SUBSET PackageIds
    BY DEF LoadedAccount, SavedPackages
  <2> QED BY <1>1, <1>2, <2>1, <2>2, <2>3, <2>4, <2>5 DEF TypeOK
<1>15. JobOK'
  BY <1>1 DEF WorldInv, Inv, JobOK
<1>16. FreshIds'
  <2>1. \A r \in RouteIds : r >= s.nextRouteId => r \notin SavedRoutes(s)
    BY <1>1, BoundAssumption DEF RouteIds, WorldStateSnapshot, ValidSnapshot, ValidCounterBounds
  <2>2. \A p \in PackageIds : p >= s.nextPackageId => p \notin SavedPackages(s)
    BY <1>1, BoundAssumption DEF PackageIds, WorldStateSnapshot, ValidSnapshot, ValidCounterBounds
  <2> QED BY <1>1, <1>3, <1>4, <2>1, <2>2 DEF FreshIds
<1>17. ASSUME NEW t \in Trucks
       PROVE  \/ LT(t) = FreeTruck(LT(t).loc)
              \/ \E r \in SavedRoutes(s) : s.routes[r].truck = t /\ ~ Releases(r)
  BY <1>7, <1>8, <1>9, <1>11
<1>18. RouteTruckLinks'
  <2>1. ASSUME NEW r \in SavedRoutes(s), LR(r).truck # None
        PROVE  LT(LR(r).truck).route = r /\ LR(r).truck \in Trucks
    BY <1>5, <1>7, <2>1
  <2>2. ASSUME NEW t \in Trucks
        PROVE  LET T == LT(t)
               IN  IF T.route = None
                   THEN T = FreeTruck(T.loc)
                   ELSE /\ T.route \in SavedRoutes(s)
                        /\ LR(T.route).truck = t
                        /\ LR(T.route).dep # None
                        /\ T.status = "ON_THE_WAY"
                        /\ T.busyFrom = LR(T.route).dep
                        /\ T.busyUntil = EtaFinal(LR(T.route).path, LR(T.route).dep)
    <3>1. CASE LT(t) = FreeTruck(LT(t).loc)
      BY <1>9, <3>1
    <3>2. ASSUME NEW r \in SavedRoutes(s), s.routes[r].truck = t, ~ Releases(r)
          PROVE  /\ LT(t).route = r /\ r # None
                 /\ LR(r).truck = t
                 /\ LR(r).dep # None
                 /\ LT(t).status = "ON_THE_WAY"
                 /\ LT(t).busyFrom = LR(r).dep
                 /\ LT(t).busyUntil = EtaFinal(LR(r).path, LR(r).dep)
      BY <1>5, <1>7, <1>11, <3>2
    <3> QED BY <1>17, <3>1, <3>2
  <2> QED BY <1>12, <1>13, <2>1, <2>2 DEF RouteTruckLinks
<1>19. ASSUME NEW t \in Trucks, LT(t).route # None
       PROVE  /\ LT(t).route \in SavedRoutes(s)
              /\ s.routes[LT(t).route].truck = t
              /\ ~ Releases(LT(t).route)
  BY <1>7, <1>9, <1>11, <1>17, <1>19
<1>20. TruckOnItsPath'
  <2>1. ASSUME NEW t \in Trucks, LT(t).route # None PROVE StandsOn(LT(t), LR(LT(t).route).path)
    BY <1>5, <1>7, <1>11, <1>19, <2>1
  <2> QED BY <1>13, <1>19, <2>1 DEF TruckOnItsPath
<1>21. TruckWaitsAtStart'
  <2>1. ASSUME NEW t \in Trucks, LT(t).route # None, LR(LT(t).route).status = "SCHEDULED"
        PROVE  LT(t).loc = Start(LR(LT(t).route).path) /\ LT(t).transit = None
    BY <1>5, <1>7, <1>11, <1>19, <2>1
  <2> QED BY <1>13, <1>19, <2>1 DEF TruckWaitsAtStart
<1>22. RoutePackageLinks'
  <2>1. ASSUME NEW r \in SavedRoutes(s), NEW p \in LR(r).pkgs
        PROVE  p \in SavedPackages(s) /\ LP(p).route = r
    BY <1>5, <1>6, <1>10
  <2>2. ASSUME NEW p \in SavedPackages(s)
        PROVE  LET q == LP(p)
               IN  IF q.route = None
                   THEN q.status = "TODO" /\ q.loc = q.start /\ q.eta = None
                   ELSE /\ q.route \in SavedRoutes(s)
                        /\ p \in LR(q.route).pkgs
                        /\ IncludesInOrder(LR(q.route).path, q.start, q.end)
                        /\ q.eta # None =>
                             /\ LR(q.route).dep # None
                             /\ q.eta = ArrivalTimeAt(LR(q.route).path, LR(q.route).dep, q.end)
    <3>1. LP(p).start = s.packages[p].start /\ LP(p).end = s.packages[p].end
      BY <1>6 DEF SameParcel
    <3>2. CASE LP(p).route = None
      BY <1>6, <3>1, <3>2
    <3>3. CASE LP(p).route # None
      <4>1. LP(p).route = s.packages[p].route /\ s.packages[p].route \in SavedRoutes(s)
        BY <1>6, <3>3
      <4>2. LR(LP(p).route).path = s.routes[LP(p).route].path /\ LR(LP(p).route).dep = s.routes[LP(p).route].dep
            /\ LR(LP(p).route).pkgs = s.routes[LP(p).route].pkgs
        BY <1>5, <4>1
      <4> QED BY <1>6, <3>1, <3>3, <4>1, <4>2
    <3> QED BY <3>2, <3>3
  <2> QED BY <1>12, <1>13, <2>1, <2>2 DEF RoutePackageLinks
<1>23. TruckNeverOverloaded'
  <2> SUFFICES ASSUME NEW r \in SavedRoutes(s), LR(r).truck # None
      PROVE  /\ MaximumSegmentLoadWithin(LR(r).path, packages', LR(r).pkgs, Capacity[LR(r).truck])
             /\ TotalDistance(LR(r).path) <= MaxRange[LR(r).truck]
    BY <1>12, <1>13 DEF TruckNeverOverloaded
  <2>1. LR(r).truck = s.routes[r].truck /\ LR(r).path = s.routes[r].path /\ LR(r).pkgs = s.routes[r].pkgs
    BY <1>5
  <2>2. /\ MaximumSegmentLoadWithin(s.routes[r].path, s.packages, s.routes[r].pkgs, Capacity[s.routes[r].truck])
        /\ TotalDistance(s.routes[r].path) <= MaxRange[s.routes[r].truck]
    BY <1>1, <2>1 DEF ValidSnapshot, ValidTruckRoutes
  <2>3. Capacity[s.routes[r].truck] \in Nat
    BY <1>5, <2>1, FleetAssumption DEF RouteSnapshot
  <2>4. IsFiniteSet(s.routes[r].pkgs)
    <3>1. IsFiniteSet(PackageIds)
      BY FS_Interval, BoundAssumption DEF PackageIds
    <3> QED BY <1>5, <3>1, FS_Subset DEF RouteSnapshot
  <2>5. \A p \in s.routes[r].pkgs : SameParcel(packages'[p], s.packages[p])
    BY <1>6, <1>10, <1>13
  <2> QED BY <2>1, <2>2, <2>3, <2>4, <2>5, UnloadingNeverOverloads DEF SameParcel
<1>24. OwnerLinks'
  <2>1. \A p \in SavedPackages(s) : packages'[p].customer = s.packages[p].customer
    BY <1>6, <1>13
  <2> QED BY <1>1, <1>12, <2>1 DEF OwnerLinks, LoadedAccount
<1> QED BY <1>14, <1>15, <1>16, <1>18, <1>20, <1>21, <1>22, <1>23, <1>24 DEF WorldInv, Inv

-----------------------------------------------------------------------------
(* Whatever the program saves                                              *)

\* The snapshot has the shape the reader expects, and saves just what lives.
LEMMA SnapshotShape ==
  ASSUME Inv
  PROVE  /\ CurrentSnapshot \in WorldStateSnapshot
         /\ SavedRoutes(CurrentSnapshot) = LiveRoutes
         /\ SavedPackages(CurrentSnapshot) = LivePackages
<1> DEFINE S(r) == [path |-> routes[r].path, dep |-> SavedTime(routes[r].dep),
                    truck |-> routes[r].truck, pkgs |-> routes[r].pkgs]
           Q(p) == [start |-> packages[p].start, end |-> packages[p].end, weight |-> packages[p].weight,
                    customer |-> packages[p].customer, route |-> packages[p].route]
           T(t) == [trucks[t] EXCEPT !.busyFrom = SavedTime(@), !.busyUntil = SavedTime(@)]
           sr == [r \in RouteIds |-> IF r \notin LiveRoutes THEN NoRoute ELSE S(r)]
           sp == [p \in PackageIds |-> IF p \notin LivePackages THEN NoPackage ELSE Q(p)]
           st == [t \in Trucks |-> T(t)]
<1>1. CurrentSnapshot = [version |-> 2, nextRouteId |-> nextRouteId, nextPackageId |-> nextPackageId,
                         routes |-> sr, packages |-> sp, trucks |-> st]
  BY DEF CurrentSnapshot
<1>2. ASSUME NEW r \in LiveRoutes PROVE S(r) \in RouteSnapshot /\ S(r) # NoRoute
  <2>1. routes[r] \in Route
    BY LiveRouteFacts DEF Inv
  <2>2. SavedTime(routes[r].dep) \in OptionalTime
    BY <2>1, SavedTimeType DEF Route
  <2> QED BY <2>1, <2>2, SnapshotSentinelAssumption DEF Route, RouteSnapshot
<1>3. ASSUME NEW p \in LivePackages PROVE Q(p) \in PackageSnapshot /\ Q(p) # NoPackage
  <2>1. packages[p] \in Package
    BY DEF Inv, TypeOK, LivePackages
  <2> QED BY <2>1, SnapshotSentinelAssumption DEF Package, PackageSnapshot
<1>4. ASSUME NEW t \in Trucks PROVE T(t) \in Truck
  <2>1. trucks[t] \in Truck
    BY DEF Inv, TypeOK
  <2>2. SavedTime(trucks[t].busyFrom) \in OptionalTime /\ SavedTime(trucks[t].busyUntil) \in OptionalTime
    BY <2>1, SavedTimeType DEF Truck
  <2> QED BY <2>1, <2>2 DEF Truck
<1> HIDE DEF S, Q, T
<1>5. /\ sr \in [RouteIds -> RouteSnapshot \cup {NoRoute}]
      /\ sp \in [PackageIds -> PackageSnapshot \cup {NoPackage}]
      /\ st \in [Trucks -> Truck \cup {NoTruck}]
  BY <1>2, <1>3, <1>4
<1>6. nextRouteId \in 0..(MaxRoutes + 1) /\ nextPackageId \in 0..(MaxPackages + 1)
  BY BoundAssumption DEF Inv, TypeOK
<1>7. \A r \in RouteIds : sr[r] # NoRoute <=> r \in LiveRoutes
  BY <1>2
<1>8. \A p \in PackageIds : sp[p] # NoPackage <=> p \in LivePackages
  BY <1>3
<1> HIDE DEF sr, sp, st
<1>9. CurrentSnapshot \in WorldStateSnapshot
  BY <1>1, <1>5, <1>6 DEF WorldStateSnapshot
<1>10. SavedRoutes(CurrentSnapshot) = LiveRoutes
  BY <1>1, <1>7 DEF SavedRoutes, LiveRoutes
<1>11. SavedPackages(CurrentSnapshot) = LivePackages
  BY <1>1, <1>8 DEF SavedPackages, LivePackages
<1> QED BY <1>9, <1>10, <1>11

LEMMA FreeTruckFields ==
  ASSUME NEW T \in Truck, T.route = None, T.status = "FREE", T.busyFrom = None, T.busyUntil = None,
         T.transit = None
  PROVE  T = FreeTruck(T.loc)
BY DEF Truck, FreeTruck

\* Every link, place and weight is in the snapshot as it is in the world.
LEMMA SnapshotContents ==
  ASSUME Inv
  PROVE  LET s == CurrentSnapshot
         IN  /\ s.version = 2 /\ s.nextRouteId = nextRouteId /\ s.nextPackageId = nextPackageId
             /\ \A r \in LiveRoutes :
                  /\ s.routes[r].path = routes[r].path
                  /\ s.routes[r].dep = None <=> routes[r].dep = None
                  /\ s.routes[r].truck = routes[r].truck
                  /\ s.routes[r].pkgs = routes[r].pkgs
             /\ \A p \in LivePackages :
                  /\ SameParcel(s.packages[p], packages[p])
                  /\ s.packages[p].route = packages[p].route
             /\ \A t \in Trucks :
                  /\ s.trucks[t] \in Truck
                  /\ s.trucks[t].loc = trucks[t].loc
                  /\ s.trucks[t].status = trucks[t].status
                  /\ s.trucks[t].route = trucks[t].route
                  /\ trucks[t].route = None => s.trucks[t] = FreeTruck(trucks[t].loc)
<1> DEFINE s == CurrentSnapshot
<1>1. s.version = 2 /\ s.nextRouteId = nextRouteId /\ s.nextPackageId = nextPackageId
  BY DEF CurrentSnapshot
<1>2. ASSUME NEW r \in LiveRoutes
      PROVE  /\ s.routes[r].path = routes[r].path
             /\ s.routes[r].dep = None <=> routes[r].dep = None
             /\ s.routes[r].truck = routes[r].truck
             /\ s.routes[r].pkgs = routes[r].pkgs
  <2>1. r \in RouteIds /\ routes[r] \in Route
    BY LiveRouteFacts DEF Inv
  <2>2. s.routes[r] = [path |-> routes[r].path, dep |-> SavedTime(routes[r].dep),
                       truck |-> routes[r].truck, pkgs |-> routes[r].pkgs]
    BY <2>1 DEF CurrentSnapshot
  <2>3. SavedTime(routes[r].dep) = None <=> routes[r].dep = None
    BY <2>1, SavedTimeType DEF Route
  <2> QED BY <2>2, <2>3
<1>3. ASSUME NEW p \in LivePackages
      PROVE  SameParcel(s.packages[p], packages[p]) /\ s.packages[p].route = packages[p].route
  <2>1. s.packages[p] = [start |-> packages[p].start, end |-> packages[p].end,
                         weight |-> packages[p].weight, customer |-> packages[p].customer,
                         route |-> packages[p].route]
    BY DEF CurrentSnapshot, LivePackages
  <2> QED BY <2>1 DEF SameParcel
<1>4. ASSUME NEW t \in Trucks
      PROVE  /\ s.trucks[t] \in Truck
             /\ s.trucks[t].loc = trucks[t].loc
             /\ s.trucks[t].status = trucks[t].status
             /\ s.trucks[t].route = trucks[t].route
             /\ trucks[t].route = None => s.trucks[t] = FreeTruck(trucks[t].loc)
  <2>1. trucks[t] \in Truck
    BY DEF Inv, TypeOK
  <2>2. s.trucks[t] = [trucks[t] EXCEPT !.busyFrom = SavedTime(@), !.busyUntil = SavedTime(@)]
    BY DEF CurrentSnapshot
  <2>3. SavedTime(trucks[t].busyFrom) \in OptionalTime /\ SavedTime(trucks[t].busyUntil) \in OptionalTime
    BY <2>1, SavedTimeType DEF Truck
  <2>4. s.trucks[t] \in Truck /\ s.trucks[t].loc = trucks[t].loc /\ s.trucks[t].status = trucks[t].status
        /\ s.trucks[t].route = trucks[t].route
    BY <2>1, <2>2, <2>3 DEF Truck
  <2>5. trucks[t].route = None => s.trucks[t] = FreeTruck(trucks[t].loc)
    <3> SUFFICES ASSUME trucks[t].route = None PROVE s.trucks[t] = FreeTruck(trucks[t].loc)
      OBVIOUS
    <3>1. trucks[t] = FreeTruck(trucks[t].loc)
      BY DEF Inv, RouteTruckLinks
    <3>2. trucks[t].busyFrom = None /\ trucks[t].busyUntil = None /\ trucks[t].transit = None
          /\ trucks[t].status = "FREE"
      BY <3>1 DEF FreeTruck
    <3>3. s.trucks[t].busyFrom = None /\ s.trucks[t].busyUntil = None /\ s.trucks[t].transit = None
      BY <2>1, <2>2, <3>2 DEF Truck, SavedTime
    <3> QED BY <2>4, <3>2, <3>3, FreeTruckFields
  <2> QED BY <2>4, <2>5
<1> QED BY <1>1, <1>2, <1>3, <1>4

\* The snapshot of any world in Inv passes every check of the validator.
LEMMA SavesAreValid ==
  ASSUME Inv PROVE ValidSnapshot(CurrentSnapshot)
<1> DEFINE s == CurrentSnapshot
<1>1. s \in WorldStateSnapshot /\ SavedRoutes(s) = LiveRoutes /\ SavedPackages(s) = LivePackages
  BY SnapshotShape
<1>2. s.version = 2 /\ s.nextRouteId = nextRouteId /\ s.nextPackageId = nextPackageId
  BY SnapshotContents
<1>3. \A r \in LiveRoutes :
        /\ s.routes[r].path = routes[r].path
        /\ s.routes[r].dep = None <=> routes[r].dep = None
        /\ s.routes[r].truck = routes[r].truck
        /\ s.routes[r].pkgs = routes[r].pkgs
  BY SnapshotContents
<1>4. \A p \in LivePackages :
        SameParcel(s.packages[p], packages[p]) /\ s.packages[p].route = packages[p].route
  BY SnapshotContents
<1>5. \A t \in Trucks :
        /\ s.trucks[t] \in Truck
        /\ s.trucks[t].loc = trucks[t].loc
        /\ s.trucks[t].status = trucks[t].status
        /\ s.trucks[t].route = trucks[t].route
        /\ trucks[t].route = None => s.trucks[t] = FreeTruck(trucks[t].loc)
  BY SnapshotContents
<1> HIDE DEF s
<1>6. TypeOK /\ RouteTruckLinks /\ RoutePackageLinks /\ TruckNeverOverloaded /\ FreshIds
  BY DEF Inv
<1>7. \A r \in LiveRoutes : routes[r].truck # None =>
        routes[r].truck \in Trucks /\ trucks[routes[r].truck].route = r /\ routes[r].dep # None
  <2> SUFFICES ASSUME NEW r \in LiveRoutes, routes[r].truck # None
               PROVE  routes[r].truck \in Trucks /\ trucks[routes[r].truck].route = r /\ routes[r].dep # None
    OBVIOUS
  <2>1. routes[r] \in Route /\ r \in RouteIds
    BY <1>6, LiveRouteFacts
  <2>2. r # None
    BY <2>1, NoneAssumption, BoundAssumption DEF RouteIds
  <2>3. routes[r].truck \in Trucks
    BY <2>1 DEF Route
  <2> QED BY <1>6, <2>2, <2>3 DEF RouteTruckLinks
<1>8. ValidSchema(s)
  BY <1>2 DEF ValidSchema
<1>9. ValidCounters(s)
  BY <1>2, <1>6, BoundAssumption DEF ValidCounters, TypeOK
<1>10. ValidReferences(s)
  <2>1. \A p \in LivePackages : packages[p].route # None => packages[p].route \in LiveRoutes
    BY <1>6 DEF RoutePackageLinks
  <2>2. \A r \in LiveRoutes : routes[r].pkgs \subseteq LivePackages
    BY <1>6 DEF RoutePackageLinks
  <2> QED BY <1>1, <1>3, <1>4, <1>7, <2>1, <2>2 DEF ValidReferences
<1>11. ValidTrucks(s)
  <2>1. ASSUME NEW t \in Trucks
        PROVE  /\ s.trucks[t] # NoTruck
               /\ s.trucks[t].status = "FREE" => s.trucks[t] = FreeTruck(s.trucks[t].loc)
               /\ s.trucks[t].status = "ON_THE_WAY" => s.trucks[t].route # None
               /\ s.trucks[t].route # None =>
                    s.trucks[t].route \in LiveRoutes /\ s.routes[s.trucks[t].route].truck = t
    <3>1. s.trucks[t] # NoTruck
      BY <1>5, NoTruckAssumption
    <3>2. CASE trucks[t].route = None
      <4>1. trucks[t] = FreeTruck(trucks[t].loc)
        BY <1>6, <3>2 DEF RouteTruckLinks
      <4>2. trucks[t].status = "FREE"
        BY <4>1 DEF FreeTruck
      <4> QED BY <1>5, <3>1, <3>2, <4>2
    <3>3. CASE trucks[t].route # None
      <4>1. trucks[t].status = "ON_THE_WAY" /\ trucks[t].route \in LiveRoutes
            /\ routes[trucks[t].route].truck = t
        BY <1>6, <3>3 DEF RouteTruckLinks
      <4> QED BY <1>3, <1>5, <3>1, <3>3, <4>1
    <3> QED BY <3>2, <3>3
  <2>2. \A r \in LiveRoutes : s.routes[r].truck # None => s.trucks[s.routes[r].truck].route = r
    BY <1>3, <1>5, <1>7
  <2> QED BY <1>1, <2>1, <2>2 DEF ValidTrucks
<1>12. ValidRoutePackages(s)
  BY <1>1, <1>3, <1>4, <1>6 DEF ValidRoutePackages, RoutePackageLinks
<1>13. ValidPackageRoutes(s)
  BY <1>1, <1>3, <1>4, <1>6 DEF ValidPackageRoutes, RoutePackageLinks, SameParcel
<1>14. ValidTruckRoutes(s)
  <2> SUFFICES ASSUME NEW r \in LiveRoutes, routes[r].truck # None
               PROVE  /\ routes[r].dep # None
                      /\ MaximumSegmentLoadWithin(routes[r].path, s.packages, routes[r].pkgs,
                                                  Capacity[routes[r].truck])
                      /\ TotalDistance(routes[r].path) <= MaxRange[routes[r].truck]
    BY <1>1, <1>3 DEF ValidTruckRoutes
  <2>1. /\ MaximumSegmentLoadWithin(routes[r].path, packages, routes[r].pkgs, Capacity[routes[r].truck])
        /\ TotalDistance(routes[r].path) <= MaxRange[routes[r].truck]
    BY <1>6 DEF TruckNeverOverloaded
  <2>2. IsFiniteSet(routes[r].pkgs) /\ Capacity[routes[r].truck] \in Nat
    BY <1>6, <1>7, LiveRouteFacts, FleetAssumption
  <2>3. \A p \in routes[r].pkgs : SameParcel(s.packages[p], packages[p])
    BY <1>4, <1>6 DEF RoutePackageLinks
  <2> QED BY <1>7, <2>1, <2>2, <2>3, UnloadingNeverOverloads DEF SameParcel
<1>15. ValidCounterBounds(s)
  <2>1. \A r \in LiveRoutes : r < nextRouteId
    BY <1>6, BoundAssumption DEF FreshIds, LiveRoutes, RouteIds, TypeOK
  <2>2. \A p \in LivePackages : p < nextPackageId
    BY <1>6, BoundAssumption DEF FreshIds, LivePackages, PackageIds, TypeOK
  <2> QED BY <1>1, <1>2, <2>1, <2>2 DEF ValidCounterBounds
<1> QED BY <1>8, <1>9, <1>10, <1>11, <1>12, <1>13, <1>14, <1>15 DEF ValidSnapshot, s

-----------------------------------------------------------------------------
(* The files there are to load                                             *)

\* Replacing one part of a snapshot by another value of its type keeps the
\* shape of the snapshot.
LEMMA EditedShape ==
  ASSUME NEW s \in WorldStateSnapshot
  PROVE  /\ \A n \in 0..(MaxRoutes + 1) : [s EXCEPT !.nextRouteId = n] \in WorldStateSnapshot
         /\ \A n \in 0..(MaxPackages + 1) : [s EXCEPT !.nextPackageId = n] \in WorldStateSnapshot
         /\ \A r \in RouteIds, S \in RouteSnapshot \cup {NoRoute} :
              [s EXCEPT !.routes = [@ EXCEPT ![r] = S]] \in WorldStateSnapshot
         /\ \A p \in PackageIds, q \in PackageSnapshot \cup {NoPackage} :
              [s EXCEPT !.packages = [@ EXCEPT ![p] = q]] \in WorldStateSnapshot
         /\ \A t \in Trucks, T \in Truck \cup {NoTruck} :
              [s EXCEPT !.trucks = [@ EXCEPT ![t] = T]] \in WorldStateSnapshot
<1>1. \A n \in 0..(MaxRoutes + 1) : [s EXCEPT !.nextRouteId = n] \in WorldStateSnapshot
  BY DEF WorldStateSnapshot
<1>2. \A n \in 0..(MaxPackages + 1) : [s EXCEPT !.nextPackageId = n] \in WorldStateSnapshot
  BY DEF WorldStateSnapshot
<1>3. ASSUME NEW r \in RouteIds, NEW S \in RouteSnapshot \cup {NoRoute}
      PROVE  [s EXCEPT !.routes = [@ EXCEPT ![r] = S]] \in WorldStateSnapshot
  <2>1. [s.routes EXCEPT ![r] = S] \in [RouteIds -> RouteSnapshot \cup {NoRoute}]
    BY DEF WorldStateSnapshot
  <2> QED BY <2>1 DEF WorldStateSnapshot
<1>4. ASSUME NEW p \in PackageIds, NEW q \in PackageSnapshot \cup {NoPackage}
      PROVE  [s EXCEPT !.packages = [@ EXCEPT ![p] = q]] \in WorldStateSnapshot
  <2>1. [s.packages EXCEPT ![p] = q] \in [PackageIds -> PackageSnapshot \cup {NoPackage}]
    BY DEF WorldStateSnapshot
  <2> QED BY <2>1 DEF WorldStateSnapshot
<1>5. ASSUME NEW t \in Trucks, NEW T \in Truck \cup {NoTruck}
      PROVE  [s EXCEPT !.trucks = [@ EXCEPT ![t] = T]] \in WorldStateSnapshot
  <2>1. [s.trucks EXCEPT ![t] = T] \in [Trucks -> Truck \cup {NoTruck}]
    BY DEF WorldStateSnapshot
  <2> QED BY <2>1 DEF WorldStateSnapshot
<1> QED BY <1>1, <1>2, <1>3, <1>4, <1>5

\* Every file the model loads has the shape of a snapshot.
LEMMA FilesAreSnapshots ==
  ASSUME Inv PROVE Files \subseteq WorldStateSnapshot
<1> DEFINE s == CurrentSnapshot
<1>1. s \in WorldStateSnapshot
  BY SnapshotShape
<1>2. \A t \in Trucks : s.trucks[t] \in Truck
  BY SnapshotContents
<1>3. \A r \in SavedRoutes(s) : r \in RouteIds /\ s.routes[r] \in RouteSnapshot
  BY <1>1, SavedRouteFacts
<1>4. \A p \in SavedPackages(s) : p \in PackageIds /\ s.packages[p] \in PackageSnapshot
  BY <1>1 DEF SavedPackages, WorldStateSnapshot
<1> HIDE DEF s
<1> USE <1>1, EditedShape
<1>5. OldFormat(s) \in WorldStateSnapshot
  <2>1. [t \in Trucks |-> NoTruck] \in [Trucks -> Truck \cup {NoTruck}]
    OBVIOUS
  <2> QED BY <2>1 DEF OldFormat, WorldStateSnapshot
<1>6. \A n \in 0..s.nextRouteId : [s EXCEPT !.nextRouteId = n] \in WorldStateSnapshot
  <2>1. 0..s.nextRouteId \subseteq 0..(MaxRoutes + 1)
    BY BoundAssumption DEF WorldStateSnapshot
  <2> QED BY <2>1
<1>7. \A n \in 0..s.nextPackageId : [s EXCEPT !.nextPackageId = n] \in WorldStateSnapshot
  <2>1. 0..s.nextPackageId \subseteq 0..(MaxPackages + 1)
    BY BoundAssumption DEF WorldStateSnapshot
  <2> QED BY <2>1
<1>8. ASSUME NEW r \in SavedRoutes(s), NEW S \in EditedRoute(s.routes[r])
      PROVE  [s EXCEPT !.routes[r] = S] \in WorldStateSnapshot
  <2>1. r \in RouteIds /\ s.routes[r] \in RouteSnapshot
    BY <1>3
  <2>2. EditedRoute(s.routes[r]) \subseteq RouteSnapshot \cup {NoRoute}
    BY <2>1 DEF EditedRoute, RouteSnapshot, OptionalTime
  <2> QED BY <2>1, <2>2
<1>9. ASSUME NEW p \in SavedPackages(s), NEW q \in EditedPackage(s.packages[p])
      PROVE  [s EXCEPT !.packages[p] = q] \in WorldStateSnapshot
  <2>1. p \in PackageIds /\ s.packages[p] \in PackageSnapshot
    BY <1>4
  <2>2. EditedPackage(s.packages[p]) \subseteq PackageSnapshot \cup {NoPackage}
    BY <2>1, MaxWeightAssumption DEF EditedPackage, PackageSnapshot
  <2> QED BY <2>1, <2>2
<1>10. ASSUME NEW t \in Trucks, NEW T \in EditedTruck(s.trucks[t])
       PROVE  [s EXCEPT !.trucks[t] = T] \in WorldStateSnapshot
  <2>1. FreeTruck(s.trucks[t].loc) \in Truck
    BY <1>2 DEF Truck, FreeTruck, TruckStatus, OptionalTime
  <2> QED BY <2>1 DEF EditedTruck
<1>11. Edited(s) \subseteq WorldStateSnapshot
  <2>1. EditedCounters(s) \subseteq WorldStateSnapshot
    BY ONLY <1>6, <1>7 DEF EditedCounters
  <2>2. EditedRoutes(s) \subseteq WorldStateSnapshot
    BY ONLY <1>8 DEF EditedRoutes
  <2>3. EditedPackages(s) \subseteq WorldStateSnapshot
    BY ONLY <1>9 DEF EditedPackages
  <2>4. EditedTrucks(s) \subseteq WorldStateSnapshot
    BY ONLY <1>10 DEF EditedTrucks
  <2> QED BY ONLY <2>1, <2>2, <2>3, <2>4 DEF Edited
<1> QED BY <1>5, <1>11 DEF Files, s

-----------------------------------------------------------------------------
(* The world with files                                                    *)

LEMMA SnapshotStep == WorldInv /\ [SnapshotNext]_vars => WorldInv'
<1> SUFFICES ASSUME WorldInv, [SnapshotNext]_vars PROVE WorldInv'
  OBVIOUS
<1>1. Inv /\ OwnerLinks /\ TruckWaitsAtStart
  BY DEF WorldInv
<1>2. CASE [Next]_vars
  <2>1. Inv'
    BY <1>1, <1>2, NextInv
  <2>2. OwnerLinks'
    BY <1>1, <1>2, <2>1, OwnerStep
  <2>3. TruckWaitsAtStart'
    BY <1>1, <1>2, <2>1, WaitsStep
  <2> QED BY <2>1, <2>2, <2>3 DEF WorldInv
<1>3. ASSUME NEW s \in Files, LoadWorld(s) PROVE WorldInv'
  BY <1>1, <1>3, FilesAreSnapshots, AcceptedFilesAreSound
<1>4. ASSUME NEW s \in Files, LoadRejected(s) PROVE [Next]_vars
  BY <1>4 DEF LoadRejected
<1> QED BY <1>2, <1>3, <1>4 DEF SnapshotNext

\* The world's invariants survive any number of loads, of files the program
\* wrote, of files of the previous release and of edited ones that the
\* validator lets through, between any two handlers.
THEOREM WorldInvHolds == SnapshotSpec => []WorldInv
<1>1. Init => WorldInv
  <2> SUFFICES ASSUME Init PROVE WorldInv
    OBVIOUS
  <2>1. OwnerLinks
    BY DEF Init, OwnerLinks, LivePackages
  <2>2. TruckWaitsAtStart
    BY DEF Init, TruckWaitsAtStart, FreeTruck
  <2> QED BY <2>1, <2>2, InitInv DEF WorldInv
<1> QED BY <1>1, SnapshotStep, PTL DEF SnapshotSpec

\* A load keeps the shape of the repositories, and a save gives the file the
\* shape WorldStateSnapshot declares.
THEOREM SnapshotTypeCorrect == SnapshotSpec => []SnapshotTypeOK
<1>1. WorldInv => SnapshotTypeOK
  BY SnapshotShape DEF WorldInv, Inv, SnapshotTypeOK
<1> QED BY <1>1, WorldInvHolds, PTL

\* save_state never writes a file that load_state refuses, in the middle of a
\* batch or a heartbeat included.
THEOREM EverySaveLoadsHolds == SnapshotSpec => []EverySaveLoads
<1>1. WorldInv => EverySaveLoads
  BY SavesAreValid DEF WorldInv, EverySaveLoads
<1> QED BY <1>1, WorldInvHolds, PTL

\* A file's counters never make a repository hand out an identifier that is in
\* use.
THEOREM CountersAheadHolds == SnapshotSpec => []CountersAhead
<1>1. WorldInv => CountersAhead
  <2> SUFFICES ASSUME WorldInv PROVE CountersAhead
    OBVIOUS
  <2>1. \A r \in LiveRoutes : r < nextRouteId
    BY BoundAssumption DEF WorldInv, Inv, FreshIds, LiveRoutes, RouteIds, TypeOK
  <2>2. \A p \in LivePackages : p < nextPackageId
    BY BoundAssumption DEF WorldInv, Inv, FreshIds, LivePackages, PackageIds, TypeOK
  <2> QED BY <2>1, <2>2 DEF CountersAhead
<1> QED BY <1>1, WorldInvHolds, PTL

\* Loads keep trucks and routes, packages and routes, and customers and
\* packages in step, and bring in no overloaded truck.
THEOREM LinksSurviveLoads ==
  SnapshotSpec => [](LinksAgree /\ TruckNeverOverloaded)
<1>1. WorldInv => LinksAgree /\ TruckNeverOverloaded
  BY DEF WorldInv, Inv, LinksAgree
<1> QED BY <1>1, WorldInvHolds, PTL

-----------------------------------------------------------------------------
(* What a load brings back                                                 *)

\* A file this program wrote: it says of every truck where it is.
NamesTrucks(s) == \A t \in Trucks : s.trucks[t] # NoTruck

Written(s) == s \in WorldStateSnapshot /\ ValidSnapshot(s) /\ NamesTrucks(s)

\* LoadedTruck of such a file, which does not look at the world.
RecoveredTruck(s, t, now) ==
    IF \E r \in SavedRoutes(s) : s.routes[r].truck = t
    THEN LET r == CHOOSE r \in SavedRoutes(s) : s.routes[r].truck = t
         IN  IF CandidateReconciles(s, r, now)
             THEN ReconciledTruck(CandidateTruck(s, t, r), r, RebuiltRoute(s, r), now)
             ELSE CandidateTruck(s, t, r)
    ELSE s.trucks[t]

\* A load at `now' brings the same from both.
SameRecovery(s1, s2, now) ==
    /\ s1.nextRouteId = s2.nextRouteId
    /\ s1.nextPackageId = s2.nextPackageId
    /\ \A r \in RouteIds : LoadedRoute(s1, r, now) = LoadedRoute(s2, r, now)
    /\ \A p \in PackageIds : LoadedPackage(s1, p, now) = LoadedPackage(s2, p, now)
    /\ \A t \in Trucks : RecoveredTruck(s1, t, now) = RecoveredTruck(s2, t, now)

LEMMA RecoveredIsLoaded ==
  ASSUME NEW s, NamesTrucks(s), NEW t \in Trucks, NEW now
  PROVE  LoadedTruck(s, t, now) = RecoveredTruck(s, t, now)
BY DEF LoadedTruck, RecoveredTruck, NamesTrucks

\* A truck on a route is brought back from that route.
LEMMA RecoveredOnRoute ==
  ASSUME NEW s \in WorldStateSnapshot, ValidSnapshot(s), NEW now \in Nat, NEW t \in Trucks,
         NEW r \in SavedRoutes(s), s.routes[r].truck = t
  PROVE  RecoveredTruck(s, t, now) =
            ReconciledTruck(CandidateTruck(s, t, r), r, RebuiltRoute(s, r), now)
<1>1. t # None
  BY FleetAssumption
<1>2. r = CHOOSE r2 \in SavedRoutes(s) : s.routes[r2].truck = t
  <2>1. \A r2 \in SavedRoutes(s) : s.routes[r2].truck = t => r2 = r
    BY <1>1 DEF ValidSnapshot, ValidReferences
  <2> QED BY <2>1
<1>3. CandidateReconciles(s, r, now)
  BY CandidatesReconcile
<1>4. RecoveredTruck(s, t, now) =
        LET r2 == CHOOSE r2 \in SavedRoutes(s) : s.routes[r2].truck = t
        IN  IF CandidateReconciles(s, r2, now)
            THEN ReconciledTruck(CandidateTruck(s, t, r2), r2, RebuiltRoute(s, r2), now)
            ELSE CandidateTruck(s, t, r2)
  BY DEF RecoveredTruck
<1> QED BY <1>2, <1>3, <1>4

\* Where the truck of a scheduled route stood before does not matter.
LEMMA ReconciledForgetsPlace ==
  ASSUME NEW T1 \in Truck, NEW T2 \in Truck, NEW r \in RouteIds, NEW R, IsRoutePath(R.path),
         R.dep \in Nat, NEW now \in Nat,
         T1.status = T2.status, T1.busyFrom = T2.busyFrom, T1.busyUntil = T2.busyUntil,
         T1.route = r, T2.route = r
  PROVE  ReconciledTruck(T1, r, R, now) = ReconciledTruck(T2, r, R, now)
<1> DEFINE P == PositionAt(R.path, R.dep, now)
<1>1. P.kind # "UNSCHEDULED"
  BY NoneAssumption DEF PositionAt, Standing, Driving
<1>2. \A loc, transit : [[T1 EXCEPT !.route = r] EXCEPT !.loc = loc, !.transit = transit]
                      = [[T2 EXCEPT !.route = r] EXCEPT !.loc = loc, !.transit = transit]
  BY DEF Truck
<1>3. CASE TruckReleases(R, now)
  <2>1. P.kind = "AT_STOP" \/ P.kind = "AFTER_END"
    BY <1>3 DEF TruckReleases
  <2>2. ReconciledTruck(T1, r, R, now) = ReleasedTruck(R.path)
    BY <1>3, <2>1 DEF ReconciledTruck
  <2>3. ReconciledTruck(T2, r, R, now) = ReleasedTruck(R.path)
    BY <1>3, <2>1 DEF ReconciledTruck
  <2> QED BY <2>2, <2>3
<1>4. CASE ~ TruckReleases(R, now) /\ P.kind = "IN_TRANSIT"
  <2>1. /\ ReconciledTruck(T1, r, R, now) =
             [[T1 EXCEPT !.route = r] EXCEPT !.loc = P.from, !.transit = P.to]
        /\ ReconciledTruck(T2, r, R, now) =
             [[T2 EXCEPT !.route = r] EXCEPT !.loc = P.from, !.transit = P.to]
    BY <1>4 DEF ReconciledTruck
  <2> QED BY <1>2, <2>1
<1>5. CASE ~ TruckReleases(R, now) /\ P.kind # "IN_TRANSIT"
  <2>1. /\ ReconciledTruck(T1, r, R, now) =
             [[T1 EXCEPT !.route = r] EXCEPT !.loc = P.stop, !.transit = None]
        /\ ReconciledTruck(T2, r, R, now) =
             [[T2 EXCEPT !.route = r] EXCEPT !.loc = P.stop, !.transit = None]
    BY <1>1, <1>5 DEF ReconciledTruck
  <2> QED BY <1>2, <2>1
<1> QED BY <1>3, <1>4, <1>5

\* A package is reconciled with the path and the departure of its route alone.
LEMMA ReconciledPackageByPath ==
  ASSUME NEW q, NEW R1, NEW R2, NEW now, R1.path = R2.path, R1.dep = R2.dep
  PROVE  ReconciledPackage(q, R1, now) = ReconciledPackage(q, R2, now)
BY DEF ReconciledPackage

\* The truck of a candidate route: what the snapshot says of it counts only
\* through the route's departure.
LEMMA CandidateTruckFacts ==
  ASSUME NEW s \in WorldStateSnapshot, NEW r \in SavedRoutes(s), NEW t \in Trucks, s.trucks[t] \in Truck,
         s.routes[r].dep \in Nat
  PROVE  LET C == CandidateTruck(s, t, r)
             S == s.routes[r]
         IN  /\ C \in Truck
             /\ C.route = r
             /\ C.status = "ON_THE_WAY"
             /\ C.busyFrom = S.dep
             /\ C.busyUntil = EtaFinal(S.path, S.dep)
<1> DEFINE S == s.routes[r]
           R == RebuiltRoute(s, r)
           T == s.trucks[t]
           C == CandidateTruck(s, t, r)
<1>1. R.path = S.path /\ R.dep = S.dep /\ IsRoutePath(S.path) /\ r \in RouteIds
  BY SavedRouteFacts
<1>2. EtaFinal(S.path, S.dep) \in Nat
  BY <1>1, ArrivalTimeType
<1>3. T # NoTruck
  BY NoTruckAssumption
<1>4. C = [T EXCEPT !.route = r, !.status = "ON_THE_WAY", !.busyFrom = S.dep,
                    !.busyUntil = EtaFinal(S.path, S.dep), !.transit = None]
  BY <1>1, <1>3 DEF CandidateTruck
<1> HIDE DEF C, S, T
<1>5. T \in Truck /\ S.dep \in Nat
  BY DEF S, T
<1>6. /\ C \in Truck /\ C.route = r /\ C.status = "ON_THE_WAY" /\ C.busyFrom = S.dep
      /\ C.busyUntil = EtaFinal(S.path, S.dep)
  BY <1>1, <1>2, <1>4, <1>5 DEF Truck, TruckStatus, OptionalTime, Times
<1> QED BY <1>6 DEF C, S

-----------------------------------------------------------------------------
(* What the snapshot of the world says                                     *)

\* A file that save_state writes now would load.
LEMMA SnapshotIsWritten == Inv => Written(CurrentSnapshot)
<1> SUFFICES ASSUME Inv PROVE Written(CurrentSnapshot)
  OBVIOUS
<1>1. CurrentSnapshot \in WorldStateSnapshot
  BY SnapshotShape
<1>2. ValidSnapshot(CurrentSnapshot)
  BY SavesAreValid
<1>3. \A t \in Trucks : CurrentSnapshot.trucks[t] \in Truck
  BY SnapshotContents
<1> QED BY <1>1, <1>2, <1>3, NoTruckAssumption DEF Written, NamesTrucks

LEMMA SnapshotTrucks == Inv => \A t \in Trucks : CurrentSnapshot.trucks[t] \in Truck
BY SnapshotContents

LEMMA SameWorldSameSnapshot ==
  ASSUME UNCHANGED <<routes, packages, trucks, nextRouteId, nextPackageId>>
  PROVE  CurrentSnapshot' = CurrentSnapshot
BY DEF CurrentSnapshot, LiveRoutes, LivePackages

\* The snapshot names the entities of the world and no others.
LEMMA SnapshotNames ==
  Inv => SavedRoutes(CurrentSnapshot) = LiveRoutes /\ SavedPackages(CurrentSnapshot) = LivePackages
BY SnapshotShape

-----------------------------------------------------------------------------
(* Saving and loading again                                                *)

\* A package without a route is as it was created.
AsCreated(p) ==
    packages[p].route = None =>
        packages[p].status = "TODO" /\ packages[p].loc = packages[p].start /\ packages[p].eta = None

UnassignedAsCreated == \A p \in LivePackages : AsCreated(p)

LEMMA AsCreatedKept ==
  ASSUME NEW p \in PackageIds, AsCreated(p), packages'[p] = packages[p] PROVE AsCreated(p)'
BY DEF AsCreated

LEMMA UnassignedStep ==
  ASSUME WorldInv, UnassignedAsCreated, [SnapshotNext]_vars PROVE UnassignedAsCreated'
<1> SUFFICES ASSUME NEW p \in PackageIds, p \in LivePackages' PROVE AsCreated(p)'
  BY DEF UnassignedAsCreated, LivePackages
<1>1. Inv /\ TypeOK /\ JobOK
  BY DEF WorldInv, Inv
<1>2. p \in LivePackages => AsCreated(p)
  BY DEF UnassignedAsCreated
<1>3. CASE packages'[p] = packages[p]
  BY <1>2, <1>3, AsCreatedKept DEF LivePackages
<1>4. ASSUME NEW parcel \in Parcels, NEW c \in Customers, CreatePackage(parcel, c), p = nextPackageId
      PROVE  AsCreated(p)'
  <2>1. packages'[p] = [start |-> parcel.start, end |-> parcel.end, weight |-> parcel.weight,
                        customer |-> c, route |-> None, status |-> "TODO", loc |-> parcel.start,
                        eta |-> None]
    BY <1>1, <1>4 DEF CreatePackage, TypeOK
  <2> QED BY <2>1 DEF AsCreated
<1>5. ASSUME AssignPackage(p) PROVE AsCreated(p)'
  <2>1. job.route # None
    BY <1>1, <1>5, NoneAssumption, BoundAssumption DEF AssignPackage, JobOK, LiveRoutes, RouteIds
  <2>2. p \in LivePackages /\ packages[p] \in Package
    BY <1>1, <1>5 DEF AssignPackage, AssignablePackage, LivePackages, TypeOK
  <2>3. \E eta : packages'[p] = [packages[p] EXCEPT !.route = job.route, !.eta = eta]
    BY <1>1, <1>5, <2>2 DEF AssignPackage, TypeOK
  <2>4. packages'[p].route = job.route
    BY <2>2, <2>3 DEF Package
  <2> QED BY <2>1, <2>4 DEF AsCreated
<1>6. ASSUME NEW r \in RouteIds, RemoveRoute(r), p \in routes[r].pkgs PROVE AsCreated(p)'
  <2>1. p \in LivePackages /\ packages[p] \in Package
    BY <1>1, <1>6 DEF RemoveRoute, Inv, RoutePackageLinks, LivePackages, TypeOK
  <2>2. packages'[p] = ResetPackage(packages[p])
    BY <1>6 DEF RemoveRoute
  <2>3. packages'[p] = [packages[p] EXCEPT !.route = None, !.eta = None, !.status = "TODO",
                                           !.loc = packages[p].start]
    BY <2>2 DEF ResetPackage
  <2>4. packages'[p].status = "TODO" /\ packages'[p].loc = packages[p].start /\ packages'[p].eta = None
        /\ packages'[p].start = packages[p].start
    BY <2>1, <2>3 DEF Package
  <2> QED BY <2>4 DEF AsCreated
<1>7. ASSUME NEW r \in RouteIds, ReconcileRoute(r), p \in routes[r].pkgs PROVE AsCreated(p)'
  <2> DEFINE q2 == ReconciledPackage(packages[p], routes[r], job.now)
  <2>1. r \in LiveRoutes
    BY <1>1, <1>7 DEF ReconcileRoute, NextInLoop, JobOK
  <2>2. packages[p] \in Package /\ packages[p].route = r
    BY <1>1, <1>7, <2>1 DEF Inv, RoutePackageLinks, LivePackages, TypeOK
  <2>3. routes[r] \in Route /\ IsRoutePath(routes[r].path) /\ job.now \in Nat
    BY <1>1, <2>1, LiveRouteFacts DEF TypeOK, Job, Times
  <2>4. q2.route = packages[p].route
    BY <2>2, <2>3, ReconciledPackageFacts
  <2>5. packages'[p] = q2
    BY <1>7 DEF ReconcileRoute
  <2> HIDE DEF q2
  <2> QED BY <2>2, <2>4, <2>5, NoneAssumption, BoundAssumption DEF AsCreated, RouteIds
<1>8. ASSUME NEW s \in Files, LoadWorld(s) PROVE AsCreated(p)'
  <2> DEFINE L == LoadedPackage(s, p, clock)
  <2>1. s \in WorldStateSnapshot /\ ValidSnapshot(s) /\ packages'[p] = L /\ clock \in Nat
    BY <1>1, <1>8, FilesAreSnapshots DEF LoadWorld, TypeOK, Times
  <2>2. p \in SavedPackages(s)
    <3>1. L # NoPackage
      BY <2>1 DEF LivePackages
    <3> QED BY <3>1 DEF LoadedPackage
  <2>3. /\ SameParcel(L, s.packages[p])
        /\ L.route = s.packages[p].route
        /\ s.packages[p].route = None => L.status = "TODO" /\ L.loc = s.packages[p].start /\ L.eta = None
    BY <2>1, <2>2, LoadedPackageFacts
  <2> HIDE DEF L
  <2> QED BY <2>1, <2>3 DEF AsCreated, SameParcel
<1>9. ASSUME NEW r \in RouteIds, RemoveRoute(r) PROVE AsCreated(p)'
  BY <1>3, <1>6, <1>9 DEF RemoveRoute
<1>10. ASSUME NEW r \in RouteIds, ReconcileRoute(r) PROVE AsCreated(p)'
  BY <1>3, <1>7, <1>10 DEF ReconcileRoute
<1>11. ASSUME NEW parcel \in Parcels, NEW c \in Customers, CreatePackage(parcel, c) PROVE AsCreated(p)'
  BY <1>1, <1>3, <1>4, <1>11 DEF CreatePackage, TypeOK
<1>12. ASSUME NEW p2 \in PackageIds, AssignPackage(p2) PROVE AsCreated(p)'
  <2>1. CASE p2 = p
    BY <1>5, <1>12, <2>1
  <2>2. CASE p2 # p
    BY <1>1, <1>3, <1>12, <2>2 DEF AssignPackage, TypeOK
  <2> QED BY <2>1, <2>2
<1>13. ASSUME NEW p2 \in PackageIds, RemovePackage(p2) PROVE AsCreated(p)'
  <2>1. p2 # p
    BY <1>1, <1>13 DEF RemovePackage, LivePackages, TypeOK
  <2> QED BY <1>1, <1>3, <1>13, <2>1 DEF RemovePackage, TypeOK
<1>14. ASSUME UNCHANGED packages PROVE AsCreated(p)'
  BY <1>3, <1>14
<1>15. CASE Next
  BY <1>9, <1>10, <1>11, <1>12, <1>13, <1>14, <1>15
     DEF Next, CreateRoute, AssignPackagesToRoute, SkipPackage, AssignTruckToRoute, Heartbeat,
         ReconcileRouteFails, Tick, SetClockBack
<1>16. CASE UNCHANGED vars
  BY <1>14, <1>16 DEF vars
<1>17. ASSUME NEW s \in Files, LoadRejected(s) PROVE AsCreated(p)'
  BY <1>14, <1>17 DEF LoadRejected, vars
<1> QED BY <1>8, <1>15, <1>16, <1>17 DEF SnapshotNext

\* Reconciling overwrites the status, the place and the arrival of a package.
LEMMA ReconciledPackageForgets ==
  ASSUME NEW q1 \in Package, NEW q2 \in Package, SameParcel(q1, q2), q1.route = q2.route,
         q1.customer = q2.customer, NEW R, NEW now
  PROVE  ReconciledPackage(q1, R, now) = ReconciledPackage(q2, R, now)
<1> DEFINE pickup == ArrivalTimeAt(R.path, R.dep, q1.start)
           delivery == ArrivalTimeAt(R.path, R.dep, q1.end)
           last == LastReachedCity(R.path, R.dep, q1.start, q1.end, now)
<1>1. q1.start = q2.start /\ q1.end = q2.end
  BY DEF SameParcel
<1>2. \A status, loc, eta : [q1 EXCEPT !.status = status, !.loc = loc, !.eta = eta]
                          = [q2 EXCEPT !.status = status, !.loc = loc, !.eta = eta]
  BY DEF SameParcel, Package
<1>3. \A status, loc, eta : [[q1 EXCEPT !.eta = eta] EXCEPT !.status = status, !.loc = loc]
                          = [[q2 EXCEPT !.eta = eta] EXCEPT !.status = status, !.loc = loc]
  BY DEF SameParcel, Package
<1>4. CASE R.dep = None \/ ~ IncludesInOrder(R.path, q1.start, q1.end)
  BY <1>1, <1>2, <1>4 DEF ReconciledPackage
<1>5. CASE ~ (R.dep = None \/ ~ IncludesInOrder(R.path, q1.start, q1.end))
  <2> DEFINE due1 == [q1 EXCEPT !.eta = delivery]
             due2 == [q2 EXCEPT !.eta = delivery]
  <2>1. /\ ReconciledPackage(q1, R, now) =
             CASE now < pickup -> [due1 EXCEPT !.status = "TODO", !.loc = q1.start]
               [] now >= pickup /\ now >= delivery -> [due1 EXCEPT !.status = "DONE", !.loc = q1.end]
               [] OTHER -> [due1 EXCEPT !.status = "IN_PROGRESS", !.loc = last]
        /\ ReconciledPackage(q2, R, now) =
             CASE now < pickup -> [due2 EXCEPT !.status = "TODO", !.loc = q1.start]
               [] now >= pickup /\ now >= delivery -> [due2 EXCEPT !.status = "DONE", !.loc = q1.end]
               [] OTHER -> [due2 EXCEPT !.status = "IN_PROGRESS", !.loc = last]
    BY <1>1, <1>5 DEF ReconciledPackage
  <2>2. \A status, loc : [due1 EXCEPT !.status = status, !.loc = loc]
                       = [due2 EXCEPT !.status = status, !.loc = loc]
    BY <1>3
  <2> HIDE DEF due1, due2
  <2> QED BY <2>1, <2>2
<1> QED BY <1>4, <1>5

\* Reconciling overwrites the status and the truck of a route.
LEMMA ReconciledRouteForgets ==
  ASSUME NEW R1 \in Route, NEW R2 \in Route, R1.path = R2.path, R1.dep = R2.dep, R1.pkgs = R2.pkgs,
         R1.truck = R2.truck, NEW now
  PROVE  ReconciledRoute(R1, now) = ReconciledRoute(R2, now)
<1>1. \A status, truck : [R1 EXCEPT !.status = status, !.truck = truck]
                       = [R2 EXCEPT !.status = status, !.truck = truck]
  BY DEF Route
<1>2. TruckReleases(R1, now) <=> TruckReleases(R2, now)
  BY DEF TruckReleases
<1> DEFINE status == ComputeRouteStatus(R1.path, R1.dep, now)
           truck == IF TruckReleases(R1, now) THEN None ELSE R1.truck
<1>3. /\ ReconciledRoute(R1, now) = [R1 EXCEPT !.status = status, !.truck = truck]
      /\ ReconciledRoute(R2, now) = [R2 EXCEPT !.status = status, !.truck = truck]
  BY <1>2 DEF ReconciledRoute
<1> HIDE DEF status, truck
<1> QED BY <1>1, <1>3

\* In a world that satisfies the invariants, the two ways meet.
LEMMA ReloadEqualsHeartbeat == WorldInv /\ UnassignedAsCreated => ReloadIsHeartbeat
<1> SUFFICES ASSUME WorldInv, UnassignedAsCreated,
                    \A r \in LiveRoutes : SavedTime(routes[r].dep) = routes[r].dep
             PROVE  [routes |-> [r \in RouteIds |-> LoadedRoute(CurrentSnapshot, r, clock)],
                     packages |-> [p \in PackageIds |-> LoadedPackage(CurrentSnapshot, p, clock)],
                     trucks |-> [t \in Trucks |-> LoadedTruck(CurrentSnapshot, t, clock)]]
                    = AfterHeartbeat(clock)
  BY DEF ReloadIsHeartbeat
<1> DEFINE s == CurrentSnapshot
           now == clock
<1>1. Inv /\ TypeOK /\ now \in Nat
  BY DEF WorldInv, Inv, TypeOK, Times
<1>2. Written(s) /\ s \in WorldStateSnapshot /\ ValidSnapshot(s) /\ NamesTrucks(s)
  BY <1>1, SnapshotIsWritten DEF Written
<1>3. SavedRoutes(s) = LiveRoutes /\ SavedPackages(s) = LivePackages
  BY <1>1, SnapshotNames
<1>4. ASSUME NEW r \in LiveRoutes
      PROVE  /\ s.routes[r].path = routes[r].path /\ s.routes[r].dep = routes[r].dep
             /\ s.routes[r].truck = routes[r].truck /\ s.routes[r].pkgs = routes[r].pkgs
  <2>1. s.routes[r] = [path |-> routes[r].path, dep |-> SavedTime(routes[r].dep),
                       truck |-> routes[r].truck, pkgs |-> routes[r].pkgs]
    BY DEF CurrentSnapshot, LiveRoutes
  <2> QED BY <2>1
<1>5. ASSUME NEW p \in LivePackages
      PROVE  /\ SameParcel(s.packages[p], packages[p])
             /\ s.packages[p].route = packages[p].route
             /\ s.packages[p].customer = packages[p].customer
  <2>1. s.packages[p] = [start |-> packages[p].start, end |-> packages[p].end,
                         weight |-> packages[p].weight, customer |-> packages[p].customer,
                         route |-> packages[p].route]
    BY DEF CurrentSnapshot, LivePackages
  <2> QED BY <2>1 DEF SameParcel
<1>6. \A t \in Trucks :
        /\ s.trucks[t] \in Truck
        /\ s.trucks[t].loc = trucks[t].loc
        /\ trucks[t].route = None => s.trucks[t] = FreeTruck(trucks[t].loc)
  BY <1>1, SnapshotContents
<1>7. RouteTruckLinks /\ RoutePackageLinks
  BY <1>1 DEF Inv
<1> HIDE DEF s
<1>8. ASSUME NEW r \in LiveRoutes
      PROVE  /\ r \in RouteIds /\ routes[r] \in Route /\ IsRoutePath(routes[r].path)
             /\ RebuiltRoute(s, r).path = routes[r].path /\ RebuiltRoute(s, r).dep = routes[r].dep
             /\ RebuiltRoute(s, r).truck = routes[r].truck /\ RebuiltRoute(s, r).pkgs = routes[r].pkgs
             /\ RebuiltRoute(s, r) \in Route
             /\ CandidateReconciles(s, r, now)
  <2>1. r \in RouteIds /\ routes[r] \in Route /\ IsRoutePath(routes[r].path)
    BY <1>1, LiveRouteFacts
  <2>2. /\ RebuiltRoute(s, r).path = s.routes[r].path /\ RebuiltRoute(s, r).dep = s.routes[r].dep
        /\ RebuiltRoute(s, r).truck = s.routes[r].truck /\ RebuiltRoute(s, r).pkgs = s.routes[r].pkgs
        /\ RebuiltRoute(s, r) \in Route
    BY <1>2, <1>3, SavedRouteFacts
  <2>3. CandidateReconciles(s, r, now)
    BY <1>1, <1>2, <1>3, CandidatesReconcile
  <2> QED BY <1>4, <2>1, <2>2, <2>3
<1>9. ASSUME NEW r \in RouteIds
      PROVE  LoadedRoute(s, r, now) = IF r \in LiveRoutes THEN ReconciledRoute(routes[r], now) ELSE NoRoute
  <2>1. CASE r \notin LiveRoutes
    BY <1>3, <2>1 DEF LoadedRoute
  <2>2. CASE r \in LiveRoutes
    <3> DEFINE B == RebuiltRoute(s, r)
               R == routes[r]
    <3>1. LoadedRoute(s, r, now) = ReconciledRoute(B, now)
      BY <1>3, <1>8, <2>2 DEF LoadedRoute
    <3>2. /\ B \in Route /\ R \in Route
          /\ B.path = R.path /\ B.dep = R.dep /\ B.truck = R.truck /\ B.pkgs = R.pkgs
      BY <1>8, <2>2
    <3> HIDE DEF B, R
    <3>3. ReconciledRoute(B, now) = ReconciledRoute(R, now)
      BY <3>2, ReconciledRouteForgets
    <3> QED BY <2>2, <3>1, <3>3 DEF R
  <2> QED BY <2>1, <2>2
<1>10. ASSUME NEW p \in PackageIds
       PROVE  LoadedPackage(s, p, now) =
                 IF p \in LivePackages /\ packages[p].route # None
                 THEN ReconciledPackage(packages[p], routes[packages[p].route], now) ELSE packages[p]
  <2>1. CASE p \notin LivePackages
    BY <1>3, <2>1 DEF LoadedPackage, LivePackages
  <2>2. CASE p \in LivePackages
    <3> DEFINE b == RebuiltPackage(s, p)
               q == packages[p]
    <3>1. /\ b \in Package /\ SameParcel(b, s.packages[p]) /\ b.route = s.packages[p].route
          /\ b.customer = s.packages[p].customer
          /\ b.status = "TODO" /\ b.loc = s.packages[p].start
          /\ s.packages[p].route = None => b.eta = None
      BY <1>2, <1>3, <2>2, SavedPackageFacts
    <3>2. q \in Package /\ SameParcel(b, q) /\ b.route = q.route /\ b.customer = q.customer
          /\ b.loc = q.start /\ (q.route = None => b.eta = None)
      BY <1>1, <1>5, <2>2, <3>1 DEF TypeOK, LivePackages, SameParcel
    <3>3. CASE q.route = None
      <4>1. LoadedPackage(s, p, now) = b
        BY <1>3, <2>2, <3>2, <3>3 DEF LoadedPackage
      <4>2. q.status = "TODO" /\ q.loc = q.start /\ q.eta = None
        BY <2>2, <3>3 DEF UnassignedAsCreated, AsCreated
      <4> HIDE DEF b, q
      <4>3. b = q
        BY <3>1, <3>2, <3>3, <4>2 DEF Package, SameParcel
      <4> QED BY <3>3, <4>1, <4>3 DEF q
    <3>4. CASE q.route # None
      <4> DEFINE A == RebuiltRoute(s, q.route)
                 R == routes[q.route]
      <4>1. q.route \in LiveRoutes
        BY <1>7, <2>2, <3>4 DEF RoutePackageLinks
      <4>2. A.path = R.path /\ A.dep = R.dep /\ CandidateReconciles(s, q.route, now)
        BY <1>8, <4>1
      <4>3. LoadedPackage(s, p, now) = ReconciledPackage(b, A, now)
        BY <1>3, <2>2, <3>2, <3>4, <4>2 DEF LoadedPackage
      <4> HIDE DEF b, q, A, R
      <4>4. ReconciledPackage(b, A, now) = ReconciledPackage(b, R, now)
        BY <4>2, ReconciledPackageByPath
      <4>5. ReconciledPackage(b, R, now) = ReconciledPackage(q, R, now)
        BY <3>1, <3>2, ReconciledPackageForgets
      <4> QED BY <2>2, <3>4, <4>3, <4>4, <4>5 DEF q, R
    <3> QED BY <3>3, <3>4
  <2> QED BY <2>1, <2>2
<1>11. ASSUME NEW t \in Trucks
       PROVE  LoadedTruck(s, t, now) =
                 IF trucks[t].route # None
                 THEN ReconciledTruck(trucks[t], trucks[t].route, routes[trucks[t].route], now)
                 ELSE trucks[t]
  <2>0. LoadedTruck(s, t, now) = RecoveredTruck(s, t, now) /\ t # None
    BY <1>2, RecoveredIsLoaded, FleetAssumption
  <2>1. CASE trucks[t].route # None
    <3> DEFINE r == trucks[t].route
               T == trucks[t]
               R == routes[r]
               B == RebuiltRoute(s, r)
               C == CandidateTruck(s, t, r)
    <3>1. /\ r \in LiveRoutes /\ R.truck = t /\ T.status = "ON_THE_WAY" /\ R.dep # None
          /\ T.busyFrom = R.dep /\ T.busyUntil = EtaFinal(R.path, R.dep) /\ T \in Truck
      BY <1>1, <1>7, <2>1 DEF RouteTruckLinks, TypeOK
    <3>2. /\ r \in RouteIds /\ R \in Route /\ IsRoutePath(R.path) /\ B.path = R.path /\ B.dep = R.dep
          /\ R.dep \in Nat
      BY <1>8, <3>1 DEF Route, OptionalTime, Times
    <3>3. s.routes[r].truck = t /\ s.routes[r].path = R.path /\ s.routes[r].dep = R.dep
          /\ r \in SavedRoutes(s)
      BY <1>3, <1>4, <3>1
    <3>4. RecoveredTruck(s, t, now) = ReconciledTruck(C, r, B, now)
      BY <1>1, <1>2, <3>3, RecoveredOnRoute
    <3>5. /\ C \in Truck /\ C.route = r /\ C.status = "ON_THE_WAY" /\ C.busyFrom = R.dep
          /\ C.busyUntil = EtaFinal(R.path, R.dep)
      BY <1>2, <1>6, <3>2, <3>3, CandidateTruckFacts
    <3>6. T.route = r /\ r # None
      BY <2>1
    <3>7. ReconciledTruck(C, r, B, now) = ReconciledTruck(C, r, R, now)
      <4> HIDE DEF B, R, C
      <4>1. TruckReleases(B, now) <=> TruckReleases(R, now)
        BY <3>2 DEF TruckReleases
      <4> QED BY <3>2, <4>1 DEF ReconciledTruck
    <3> HIDE DEF T, R, B, C, r
    <3>8. ReconciledTruck(C, r, R, now) = ReconciledTruck(T, r, R, now)
      BY <1>1, <3>1, <3>2, <3>5, <3>6, ReconciledForgetsPlace
    <3> QED BY <2>0, <3>4, <3>6, <3>7, <3>8 DEF T, R, r
  <2>2. CASE trucks[t].route = None
    <3>1. trucks[t] = FreeTruck(trucks[t].loc) /\ s.trucks[t] = FreeTruck(trucks[t].loc)
      BY <1>6, <1>7, <2>2 DEF RouteTruckLinks
    <3>2. ~ \E r \in SavedRoutes(s) : s.routes[r].truck = t
      <4> SUFFICES ASSUME NEW r \in LiveRoutes, routes[r].truck = t PROVE FALSE
        BY <1>3, <1>4
      <4>1. trucks[t].route = r /\ r # None
        BY <1>7, <1>8, <2>0, NoneAssumption, BoundAssumption DEF RouteTruckLinks, RouteIds
      <4> QED BY <2>2, <4>1
    <3> QED BY <2>0, <2>2, <3>1, <3>2 DEF RecoveredTruck
  <2> QED BY <2>1, <2>2
<1> QED BY <1>9, <1>10, <1>11 DEF AfterHeartbeat, s

\* A load of what was just saved brings back what a heartbeat at the same
\* instant would have made of the world: RouteSnapshot, PackageSnapshot and
\* TruckSnapshot leave nothing out that the reconciler does not restore.
THEOREM ReloadHolds == SnapshotSpec => []ReloadIsHeartbeat
<1>1. Init => WorldInv /\ UnassignedAsCreated
  <2> SUFFICES ASSUME Init PROVE WorldInv /\ UnassignedAsCreated
    OBVIOUS
  <2>1. OwnerLinks /\ UnassignedAsCreated
    BY DEF Init, OwnerLinks, LivePackages, UnassignedAsCreated
  <2>2. TruckWaitsAtStart
    BY DEF Init, TruckWaitsAtStart, FreeTruck
  <2> QED BY <2>1, <2>2, InitInv DEF WorldInv
<1>2. WorldInv /\ UnassignedAsCreated /\ [SnapshotNext]_vars => WorldInv' /\ UnassignedAsCreated'
  BY SnapshotStep, UnassignedStep
<1> QED BY <1>1, <1>2, ReloadEqualsHeartbeat, PTL DEF SnapshotSpec
=============================================================================
