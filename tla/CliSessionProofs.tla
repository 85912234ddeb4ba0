-------------------------- MODULE CliSessionProofs --------------------------
(***************************************************************************)
(* The command line and its state file, for every map, fleet, bound and    *)
(* disk: the world keeps its invariants across stops, starts and loads, a  *)
(* state file the program left can always be loaded, and at the prompt it  *)
(* holds the world unless an autosave failed or a use case was cut short   *)
(* after it had changed the world.                                         *)
(*                                                                         *)
(* The last one is not inductive: a heartbeat changes the world and a      *)
(* command that raises skips the autosave.  What is inductive is that,     *)
(* until a use case changes the world, the file and the world agree on     *)
(* everything a load at any later instant brings back, because a load      *)
(* reconciles what it brings back.                                         *)
(***************************************************************************)
EXTENDS CliSession, WorldSnapshotProofs

-----------------------------------------------------------------------------
(* Saved and later instants                                                *)

\* Saving may lose a fraction of a second, never gain one.
LEMMA SavedTimeEarlier ==
  ASSUME NEW time \in Nat
  PROVE  SavedTime(time) \in Nat /\ SavedTime(time) <= time
<1>1. time % Second \in 0..(Second - 1)
  BY SecondAssumption
<1>2. time % Second <= time
  BY SecondAssumption
<1>3. time # None
  BY NoneAssumption
<1> QED BY <1>1, <1>2, <1>3, SecondAssumption DEF SavedTime

-----------------------------------------------------------------------------
(* One route of a heartbeat                                                *)

\* All that a heartbeat writes and a snapshot keeps: the truck of a route that
\* is over, and where a truck is.
LEMMA ReconciledEntries ==
  ASSUME Inv, Inv', NEW r \in RouteIds, ReconcileRoute(r)
  PROVE  LET s1 == CurrentSnapshot
             s2 == CurrentSnapshot'
             R == routes[r]
             release == TruckReleases(R, job.now)
         IN  /\ s2.nextRouteId = s1.nextRouteId /\ s2.nextPackageId = s1.nextPackageId
             /\ SavedRoutes(s2) = SavedRoutes(s1) /\ SavedPackages(s2) = SavedPackages(s1)
             /\ \A q \in RouteIds : q # r => s2.routes[q] = s1.routes[q]
             /\ r \in SavedRoutes(s1)
             /\ s1.routes[r].path = R.path /\ s2.routes[r].path = R.path
             /\ s1.routes[r].dep = SavedTime(R.dep) /\ s2.routes[r].dep = SavedTime(R.dep)
             /\ s1.routes[r].pkgs = s2.routes[r].pkgs
             /\ s1.routes[r].truck = R.truck
             /\ s2.routes[r].truck = IF release THEN None ELSE R.truck
             /\ \A p \in PackageIds : s2.packages[p] = s1.packages[p]
             /\ \A t \in Trucks : t # R.truck => s2.trucks[t] = s1.trucks[t]
             /\ R.truck # None /\ release => s2.trucks[R.truck] = FreeTruck(End(R.path))
<1> DEFINE s1 == CurrentSnapshot
           s2 == CurrentSnapshot'
           R == routes[r]
           now == job.now
           release == TruckReleases(R, now)
           R2 == ReconciledRoute(R, now)
<1>1. /\ job.kind = "heartbeat" /\ r \in job.todo
      /\ routes' = [routes EXCEPT ![r] = R2]
      /\ trucks' = IF R.truck = None THEN trucks
                   ELSE [trucks EXCEPT ![R.truck] = ReconciledTruck(trucks[R.truck], r, R, now)]
      /\ packages' = [p \in PackageIds |->
                        IF p \in R.pkgs THEN ReconciledPackage(packages[p], R, now) ELSE packages[p]]
      /\ UNCHANGED <<nextRouteId, nextPackageId>>
  BY DEF ReconcileRoute, NextInLoop
<1>2. r \in LiveRoutes
  BY <1>1 DEF Inv, JobOK
<1>3. R \in Route /\ IsRoutePath(R.path) /\ now \in Nat
  BY <1>2, LiveRouteFacts DEF Inv, TypeOK, Job, Times
<1>4. R2.path = R.path /\ R2.dep = R.dep /\ R2.pkgs = R.pkgs
      /\ R2.truck = (IF release THEN None ELSE R.truck) /\ R2 \in Route
  <2>1. R2 = [R EXCEPT !.status = ComputeRouteStatus(R.path, R.dep, now),
                       !.truck = IF release THEN None ELSE R.truck]
    BY DEF ReconciledRoute
  <2>2. ComputeRouteStatus(R.path, R.dep, now) \in RouteStatus
    BY DEF ComputeRouteStatus, RouteStatus
  <2> HIDE DEF release, R2
  <2> QED BY <1>3, <2>1, <2>2 DEF Route
<1> HIDE DEF R2
<1>5. routes'[r] = R2 /\ \A q \in RouteIds : q # r => routes'[q] = routes[q]
  <2>1. routes \in [RouteIds -> Route \cup {NoRoute}]
    BY DEF Inv, TypeOK
  <2> QED BY <1>1, <2>1
<1>6. LiveRoutes' = LiveRoutes
  <2>1. R2 # NoRoute
    BY <1>4, SentinelAssumption
  <2> QED BY <1>2, <1>5, <2>1 DEF LiveRoutes
<1>7. ASSUME NEW p \in PackageIds
      PROVE  /\ p \in LivePackages' <=> p \in LivePackages
             /\ p \in LivePackages => SameParcel(packages'[p], packages[p])
                                      /\ packages'[p].route = packages[p].route
                                      /\ packages'[p].customer = packages[p].customer
  <2>1. CASE p \in R.pkgs
    <3>1. p \in LivePackages /\ packages[p] \in Package
      BY <1>2, <2>1 DEF Inv, RoutePackageLinks, TypeOK, LivePackages
    <3>2. packages'[p] = ReconciledPackage(packages[p], R, now)
      BY <1>1, <2>1
    <3> DEFINE q2 == ReconciledPackage(packages[p], R, now)
    <3>3. q2 \in Package /\ SameParcel(q2, packages[p]) /\ q2.route = packages[p].route
      BY <1>3, <3>1, ReconciledPackageFacts
    <3>4. q2 # NoPackage
      BY <3>3, SentinelAssumption
    <3>5. q2.customer = packages[p].customer
      BY <3>1, <3>4, ReconciledPackageOwner
    <3> HIDE DEF q2
    <3>6. packages'[p] = q2
      BY <3>2 DEF q2
    <3> QED BY <3>1, <3>3, <3>4, <3>5, <3>6 DEF LivePackages
  <2>2. CASE p \notin R.pkgs
    BY <1>1, <2>2 DEF LivePackages, SameParcel
  <2> QED BY <2>1, <2>2
<1>8. LivePackages' = LivePackages
  BY <1>7 DEF LivePackages
<1>9. ASSUME NEW t \in Trucks, t # R.truck PROVE trucks'[t] = trucks[t]
  BY <1>1, <1>9
<1>10. ASSUME R.truck # None, release PROVE trucks'[R.truck] = FreeTruck(End(R.path))
  <2>1. R.truck \in Trucks /\ trucks[R.truck] \in Truck /\ trucks[R.truck].route = r
    BY <1>2, <1>3, <1>10 DEF Inv, TypeOK, RouteTruckLinks, Route
  <2>2. trucks \in [Trucks -> Truck]
    BY DEF Inv, TypeOK
  <2>3. trucks'[R.truck] = ReconciledTruck(trucks[R.truck], r, R, now)
    BY <1>1, <1>10, <2>1, <2>2
  <2> QED BY <1>3, <1>10, <2>1, <2>3, ReconciledTruckFacts
<1>11. /\ SavedRoutes(s1) = LiveRoutes /\ SavedPackages(s1) = LivePackages
       /\ SavedRoutes(s2) = LiveRoutes' /\ SavedPackages(s2) = LivePackages'
  <2>1. SavedRoutes(s1) = LiveRoutes /\ SavedPackages(s1) = LivePackages
    BY SnapshotNames
  <2>2. (SavedRoutes(CurrentSnapshot) = LiveRoutes /\ SavedPackages(CurrentSnapshot) = LivePackages)'
    BY SnapshotNames, PTL
  <2> QED BY <2>1, <2>2 DEF SavedRoutes, SavedPackages
<1>12. /\ s1.nextRouteId = nextRouteId /\ s1.nextPackageId = nextPackageId
       /\ s2.nextRouteId = nextRouteId' /\ s2.nextPackageId = nextPackageId'
  BY DEF CurrentSnapshot
<1>13. ASSUME NEW q \in RouteIds
       PROVE  /\ s1.routes[q] = IF q \notin LiveRoutes THEN NoRoute
                                ELSE [path |-> routes[q].path, dep |-> SavedTime(routes[q].dep),
                                      truck |-> routes[q].truck, pkgs |-> routes[q].pkgs]
              /\ s2.routes[q] = IF q \notin LiveRoutes' THEN NoRoute
                                ELSE [path |-> routes'[q].path, dep |-> SavedTime(routes'[q].dep),
                                      truck |-> routes'[q].truck, pkgs |-> routes'[q].pkgs]
  BY DEF CurrentSnapshot
<1>14. ASSUME NEW p \in PackageIds
       PROVE  /\ s1.packages[p] = IF p \notin LivePackages THEN NoPackage
                   ELSE [start |-> packages[p].start, end |-> packages[p].end,
                         weight |-> packages[p].weight, customer |-> packages[p].customer,
                         route |-> packages[p].route]
              /\ s2.packages[p] = IF p \notin LivePackages' THEN NoPackage
                   ELSE [start |-> packages'[p].start, end |-> packages'[p].end,
                         weight |-> packages'[p].weight, customer |-> packages'[p].customer,
                         route |-> packages'[p].route]
  BY DEF CurrentSnapshot
<1>15. ASSUME NEW t \in Trucks
       PROVE  /\ s1.trucks[t] = [trucks[t] EXCEPT !.busyFrom = SavedTime(@), !.busyUntil = SavedTime(@)]
              /\ s2.trucks[t] = [trucks'[t] EXCEPT !.busyFrom = SavedTime(@), !.busyUntil = SavedTime(@)]
  BY DEF CurrentSnapshot
<1> HIDE DEF s1, s2
<1>16. \A q \in RouteIds : q # r => s2.routes[q] = s1.routes[q]
  BY <1>5, <1>6, <1>13
<1>17. /\ s1.routes[r].path = R.path /\ s2.routes[r].path = R.path
       /\ s1.routes[r].dep = SavedTime(R.dep) /\ s2.routes[r].dep = SavedTime(R.dep)
       /\ s1.routes[r].pkgs = s2.routes[r].pkgs
       /\ s1.routes[r].truck = R.truck
       /\ s2.routes[r].truck = IF release THEN None ELSE R.truck
  <2>1. s1.routes[r] = [path |-> R.path, dep |-> SavedTime(R.dep), truck |-> R.truck, pkgs |-> R.pkgs]
    BY <1>2, <1>13
  <2>2. s2.routes[r] = [path |-> R2.path, dep |-> SavedTime(R2.dep), truck |-> R2.truck, pkgs |-> R2.pkgs]
    BY <1>2, <1>5, <1>6, <1>13
  <2> HIDE DEF R, release
  <2> QED BY <1>4, <2>1, <2>2
<1>18. \A p \in PackageIds : s2.packages[p] = s1.packages[p]
  <2> SUFFICES ASSUME NEW p \in PackageIds PROVE s2.packages[p] = s1.packages[p]
    OBVIOUS
  <2>1. CASE p \in LivePackages
    <3>1. /\ packages'[p].start = packages[p].start /\ packages'[p].end = packages[p].end
          /\ packages'[p].weight = packages[p].weight
          /\ packages'[p].route = packages[p].route
          /\ packages'[p].customer = packages[p].customer
      BY <1>7, <2>1 DEF SameParcel
    <3> QED BY <1>8, <1>14, <2>1, <3>1
  <2>2. CASE p \notin LivePackages
    BY <1>8, <1>14, <2>2
  <2> QED BY <2>1, <2>2
<1>19. \A t \in Trucks : t # R.truck => s2.trucks[t] = s1.trucks[t]
  BY <1>9, <1>15
<1>20. R.truck # None /\ release => s2.trucks[R.truck] = FreeTruck(End(R.path))
  <2> SUFFICES ASSUME R.truck # None, release PROVE s2.trucks[R.truck] = FreeTruck(End(R.path))
    OBVIOUS
  <2>1. R.truck \in Trucks
    BY <1>3 DEF Route
  <2>2. s2.trucks[R.truck] =
          [FreeTruck(End(R.path)) EXCEPT !.busyFrom = SavedTime(@), !.busyUntil = SavedTime(@)]
    BY <1>10, <1>15, <2>1
  <2> QED BY <2>2 DEF FreeTruck, SavedTime
<1> QED BY <1>1, <1>2, <1>6, <1>8, <1>11, <1>12, <1>16, <1>17, <1>18, <1>19, <1>20 DEF s1, s2

\* Reconciling now and loading later is loading later: nothing that a load
\* brings back depends on whether this heartbeat was saved.
LEMMA ReconcileKeepsRecovery ==
  ASSUME Inv, Inv', NEW r \in RouteIds, ReconcileRoute(r), NEW now \in Nat, now >= job.now
  PROVE  SameRecovery(CurrentSnapshot, CurrentSnapshot', now)
<1> DEFINE s1 == CurrentSnapshot
           s2 == CurrentSnapshot'
           R == routes[r]
           release == TruckReleases(R, job.now)
           R1 == RebuiltRoute(s1, r)
           R2 == RebuiltRoute(s2, r)
<1>1. /\ s1 \in WorldStateSnapshot /\ ValidSnapshot(s1)
      /\ s2 \in WorldStateSnapshot /\ ValidSnapshot(s2)
  <2>1. Written(CurrentSnapshot)
    BY SnapshotIsWritten
  <2>2. Written(CurrentSnapshot)'
    BY SnapshotIsWritten, PTL
  <2> QED BY <2>1, <2>2 DEF Written
<1>2. /\ s2.nextRouteId = s1.nextRouteId /\ s2.nextPackageId = s1.nextPackageId
      /\ SavedRoutes(s2) = SavedRoutes(s1) /\ SavedPackages(s2) = SavedPackages(s1)
      /\ \A q \in RouteIds : q # r => s2.routes[q] = s1.routes[q]
      /\ r \in SavedRoutes(s1)
      /\ s1.routes[r].path = R.path /\ s2.routes[r].path = R.path
      /\ s1.routes[r].dep = SavedTime(R.dep) /\ s2.routes[r].dep = SavedTime(R.dep)
      /\ s1.routes[r].pkgs = s2.routes[r].pkgs
      /\ s1.routes[r].truck = R.truck
      /\ s2.routes[r].truck = IF release THEN None ELSE R.truck
      /\ \A p \in PackageIds : s2.packages[p] = s1.packages[p]
      /\ \A t \in Trucks : t # R.truck => s2.trucks[t] = s1.trucks[t]
      /\ R.truck # None /\ release => s2.trucks[R.truck] = FreeTruck(End(R.path))
  BY ReconciledEntries
<1>3. \A t \in Trucks : s1.trucks[t] \in Truck /\ s2.trucks[t] \in Truck
  <2>1. \A t \in Trucks : CurrentSnapshot.trucks[t] \in Truck
    BY SnapshotContents
  <2>2. (\A t \in Trucks : CurrentSnapshot.trucks[t] \in Truck)'
    BY SnapshotTrucks, PTL
  <2> QED BY <2>1, <2>2
<1>4. /\ r \in LiveRoutes /\ R \in Route /\ IsRoutePath(R.path) /\ job.now \in Nat
      /\ R.truck # None => R.dep # None
  <2>1. r \in LiveRoutes
    BY DEF ReconcileRoute, NextInLoop, Inv, JobOK
  <2>2. R \in Route /\ IsRoutePath(R.path) /\ job.now \in Nat
    BY <2>1, LiveRouteFacts DEF Inv, TypeOK, Job, Times
  <2>3. R.truck # None => trucks[R.truck].route = r /\ R.truck \in Trucks
    BY <2>1, <2>2 DEF Inv, RouteTruckLinks, Route
  <2>4. R.truck # None => R.dep # None
    BY <2>1, <2>2, <2>3, NoneAssumption, BoundAssumption DEF Inv, RouteTruckLinks, RouteIds
  <2> QED BY <2>1, <2>2, <2>4
<1> HIDE DEF s1, s2, R
<1>5. release => TruckReleases(R1, now) /\ TruckReleases(R2, now)
  <2> SUFFICES ASSUME release PROVE TruckReleases(R1, now) /\ TruckReleases(R2, now)
    OBVIOUS
  <2>1. R.dep \in Nat \cup {None}
    BY <1>4 DEF Route, OptionalTime, Times
  <2>2. R.dep # None /\ job.now >= R.dep + TotalDistance(R.path)
    BY <1>4, <2>1, ReleasedFromTheEndOn
  <2>3. SavedTime(R.dep) \in Nat /\ SavedTime(R.dep) <= R.dep /\ TotalDistance(R.path) \in Nat
    BY <1>4, <2>1, <2>2, SavedTimeEarlier, ArrivalTimeType
  <2>4. now >= SavedTime(R.dep) + TotalDistance(R.path)
    BY <1>4, <2>1, <2>2, <2>3
  <2>5. R1.path = R.path /\ R1.dep = SavedTime(R.dep) /\ R2.path = R.path /\ R2.dep = SavedTime(R.dep)
    BY <1>2 DEF RebuiltRoute
  <2>6. SavedTime(R.dep) # None
    BY <2>3, NoneAssumption
  <2> HIDE DEF R1, R2
  <2> QED BY <1>4, <2>3, <2>4, <2>5, <2>6, ReleasedFromTheEndOn
<1>6. ASSUME NEW q \in RouteIds PROVE LoadedRoute(s1, q, now) = LoadedRoute(s2, q, now)
  <2>1. CASE q \notin SavedRoutes(s1)
    BY <1>2, <2>1 DEF LoadedRoute
  <2>2. CASE q \in SavedRoutes(s1)
    <3>1. CandidateReconciles(s1, q, now) /\ CandidateReconciles(s2, q, now)
      BY <1>1, <1>2, <2>2, CandidatesReconcile
    <3>2. /\ LoadedRoute(s1, q, now) = ReconciledRoute(RebuiltRoute(s1, q), now)
          /\ LoadedRoute(s2, q, now) = ReconciledRoute(RebuiltRoute(s2, q), now)
      BY <1>2, <2>2, <3>1 DEF LoadedRoute
    <3>3. CASE q # r
      BY <1>2, <3>2, <3>3 DEF RebuiltRoute
    <3>4. CASE q = r
      <4>1. R1 \in Route /\ R2 \in Route
        BY <1>1, <1>2, SavedRouteFacts
      <4>2. R2 = [R1 EXCEPT !.truck = IF release THEN None ELSE R1.truck]
        BY <1>2 DEF RebuiltRoute
      <4>3. R1.path = R2.path /\ R1.dep = R2.dep
        BY <1>2 DEF RebuiltRoute
      <4>4. TruckReleases(R1, now) <=> TruckReleases(R2, now)
        BY <4>3 DEF TruckReleases
      <4>5. /\ ReconciledRoute(R1, now) =
                 [R1 EXCEPT !.status = ComputeRouteStatus(R1.path, R1.dep, now),
                            !.truck = IF TruckReleases(R1, now) THEN None ELSE R1.truck]
            /\ ReconciledRoute(R2, now) =
                 [R2 EXCEPT !.status = ComputeRouteStatus(R1.path, R1.dep, now),
                            !.truck = IF TruckReleases(R1, now) THEN None ELSE R2.truck]
        BY <4>3, <4>4 DEF ReconciledRoute
      <4> HIDE DEF R1, R2, release
      <4>6. ReconciledRoute(R1, now) = ReconciledRoute(R2, now)
        <5>1. CASE release
          BY <1>5, <4>1, <4>2, <4>5, <5>1 DEF Route
        <5>2. CASE ~ release
          BY <4>1, <4>2, <4>5, <5>2 DEF Route
        <5> QED BY <5>1, <5>2
      <4> QED BY <3>2, <3>4, <4>6 DEF R1, R2
    <3> QED BY <3>3, <3>4
  <2> QED BY <2>1, <2>2
<1>7. ASSUME NEW p \in PackageIds PROVE LoadedPackage(s1, p, now) = LoadedPackage(s2, p, now)
  <2>1. CASE p \notin SavedPackages(s1)
    BY <1>2, <2>1 DEF LoadedPackage
  <2>2. CASE p \in SavedPackages(s1)
    <3> DEFINE q == s1.packages[p]
               b1 == RebuiltPackage(s1, p)
               b2 == RebuiltPackage(s2, p)
    <3>1. q.route # None => q.route \in SavedRoutes(s1)
      BY <1>1, <2>2, SavedPackageFacts
    <3>2. s2.packages[p] = q
      BY <1>2
    <3>3. q.route # None =>
            /\ s1.routes[q.route].path = s2.routes[q.route].path
            /\ s1.routes[q.route].dep = s2.routes[q.route].dep
      <4>1. q.route # None => q.route \in RouteIds
        BY <3>1 DEF SavedRoutes
      <4> QED BY <1>2, <4>1
    <3>4. b1 = b2
      BY <3>2, <3>3 DEF RebuiltPackage
    <3>5. b1.route = q.route
      BY <1>1, <2>2, SavedPackageFacts
    <3>6. CASE q.route = None
      BY <1>2, <2>2, <3>4, <3>5, <3>6 DEF LoadedPackage
    <3>7. CASE q.route # None
      <4> DEFINE A1 == RebuiltRoute(s1, q.route)
                 A2 == RebuiltRoute(s2, q.route)
      <4>1. CandidateReconciles(s1, q.route, now) /\ CandidateReconciles(s2, q.route, now)
        BY <1>1, <1>2, <3>1, <3>7, CandidatesReconcile
      <4>2. A1.path = A2.path /\ A1.dep = A2.dep
        BY <3>3, <3>7 DEF RebuiltRoute
      <4> HIDE DEF A1, A2, b1, b2
      <4>3. ReconciledPackage(b1, A1, now) = ReconciledPackage(b1, A2, now)
        BY <4>2, ReconciledPackageByPath
      <4>4. /\ LoadedPackage(s1, p, now) = ReconciledPackage(b1, A1, now)
            /\ LoadedPackage(s2, p, now) = ReconciledPackage(b2, A2, now)
        BY <1>2, <2>2, <3>4, <3>5, <3>7, <4>1 DEF LoadedPackage, A1, A2, b1, b2
      <4> QED BY <3>4, <4>3, <4>4
    <3> QED BY <3>6, <3>7
  <2> QED BY <2>1, <2>2
<1>8. ASSUME NEW t \in Trucks PROVE RecoveredTruck(s1, t, now) = RecoveredTruck(s2, t, now)
  <2>0. t # None
    BY FleetAssumption
  <2>1. CASE t # R.truck
    <3>1. \A q \in SavedRoutes(s1) : s1.routes[q].truck = t <=> s2.routes[q].truck = t
      BY <1>2, <2>0, <2>1 DEF SavedRoutes
    <3>2. CASE \E q \in SavedRoutes(s1) : s1.routes[q].truck = t
      <4>1. PICK q \in SavedRoutes(s1) : s1.routes[q].truck = t
        BY <3>2
      <4>2. q # r /\ q \in RouteIds /\ s2.routes[q] = s1.routes[q]
        BY <1>2, <2>1, <4>1 DEF SavedRoutes
      <4>3. s2.trucks[t] = s1.trucks[t]
        BY <1>2, <2>1
      <4>4. RebuiltRoute(s1, q) = RebuiltRoute(s2, q)
        BY <4>2 DEF RebuiltRoute
      <4>5. CandidateTruck(s1, t, q) = CandidateTruck(s2, t, q)
        BY <4>3, <4>4 DEF CandidateTruck
      <4>6. RecoveredTruck(s1, t, now) =
              ReconciledTruck(CandidateTruck(s1, t, q), q, RebuiltRoute(s1, q), now)
        BY <1>1, <4>1, RecoveredOnRoute
      <4>7. RecoveredTruck(s2, t, now) =
              ReconciledTruck(CandidateTruck(s2, t, q), q, RebuiltRoute(s2, q), now)
        BY <1>1, <1>2, <4>1, <4>2, RecoveredOnRoute
      <4> QED BY <4>4, <4>5, <4>6, <4>7
    <3>3. CASE ~ \E q \in SavedRoutes(s1) : s1.routes[q].truck = t
      <4>1. ~ \E q \in SavedRoutes(s2) : s2.routes[q].truck = t
        BY <1>2, <3>1, <3>3
      <4>2. s2.trucks[t] = s1.trucks[t]
        BY <1>2, <2>1
      <4> QED BY <3>3, <4>1, <4>2 DEF RecoveredTruck
    <3> QED BY <3>2, <3>3
  <2>2. CASE t = R.truck
    <3>1. s1.routes[r].truck = t /\ r \in SavedRoutes(s1) /\ r \in RouteIds
      BY <1>2, <2>2
    <3>2. RecoveredTruck(s1, t, now) = ReconciledTruck(CandidateTruck(s1, t, r), r, R1, now)
      BY <1>1, <3>1, RecoveredOnRoute
    <3>3. R.dep \in Nat
      BY <1>4, <2>0, <2>2 DEF Route, OptionalTime, Times
    <3>4. SavedTime(R.dep) \in Nat
      BY <3>3, SavedTimeEarlier
    <3>5. /\ R1.path = R.path /\ R1.dep = SavedTime(R.dep) /\ R2.path = R.path /\ R2.dep = SavedTime(R.dep)
          /\ R1 \in Route /\ IsRoutePath(R1.path)
      <4>1. R1 \in Route /\ IsRoutePath(s1.routes[r].path)
        BY <1>1, <1>2, SavedRouteFacts
      <4> QED BY <1>2, <4>1 DEF RebuiltRoute
    <3>6. CASE release
      <4>1. CandidateTruck(s1, t, r) \in Truck /\ CandidateTruck(s1, t, r).route = r
        BY <1>1, <1>2, <1>3, <3>1, <3>4, CandidateTruckFacts
      <4>2. RecoveredTruck(s1, t, now) = FreeTruck(End(R.path))
        <5> HIDE DEF R1, release
        <5> QED BY <1>5, <3>1, <3>2, <3>5, <3>6, <4>1, ReconciledTruckFacts
      <4>3. ~ \E q \in SavedRoutes(s2) : s2.routes[q].truck = t
        <5> SUFFICES ASSUME NEW q \in SavedRoutes(s2), s2.routes[q].truck = t PROVE FALSE
          OBVIOUS
        <5>1. q # r
          BY <1>2, <2>0, <3>6
        <5>2. q \in SavedRoutes(s1) /\ s1.routes[q].truck = t
          BY <1>2, <5>1 DEF SavedRoutes
        <5> QED BY <1>1, <2>0, <3>1, <5>1, <5>2 DEF ValidSnapshot, ValidReferences
      <4>4. RecoveredTruck(s2, t, now) = s2.trucks[t]
        BY <4>3 DEF RecoveredTruck
      <4>5. s2.trucks[t] = FreeTruck(End(R.path))
        BY <1>2, <2>0, <2>2, <3>6
      <4> QED BY <4>2, <4>4, <4>5
    <3>7. CASE ~ release
      <4>1. s2.routes[r].truck = t /\ r \in SavedRoutes(s2)
        BY <1>2, <2>2, <3>7
      <4>2. RecoveredTruck(s2, t, now) = ReconciledTruck(CandidateTruck(s2, t, r), r, R2, now)
        BY <1>1, <4>1, RecoveredOnRoute
      <4>3. R1 = R2
        BY <1>2, <2>2, <4>1 DEF RebuiltRoute
      <4> DEFINE C1 == CandidateTruck(s1, t, r)
                 C2 == CandidateTruck(s2, t, r)
                 d == SavedTime(R.dep)
      <4>4. C1 \in Truck /\ C1.route = r /\ C1.status = "ON_THE_WAY" /\ C1.busyFrom = d
            /\ C1.busyUntil = EtaFinal(R.path, d)
        BY <1>1, <1>2, <1>3, <3>1, <3>4, CandidateTruckFacts
      <4>5. C2 \in Truck /\ C2.route = r /\ C2.status = "ON_THE_WAY" /\ C2.busyFrom = d
            /\ C2.busyUntil = EtaFinal(R.path, d)
        BY <1>1, <1>2, <1>3, <3>1, <3>4, <4>1, CandidateTruckFacts
      <4> HIDE DEF C1, C2, R1, R2, d
      <4>6. R1.dep \in Nat
        BY <3>4, <3>5
      <4>7. ReconciledTruck(C1, r, R1, now) = ReconciledTruck(C2, r, R1, now)
        BY <3>1, <3>5, <4>4, <4>5, <4>6, ReconciledForgetsPlace
      <4> QED BY <3>2, <4>2, <4>3, <4>7 DEF C1, C2
    <3> QED BY <3>6, <3>7
  <2> QED BY <2>1, <2>2
<1> QED BY <1>2, <1>6, <1>7, <1>8 DEF SameRecovery, s1, s2

-----------------------------------------------------------------------------
(* The inductive invariant                                                 *)

\* The world a new container starts with.
NewWorld ==
    /\ clock \in Times
    /\ routes = [r \in RouteIds |-> NoRoute]
    /\ packages = [p \in PackageIds |-> NoPackage]
    /\ trucks = [t \in Trucks |-> FreeTruck(InitialLocation[t])]
    /\ nextRouteId = 1
    /\ nextPackageId = 1
    /\ accounts = [c \in Customers |-> {}]
    /\ job = Idle

EmptyWorld == LiveRoutes = {} /\ LivePackages = {}

\* Phases and memory of the process.
CliShape ==
    /\ cli \in {"down", "failed", "prompt", "command", "autosave"}
    /\ session \in Roles \cup {NoUser}
    /\ changed \in BOOLEAN
    /\ behind \in BOOLEAN
    /\ mutated \in BOOLEAN

StateFile(f) == f = NoFile \/ Written(f)

\* The handlers' loops run only inside a command, a change is autosaved next
\* unless its batch goes on, and a process that is not up has no world.
LoopsInCommands ==
    /\ cli # "command" => job.kind = "idle"
    /\ cli # "autosave" /\ job.kind # "assign" => ~ mutated
    /\ cli \in {"down", "failed"} => EmptyWorld

\* Nothing sets the clock back behind a heartbeat that is under way.
HeartbeatInPast == job.kind = "heartbeat" => job.now <= clock

\* A load at this or at any later instant brings the world back from f.
HoldsWorld(f) ==
    IF f = NoFile THEN EmptyWorld
    ELSE \A now \in Nat : now >= clock => SameRecovery(f, CurrentSnapshot, now)

\* Between commands, and inside one until its use case changes the world.
FileHoldsWorld ==
    cli \in {"prompt", "command", "autosave"} /\ ~ mutated /\ ~ behind => HoldsWorld(file)

CliInv ==
    /\ WorldInv
    /\ CliShape
    /\ StateFile(file)
    /\ StateFile(aside)
    /\ LoopsInCommands
    /\ HeartbeatInPast
    /\ FileHoldsWorld

LEMMA NewWorldSound == NewWorld => WorldInv /\ EmptyWorld /\ job.kind = "idle"
<1> SUFFICES ASSUME NewWorld PROVE WorldInv /\ EmptyWorld /\ job.kind = "idle"
  OBVIOUS
<1> USE DEF NewWorld
<1>1. LiveRoutes = {} /\ LivePackages = {}
  BY DEF LiveRoutes, LivePackages
<1>2. TypeOK
  <2>1. job \in Job
    BY DEF Idle, Job, Times
  <2>2. trucks \in [Trucks -> Truck]
    BY FleetAssumption DEF FreeTruck, Truck, TruckStatus, OptionalTime
  <2>3. nextRouteId \in 1..(MaxRoutes + 1) /\ nextPackageId \in 1..(MaxPackages + 1)
    BY BoundAssumption
  <2> QED BY <2>1, <2>2, <2>3 DEF TypeOK, Times
<1>3. JobOK /\ job.kind = "idle"
  BY DEF JobOK, Idle
<1>4. FreshIds
  BY DEF FreshIds
<1>5. RouteTruckLinks
  BY <1>1 DEF RouteTruckLinks, FreeTruck
<1>6. RoutePackageLinks /\ TruckNeverOverloaded
  BY <1>1 DEF RoutePackageLinks, TruckNeverOverloaded
<1>7. TruckOnItsPath /\ TruckWaitsAtStart
  BY DEF TruckOnItsPath, TruckWaitsAtStart, FreeTruck
<1>8. OwnerLinks
  BY <1>1 DEF OwnerLinks
<1> QED BY <1>1, <1>2, <1>3, <1>4, <1>5, <1>6, <1>7, <1>8 DEF Inv, WorldInv, EmptyWorld

\* Every use case and every step of a heartbeat keeps the world's invariants.
LEMMA WorldStep == WorldInv /\ [Next]_vars => WorldInv'
BY SnapshotStep DEF SnapshotNext

\* A loop that is left before its end leaves a sound world.
LEMMA LoopLeft ==
  ASSUME WorldInv, job' = Idle, UNCHANGED <<world, clock>>
  PROVE  WorldInv'
<1>1. job' \in Job /\ job'.kind = "idle" /\ job'.todo = {}
  BY DEF Idle, Job, Times
<1>2. /\ routes' = routes /\ packages' = packages /\ trucks' = trucks /\ clock' = clock
      /\ nextRouteId' = nextRouteId /\ nextPackageId' = nextPackageId /\ accounts' = accounts
  BY DEF world
<1>3. LiveRoutes' = LiveRoutes /\ LivePackages' = LivePackages
  BY <1>2 DEF LiveRoutes, LivePackages
<1>4. TypeOK' /\ JobOK' /\ FreshIds'
  BY <1>1, <1>2, <1>3 DEF WorldInv, Inv, TypeOK, JobOK, FreshIds
<1>5. RouteTruckLinks' /\ RoutePackageLinks' /\ OwnerLinks'
  BY <1>2, <1>3 DEF WorldInv, Inv, RouteTruckLinks, RoutePackageLinks, OwnerLinks
<1>6. TruckNeverOverloaded' /\ TruckOnItsPath' /\ TruckWaitsAtStart'
  BY <1>2, <1>3 DEF WorldInv, Inv, TruckNeverOverloaded, TruckOnItsPath, TruckWaitsAtStart
<1> QED BY <1>4, <1>5, <1>6 DEF WorldInv, Inv

LEMMA CliInitInv == CliInit => CliInv
<1> SUFFICES ASSUME CliInit PROVE CliInv
  OBVIOUS
<1>1. NewWorld
  BY DEF CliInit, Init, NewWorld, Times
<1>2. WorldInv /\ EmptyWorld /\ job.kind = "idle"
  BY <1>1, NewWorldSound
<1> QED BY <1>2 DEF CliInit, CliInv, CliShape, Roles, StateFile, LoopsInCommands, HeartbeatInPast,
                    FileHoldsWorld

\* A world that does not change keeps what the file holds of it, as time goes by.
LEMMA SameWorldKept ==
  ASSUME UNCHANGED <<routes, packages, trucks, nextRouteId, nextPackageId, file>>,
         clock \in Nat, clock' \in Nat, clock <= clock', HoldsWorld(file)
  PROVE  HoldsWorld(file)'
<1>1. CurrentSnapshot' = CurrentSnapshot
  BY SameWorldSameSnapshot
<1>2. CASE file = NoFile
  BY <1>2 DEF HoldsWorld, EmptyWorld, LiveRoutes, LivePackages
<1>3. CASE file # NoFile
  <2>1. \A now \in Nat : now >= clock => SameRecovery(file, CurrentSnapshot, now)
    BY <1>3 DEF HoldsWorld
  <2>2. \A now \in Nat : now >= clock' => now >= clock
    OBVIOUS
  <2>3. \A now \in Nat : now >= clock' => SameRecovery(file', CurrentSnapshot', now)
    BY <1>1, <2>1, <2>2
  <2> QED BY <1>3, <2>3 DEF HoldsWorld
<1> QED BY <1>2, <1>3

\* A file that has just been written holds the world.
LEMMA SavedWorldHeld ==
  ASSUME UNCHANGED <<routes, packages, trucks, nextRouteId, nextPackageId>>, WorldInv, file' = CurrentSnapshot
  PROVE  StateFile(file)' /\ HoldsWorld(file)'
<1>1. CurrentSnapshot' = CurrentSnapshot
  BY SameWorldSameSnapshot
<1>2. Written(CurrentSnapshot)
  BY SnapshotIsWritten DEF WorldInv
<1>3. StateFile(file)'
  BY <1>2 DEF StateFile
<1>4. file' # NoFile
  BY <1>2, NoFileAssumption DEF Written
<1>5. \A now : SameRecovery(file', CurrentSnapshot', now)
  BY <1>1 DEF SameRecovery
<1> QED BY <1>3, <1>4, <1>5 DEF HoldsWorld

\* Steps of the process that touch neither the world nor the file.
LEMMA QuietStep ==
  ASSUME CliInv, UNCHANGED <<vars, file>>, CliShape', StateFile(aside)', LoopsInCommands',
         cli' \in {"prompt", "command", "autosave"} /\ ~ mutated' /\ ~ behind' =>
            \/ HoldsWorld(file)
            \/ cli \in {"prompt", "command", "autosave"} /\ ~ mutated /\ ~ behind
  PROVE  CliInv'
<1>1. WorldInv'
  BY WorldStep DEF CliInv
<1>2. clock \in Nat /\ clock' = clock
  BY DEF CliInv, WorldInv, Inv, TypeOK, Times, vars
<1>3. StateFile(file)'
  BY DEF CliInv, StateFile
<1>4. HeartbeatInPast'
  BY DEF CliInv, HeartbeatInPast, vars
<1>5. FileHoldsWorld'
  <2> SUFFICES ASSUME cli' \in {"prompt", "command", "autosave"}, ~ mutated', ~ behind'
               PROVE  HoldsWorld(file)'
    BY DEF FileHoldsWorld
  <2>1. HoldsWorld(file)
    BY DEF CliInv, FileHoldsWorld
  <2> QED BY <1>2, <2>1, SameWorldKept DEF vars
<1> QED BY <1>1, <1>3, <1>4, <1>5 DEF CliInv

\* Steps inside a command that change the world as one of its actions does.
LEMMA CommandStep ==
  ASSUME CliInv, Next, UNCHANGED <<file, aside, session, behind>>, CliShape', LoopsInCommands',
         HeartbeatInPast', FileHoldsWorld'
  PROVE  CliInv'
<1>1. WorldInv'
  BY WorldStep DEF CliInv
<1>2. StateFile(file)' /\ StateFile(aside)'
  BY DEF CliInv, StateFile
<1> QED BY <1>1, <1>2 DEF CliInv

LEMMA HeartbeatStepInv ==
  ASSUME CliInv, HeartbeatStep PROVE CliInv'
<1>1. /\ cli = "command" /\ UNCHANGED <<cli, session, file, aside, behind, mutated>>
      /\ changed' \in BOOLEAN
  BY DEF HeartbeatStep, CliInv, CliShape
<1>2. PICK r \in RouteIds : ReconcileRoute(r) \/ ReconcileRouteFails(r)
  BY DEF HeartbeatStep
<1>3. job.kind = "heartbeat" /\ r \in job.todo /\ job' = LoopAfter(r) /\ UNCHANGED clock
  BY <1>2 DEF ReconcileRoute, ReconcileRouteFails, NextInLoop
<1>4. Inv /\ WorldInv /\ TypeOK /\ JobOK
  BY DEF CliInv, WorldInv, Inv
<1>5. clock \in Nat /\ job.now \in Nat /\ job.now <= clock
  BY <1>3, <1>4 DEF CliInv, HeartbeatInPast, TypeOK, Job, Times
<1>6. Next
  BY <1>2 DEF Next
<1>7. Inv'
  BY <1>4, <1>6, WorldStep DEF WorldInv
<1>8. CliShape' /\ LoopsInCommands'
  BY <1>1, <1>3 DEF CliInv, CliShape, LoopsInCommands
<1>9. HeartbeatInPast'
  BY <1>3, <1>4, <1>5, LoopAfterType DEF HeartbeatInPast
<1>10. FileHoldsWorld'
  <2> SUFFICES ASSUME ~ mutated, ~ behind PROVE HoldsWorld(file)'
    BY <1>1 DEF FileHoldsWorld
  <2>1. HoldsWorld(file)
    BY <1>1 DEF CliInv, FileHoldsWorld
  <2>2. r \in LiveRoutes
    BY <1>3, <1>4 DEF JobOK
  <2>3. file # NoFile
    BY <2>1, <2>2 DEF HoldsWorld, EmptyWorld
  <2>4. CASE ReconcileRouteFails(r)
    BY <1>1, <1>3, <1>5, <2>1, <2>4, SameWorldKept DEF ReconcileRouteFails
  <2>5. CASE ReconcileRoute(r)
    <3> SUFFICES ASSUME NEW now \in Nat, now >= clock
                 PROVE  SameRecovery(file, CurrentSnapshot', now)
      BY <1>1, <1>3, <2>3 DEF HoldsWorld
    <3>1. SameRecovery(file, CurrentSnapshot, now)
      BY <2>1, <2>3 DEF HoldsWorld
    <3>2. SameRecovery(CurrentSnapshot, CurrentSnapshot', now)
      BY <1>4, <1>5, <1>7, <2>5, ReconcileKeepsRecovery
    <3> QED BY <3>1, <3>2 DEF SameRecovery
  <2> QED BY <1>2, <2>4, <2>5
<1> QED BY <1>1, <1>6, <1>8, <1>9, <1>10, CommandStep

LEMMA MutateInv ==
  ASSUME CliInv, Mutate PROVE CliInv'
<1>1. /\ cli = "command" /\ mutated' = TRUE /\ UNCHANGED <<session, changed, file, aside, behind>>
      /\ cli' = IF job'.kind = "idle" THEN PhaseAfter(TRUE) ELSE "command"
  BY DEF Mutate
<1>2. Next
  BY DEF Mutate, Next
<1>3. PhaseAfter(TRUE) = "autosave"
  BY DEF PhaseAfter, AutosaveDue
<1>4. job'.kind \in {"idle", "assign"}
  <2>1. TypeOK /\ JobOK
    BY DEF CliInv, WorldInv, Inv
  <2>2. CASE job.kind = "idle" /\ UNCHANGED job
    BY <2>2
  <2>3. ASSUME NEW r \in RouteIds, NEW ids \in SUBSET PackageIds, AssignPackagesToRoute(r, ids)
        PROVE  job'.kind = "assign"
    BY <2>3 DEF AssignPackagesToRoute
  <2>4. ASSUME NEW p \in PackageIds, AssignPackage(p) \/ SkipPackage(p)
        PROVE  job'.kind \in {"idle", "assign"}
    <3>1. job.kind = "assign" /\ job' = LoopAfter(p)
      BY <2>4 DEF AssignPackage, SkipPackage
    <3>2. LoopAfter(p).kind # "idle" => LoopAfter(p).kind = job.kind
      BY <2>1, LoopAfterType
    <3> QED BY <3>1, <3>2
  <2> QED BY <2>2, <2>3, <2>4 DEF Mutate, CreateRoute, CreatePackage, AssignTruckToRoute, RemoveRoute,
                                  RemovePackage
<1>5. CliShape'
  BY <1>1, <1>3 DEF CliInv, CliShape
<1>6. LoopsInCommands' /\ FileHoldsWorld' /\ HeartbeatInPast'
  BY <1>1, <1>3, <1>4 DEF LoopsInCommands, FileHoldsWorld, HeartbeatInPast
<1> QED BY <1>1, <1>2, <1>5, <1>6, CommandStep

LEMMA StopInv ==
  ASSUME CliInv, Stop PROVE CliInv'
<1>1. NewWorld'
  BY DEF Stop, NewWorld, CliInv, WorldInv, Inv, TypeOK, Times
<1>2. (WorldInv /\ EmptyWorld /\ job.kind = "idle")'
  BY <1>1, NewWorldSound, PTL
<1>3. /\ cli' = "down" /\ session' = NoUser /\ changed' = FALSE /\ behind' = FALSE /\ mutated' = FALSE
      /\ UNCHANGED <<file, aside>>
  BY DEF Stop
<1>4. CliShape' /\ StateFile(file)' /\ StateFile(aside)'
  BY <1>3 DEF CliInv, CliShape, StateFile
<1>5. LoopsInCommands' /\ HeartbeatInPast' /\ FileHoldsWorld'
  BY <1>2, <1>3 DEF LoopsInCommands, HeartbeatInPast, FileHoldsWorld
<1> QED BY <1>2, <1>4, <1>5 DEF CliInv

LEMMA LoadAsideInv ==
  ASSUME CliInv, LoadAside PROVE CliInv'
<1>1. /\ cli = "prompt" /\ aside # NoFile /\ LoadWorld(aside) /\ behind' = TRUE
      /\ UNCHANGED <<cli, session, changed, file, aside, job, mutated>>
  BY DEF LoadAside, LoadWorld
<1>2. aside \in WorldStateSnapshot
  BY <1>1 DEF CliInv, StateFile, Written
<1>3. WorldInv'
  BY <1>1, <1>2, AcceptedFilesAreSound DEF CliInv
<1>4. CliShape' /\ StateFile(file)' /\ StateFile(aside)' /\ LoopsInCommands'
  BY <1>1 DEF CliInv, CliShape, StateFile, LoopsInCommands
<1>5. HeartbeatInPast' /\ FileHoldsWorld'
  BY <1>1 DEF CliInv, LoopsInCommands, HeartbeatInPast, FileHoldsWorld
<1> QED BY <1>3, <1>4, <1>5 DEF CliInv

\* Saving, by the user's command or after it.
LEMMA SaveInv ==
  ASSUME CliInv, Save \/ Autosave PROVE CliInv'
<1>1. /\ file' = CurrentSnapshot /\ behind' = FALSE
      /\ UNCHANGED <<vars, session, aside>> /\ changed' \in BOOLEAN
      /\ cli' \in {"prompt", "autosave"} /\ job.kind = "idle"
      /\ mutated' \in BOOLEAN /\ (cli' = "prompt" => ~ mutated')
  <2>1. CASE Save
    <3>1. job.kind = "idle" /\ cli = "command" /\ ~ mutated
      BY <2>1 DEF Save, CliInv, LoopsInCommands
    <3> QED BY <2>1, <3>1 DEF Save, SaveWorld, PhaseAfter, CliInv, CliShape
  <2>2. CASE Autosave
    BY <2>2 DEF Autosave, SaveWorld, CliInv, LoopsInCommands
  <2> QED BY <2>1, <2>2
<1>2. WorldInv'
  BY <1>1, WorldStep DEF CliInv
<1>3. StateFile(file)' /\ HoldsWorld(file)'
  BY <1>1, SavedWorldHeld DEF CliInv, vars
<1>4. CliShape' /\ StateFile(aside)'
  BY <1>1 DEF CliInv, CliShape, StateFile
<1>5. LoopsInCommands' /\ HeartbeatInPast' /\ FileHoldsWorld'
  BY <1>1, <1>3 DEF LoopsInCommands, HeartbeatInPast, FileHoldsWorld, vars
<1> QED BY <1>2, <1>3, <1>4, <1>5 DEF CliInv

LEMMA EnterCommandInv ==
  ASSUME CliInv, EnterCommand PROVE CliInv'
<1>1. /\ cli = "prompt" /\ cli' = "command" /\ changed' = FALSE /\ Heartbeat
      /\ UNCHANGED <<session, file, aside, behind, mutated>>
  BY DEF EnterCommand
<1>2. /\ job.kind = "idle" /\ clock \in Nat
      /\ UNCHANGED <<clock, routes, packages, trucks, nextRouteId, nextPackageId>>
      /\ job' = IF LiveRoutes = {} THEN Idle
                ELSE [kind |-> "heartbeat", now |-> clock, route |-> None, todo |-> LiveRoutes]
  BY <1>1 DEF Heartbeat, CliInv, WorldInv, Inv, TypeOK, Times
<1>3. job'.kind = "heartbeat" => job'.now = clock
  BY <1>2 DEF Idle
<1>4. Next
  BY <1>1 DEF Next
<1>5. CliShape' /\ LoopsInCommands'
  BY <1>1 DEF CliInv, CliShape, LoopsInCommands
<1>6. HeartbeatInPast'
  BY <1>2, <1>3 DEF HeartbeatInPast
<1>7. FileHoldsWorld'
  <2> SUFFICES ASSUME ~ mutated, ~ behind PROVE HoldsWorld(file)'
    BY <1>1 DEF FileHoldsWorld
  <2>1. HoldsWorld(file)
    BY <1>1 DEF CliInv, FileHoldsWorld
  <2> QED BY <1>1, <1>2, <2>1, SameWorldKept
<1> QED BY <1>1, <1>4, <1>5, <1>6, <1>7, CommandStep

LEMMA TimePassesInv ==
  ASSUME CliInv, TimePasses PROVE CliInv'
<1>1. /\ Tick /\ UNCHANGED <<cli, session, changed, file, aside, behind, mutated>>
  BY DEF TimePasses
<1>2. /\ clock \in Nat /\ clock' = clock + 1
      /\ UNCHANGED <<routes, packages, trucks, nextRouteId, nextPackageId, job>>
  BY <1>1 DEF Tick, CliInv, WorldInv, Inv, TypeOK, Times
<1>3. Next
  BY <1>1 DEF Next
<1>4. CliShape' /\ LoopsInCommands'
  BY <1>1, <1>2 DEF CliInv, CliShape, LoopsInCommands, EmptyWorld, LiveRoutes, LivePackages
<1>5. HeartbeatInPast'
  <2>1. job.now \in Nat
    BY DEF CliInv, WorldInv, Inv, TypeOK, Job, Times
  <2> QED BY <1>2, <2>1 DEF CliInv, HeartbeatInPast
<1>6. FileHoldsWorld'
  <2> SUFFICES ASSUME cli \in {"prompt", "command", "autosave"}, ~ mutated, ~ behind
               PROVE  HoldsWorld(file)'
    BY <1>1 DEF FileHoldsWorld
  <2>1. HoldsWorld(file)
    BY DEF CliInv, FileHoldsWorld
  <2> QED BY <1>1, <1>2, <2>1, SameWorldKept
<1> QED BY <1>1, <1>3, <1>4, <1>5, <1>6, CommandStep

\* A command that is cut short has changed nothing that a load would miss, or
\* the file counts as behind.
LEMMA CutShortInv ==
  ASSUME CliInv, CutShort PROVE CliInv'
<1>1. /\ cli \in {"command", "autosave"} /\ cli' = "prompt" /\ job' = Idle
      /\ behind' = (behind \/ mutated) /\ mutated' = FALSE /\ changed' = FALSE
      /\ UNCHANGED <<world, clock, session, file, aside>>
  BY DEF CutShort
<1>2. WorldInv'
  BY <1>1, LoopLeft DEF CliInv
<1>3. CliShape' /\ StateFile(file)' /\ StateFile(aside)'
  BY <1>1 DEF CliInv, CliShape, StateFile
<1>4. LoopsInCommands' /\ HeartbeatInPast'
  BY <1>1 DEF LoopsInCommands, HeartbeatInPast, Idle
<1>5. FileHoldsWorld'
  <2> SUFFICES ASSUME ~ mutated, ~ behind PROVE HoldsWorld(file)'
    BY <1>1 DEF FileHoldsWorld, CliInv, CliShape
  <2>1. HoldsWorld(file)
    BY <1>1 DEF CliInv, FileHoldsWorld
  <2>2. clock \in Nat /\ clock' = clock
    BY <1>1 DEF CliInv, WorldInv, Inv, TypeOK, Times
  <2> QED BY <1>1, <2>1, <2>2, SameWorldKept DEF world
<1> QED BY <1>2, <1>3, <1>4, <1>5 DEF CliInv

LEMMA CliStep == CliInv /\ [CliNext]_cliVars => CliInv'
<1> SUFFICES ASSUME CliInv, [CliNext]_cliVars PROVE CliInv'
  OBVIOUS
<1>0. /\ CliShape /\ StateFile(aside) /\ StateFile(file) /\ LoopsInCommands
      /\ EmptyWorld /\ UNCHANGED vars => EmptyWorld'
  BY DEF CliInv, EmptyWorld, LiveRoutes, LivePackages, vars
<1>1. CASE UNCHANGED cliVars
  BY <1>0, <1>1, QuietStep DEF cliVars, CliShape, StateFile, LoopsInCommands, vars
<1>2. CASE StartEmpty
  <2>1. HoldsWorld(file)
    BY <1>0, <1>2 DEF StartEmpty, HoldsWorld, LoopsInCommands
  <2> QED BY <1>0, <1>2, <2>1, QuietStep DEF StartEmpty, CliShape, StateFile, LoopsInCommands, vars
<1>3. CASE StartDenied
  BY <1>0, <1>3, QuietStep DEF StartDenied, CliShape, StateFile, LoopsInCommands, vars
<1>4. CASE MoveAside
  <2>1. WorldInv'
    BY <1>4, WorldStep DEF CliInv, MoveAside
  <2>2. cli = "failed" /\ cli' = "down" /\ UNCHANGED <<vars, session, changed, behind, mutated>>
        /\ file' = NoFile /\ aside' = file
    BY <1>4 DEF MoveAside
  <2>3. CliShape' /\ StateFile(file)' /\ StateFile(aside)'
    BY <1>0, <2>2 DEF CliShape, StateFile
  <2>4. LoopsInCommands' /\ HeartbeatInPast' /\ FileHoldsWorld'
    BY <1>0, <2>2 DEF LoopsInCommands, HeartbeatInPast, FileHoldsWorld, vars
  <2> QED BY <2>1, <2>3, <2>4 DEF CliInv
<1>5. CASE Stop
  BY <1>5, StopInv
<1>6. CASE \E role \in Roles : Login(role)
  BY <1>0, <1>6, QuietStep DEF Login, CliShape, StateFile, LoopsInCommands, vars
<1>7. CASE Logout
  BY <1>0, <1>7, QuietStep DEF Logout, CliShape, StateFile, LoopsInCommands, vars
<1>8. CASE LoadAside
  BY <1>8, LoadAsideInv
<1>9. CASE EnterCommand
  BY <1>9, EnterCommandInv
<1>10. CASE HeartbeatStep
  BY <1>10, HeartbeatStepInv
<1>11. CASE Mutate
  BY <1>11, MutateInv
<1>12. CASE View
  BY <1>0, <1>12, QuietStep DEF View, PhaseAfter, CliShape, StateFile, LoopsInCommands, vars
<1>13. CASE CutShort
  BY <1>13, CutShortInv
<1>14. CASE Save \/ Autosave
  BY <1>14, SaveInv
<1>15. CASE AutosaveFails
  BY <1>0, <1>15, QuietStep DEF AutosaveFails, CliShape, StateFile, LoopsInCommands, vars
<1>16. CASE TimePasses
  BY <1>16, TimePassesInv
<1> QED BY <1>1, <1>2, <1>3, <1>4, <1>5, <1>6, <1>7, <1>8, <1>9, <1>10, <1>11, <1>12, <1>13, <1>14,
           <1>15, <1>16 DEF CliNext

-----------------------------------------------------------------------------
(* The theorems                                                            *)

\* The invariant of the process, through every start, stop, command, save and
\* load.
THEOREM CliInvHolds == CliSpec => []CliInv
BY CliInitInv, CliStep, PTL DEF CliSpec

\* main(), the engine and the operator keep the process, the session and both
\* files in their shapes.
THEOREM CliTypeCorrect == CliSpec => []CliTypeOK
<1>1. CliInv => CliTypeOK
  BY DEF CliInv, WorldInv, Inv, CliShape, StateFile, Written, CliTypeOK
<1> QED BY <1>1, CliInvHolds, PTL

\* Routes, trucks, packages and accounts of a running process agree and no
\* truck is overloaded, whatever was loaded and whenever it was started.
THEOREM CliWorldIsSound == CliSpec => [](LinksAgree /\ TruckNeverOverloaded)
<1>1. CliInv => LinksAgree /\ TruckNeverOverloaded
  BY DEF CliInv, WorldInv, Inv, LinksAgree
<1> QED BY <1>1, CliInvHolds, PTL

\* Whenever the process stops, in the middle of a batch too, the state file it
\* leaves and the one that was moved aside pass the validator of load_state.
THEOREM StateFilesLoad ==
  CliSpec => []((file # NoFile => ValidSnapshot(file)) /\ (aside # NoFile => ValidSnapshot(aside)))
<1>1. CliInv => (file # NoFile => ValidSnapshot(file)) /\ (aside # NoFile => ValidSnapshot(aside))
  BY DEF CliInv, StateFile, Written
<1> QED BY <1>1, CliInvHolds, PTL

\* At the prompt the file brings the world back unless an autosave failed with
\* a warning or an exception of _exec_line_in_context hit after the use case had
\* changed the world; one that hits earlier loses nothing, whatever the
\* heartbeat had changed.
THEOREM FileKeepsUp == CliSpec => []AutosaveKeepsUp
<1>1. CliInv => AutosaveKeepsUp
  <2> SUFFICES ASSUME CliInv, cli = "prompt", ~ behind
               PROVE  IF file = NoFile THEN LiveRoutes = {} /\ LivePackages = {}
                      ELSE ValidSnapshot(file) /\ Recovered(file) = Recovered(CurrentSnapshot)
    BY DEF AutosaveKeepsUp
  <2>2. HoldsWorld(file)
    BY DEF CliInv, FileHoldsWorld, LoopsInCommands
  <2>3. CASE file = NoFile
    BY <2>2, <2>3 DEF HoldsWorld, EmptyWorld
  <2>4. CASE file # NoFile
    <3>1. ValidSnapshot(file) /\ NamesTrucks(file)
      BY <2>4 DEF CliInv, StateFile, Written
    <3>2. NamesTrucks(CurrentSnapshot)
      BY SnapshotIsWritten DEF CliInv, WorldInv, Written
    <3>3. SameRecovery(file, CurrentSnapshot, clock)
      <4>1. clock \in Nat
        BY DEF CliInv, WorldInv, Inv, TypeOK, Times
      <4> QED BY <2>2, <2>4, <4>1 DEF HoldsWorld
    <3>4. \A t \in Trucks : LoadedTruck(file, t, clock) = LoadedTruck(CurrentSnapshot, t, clock)
      BY <3>1, <3>2, <3>3, RecoveredIsLoaded DEF SameRecovery
    <3>5. Recovered(file) = Recovered(CurrentSnapshot)
      BY <3>3, <3>4 DEF SameRecovery, Recovered
    <3> QED BY <2>4, <3>1, <3>5
  <2> QED BY <2>3, <2>4
<1> QED BY <1>1, CliInvHolds, PTL
=============================================================================
