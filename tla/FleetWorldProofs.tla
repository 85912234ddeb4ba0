-------------------------- MODULE FleetWorldProofs --------------------------
(***************************************************************************)
(* The world and its handlers, for every map, fleet and bound.             *)
(*                                                                         *)
(* With any clock: TypeOK, RouteTruckLinks, RoutePackageLinks, OwnerLinks, *)
(* TruckNeverOverloaded, TruckOnItsPath and TruckWaitsAtStart are          *)
(* invariants of Spec.  None of them is inductive alone.  Inv adds what    *)
(* the handlers' loops rely on: the route of a running batch is still in   *)
(* the repository, the heartbeat's remaining routes are, and identifiers   *)
(* are never reused.                                                       *)
(*                                                                         *)
(* With a clock that is not set back: no reconciliation fails, no          *)
(* lifecycle runs backwards, a route that has completed has delivered its  *)
(* packages, and FleetWorld implements the dispatcher's board.  All of it  *)
(* follows from one invariant, Timely: whatever a status says has          *)
(* happened, happened by the schedule, at an instant no later than the one *)
(* the handler in progress works with.  That cargo travels with its truck  *)
(* needs no such clock.                                                    *)
(*                                                                         *)
(* The first part states facts about the pure operators of FleetDomain     *)
(* that hold for every map, every path and every load.                     *)
(***************************************************************************)
EXTENDS FleetWorld, FiniteSetTheorems, WellFoundedInduction, TLAPS

(***************************************************************************)
(* Induction over the naturals in a form without an operator parameter: a  *)
(* set of naturals with 0 that is closed under successor is all of Nat.    *)
(***************************************************************************)
LEMMA SetInduction ==
  ASSUME NEW T \in SUBSET Nat, 0 \in T, \A n \in T : n + 1 \in T
  PROVE  T = Nat
<1> DEFINE R == OpToRel(<, Nat)
           U == Nat \ T
<1>1. SUFFICES ASSUME U # {} PROVE FALSE
  OBVIOUS
<1>2. \A y, z \in Nat : y < z => <<y, z>> \in R
  BY Zenon DEF OpToRel
<1>3. IsWellFoundedOn(R, Nat)
  BY NatLessThanWellFounded
<1> HIDE DEF R
<1>4. PICK x \in U : \A y \in U : ~ (<<y, x>> \in R)
  <2>1. U \subseteq Nat
    OBVIOUS
  <2> HIDE DEF U
  <2> QED BY <1>1, <1>3, <2>1, WFMin
<1>5. x # 0 /\ x - 1 \in Nat /\ x - 1 < x
  OBVIOUS
<1>6. x - 1 \in U
  <2>1. ASSUME x - 1 \in T PROVE FALSE
    <3>1. (x - 1) + 1 \in T
      BY <2>1
    <3> QED BY <3>1
  <2> QED BY <1>5, <2>1
<1> QED BY <1>2, <1>4, <1>5, <1>6

-----------------------------------------------------------------------------
(* Schedules                                                               *)

\* The equation that the recursive definition of a schedule's offsets solves.
OffsetEquation(path, f, n) ==
    f = [i \in 1..n |-> IF i = 1 THEN 0 ELSE f[i - 1] + Leg(path, i)]

(***************************************************************************)
(* RouteScheduler.build is well defined: for every path there is exactly   *)
(* the list of offsets its loop computes.                                  *)
(***************************************************************************)
LEMMA OffsetsExist ==
  ASSUME NEW path
  PROVE  \A n \in Nat : \E f : OffsetEquation(path, f, n)
<1> DEFINE T == {n \in Nat : \E f : OffsetEquation(path, f, n)}
<1>1. 0 \in T
  <2>1. OffsetEquation(path, [i \in 1..0 |-> 0], 0)
    BY DEF OffsetEquation
  <2> QED BY <2>1
<1>2. \A n \in T : n + 1 \in T
  <2> SUFFICES ASSUME NEW n \in Nat, NEW f, OffsetEquation(path, f, n)
      PROVE  \E g : OffsetEquation(path, g, n + 1)
    OBVIOUS
  <2> DEFINE g == [i \in 1..(n + 1) |->
                     IF i = 1 THEN 0 ELSE f[i - 1] + Leg(path, i)]
  <2>1. \A i \in 1..n : f[i] = g[i]
    BY DEF OffsetEquation
  <2>2. \A i \in 1..(n + 1) : g[i] = IF i = 1 THEN 0 ELSE g[i - 1] + Leg(path, i)
    <3> SUFFICES ASSUME NEW i \in 1..(n + 1), i # 1 PROVE g[i] = g[i - 1] + Leg(path, i)
      OBVIOUS
    <3>1. i - 1 \in 1..n
      OBVIOUS
    <3>2. f[i - 1] = g[i - 1]
      BY <2>1, <3>1
    <3> HIDE DEF g
    <3> QED BY <3>2 DEF g
  <2>3. OffsetEquation(path, g, n + 1)
    BY <2>2 DEF OffsetEquation
  <2> QED BY <2>3
<1> HIDE DEF T
<1>3. T = Nat
  BY <1>1, <1>2, SetInduction DEF T
<1> QED BY <1>3 DEF T

LEMMA OffsetsDef ==
  ASSUME NEW path, Len(path) \in Nat
  PROVE  OffsetEquation(path, StopOffsets(path), Len(path))
<1>1. \E f : OffsetEquation(path, f, Len(path))
  BY OffsetsExist
<1>2. StopOffsets(path) = CHOOSE f : OffsetEquation(path, f, Len(path))
  BY DEF StopOffsets, OffsetEquation
<1> QED BY <1>1, <1>2

LEMMA PathFacts ==
  ASSUME NEW path, IsRoutePath(path)
  PROVE  /\ Len(path) \in Nat
         /\ Len(path) >= 2
         /\ \A i \in 1..Len(path) : path[i] \in Cities
         /\ \A i \in 2..Len(path) : Leg(path, i) \in Nat /\ Leg(path, i) > 0
<1>1. Len(path) \in Nat /\ Len(path) >= 2 /\ \A i \in 1..Len(path) : path[i] \in Cities
  BY DEF IsRoutePath
<1>2. ASSUME NEW i \in 2..Len(path) PROVE Leg(path, i) \in Nat /\ Leg(path, i) > 0
  <2>1. i \in 1..Len(path) /\ i - 1 \in 1..Len(path) /\ i # i - 1
    BY <1>1
  <2>2. path[i] \in Cities /\ path[i - 1] \in Cities /\ path[i] # path[i - 1]
    BY <1>1, <2>1 DEF IsRoutePath
  <2> QED BY <2>2, DistanceAssumption DEF Leg
<1> QED BY <1>1, <1>2

\* The first stop is reached at departure, each later one a leg after the one
\* before it.
LEMMA OffsetSteps ==
  ASSUME NEW path, IsRoutePath(path)
  PROVE  /\ StopOffsets(path)[1] = 0
         /\ \A i \in 2..Len(path) :
               StopOffsets(path)[i] = StopOffsets(path)[i - 1] + Leg(path, i)
<1>1. OffsetEquation(path, StopOffsets(path), Len(path)) /\ Len(path) \in Nat /\ Len(path) >= 2
  BY PathFacts, OffsetsDef
<1> QED BY <1>1 DEF OffsetEquation

(***************************************************************************)
(* Arrival times are natural numbers, whatever the map and the path.       *)
(***************************************************************************)
LEMMA OffsetsType ==
  ASSUME NEW path, IsRoutePath(path)
  PROVE  \A i \in 1..Len(path) : StopOffsets(path)[i] \in Nat
<1> DEFINE T == {n \in Nat : n + 1 \in 1..Len(path) => StopOffsets(path)[n + 1] \in Nat}
<1>1. Len(path) \in Nat
  BY PathFacts
<1>2. 0 \in T
  BY OffsetSteps
<1>3. \A n \in T : n + 1 \in T
  <2> SUFFICES ASSUME NEW n \in T, n + 2 \in 1..Len(path) PROVE StopOffsets(path)[n + 2] \in Nat
    OBVIOUS
  <2>1. n + 1 \in 1..Len(path) /\ n + 2 \in 2..Len(path) /\ (n + 2) - 1 = n + 1
    BY <1>1
  <2>2. StopOffsets(path)[n + 1] \in Nat
    BY <2>1
  <2>3. StopOffsets(path)[n + 2] = StopOffsets(path)[(n + 2) - 1] + Leg(path, n + 2)
    BY <2>1, OffsetSteps
  <2>4. Leg(path, n + 2) \in Nat
    BY <2>1, PathFacts
  <2> QED BY <2>1, <2>2, <2>3, <2>4
<1> HIDE DEF T
<1>4. T = Nat
  BY <1>2, <1>3, SetInduction DEF T
<1>5. ASSUME NEW i \in 1..Len(path) PROVE StopOffsets(path)[i] \in Nat
  <2>1. i - 1 \in T /\ (i - 1) + 1 = i
    BY <1>4, <1>1
  <2> QED BY <2>1 DEF T
<1> QED BY <1>5


(***************************************************************************)
(* A truck reaches its stops strictly in the order of the path.            *)
(***************************************************************************)
THEOREM StopsInOrder ==
  ASSUME NEW path, IsRoutePath(path)
  PROVE  \A i, j \in 1..Len(path) : i < j => StopOffsets(path)[i] < StopOffsets(path)[j]
<1> DEFINE off(i) == StopOffsets(path)[i]
           T == {d \in Nat : \A i \in 1..Len(path) :
                    i + d + 1 \in 1..Len(path) => off(i) < off(i + d + 1)}
<1>1. Len(path) \in Nat
  BY PathFacts
<1>2. \A i \in 1..Len(path) : off(i) \in Nat
  BY OffsetsType
<1>3. \A i \in 1..Len(path) : i + 1 \in 1..Len(path) => off(i) < off(i + 1)
  <2> SUFFICES ASSUME NEW i \in 1..Len(path), i + 1 \in 1..Len(path) PROVE off(i) < off(i + 1)
    OBVIOUS
  <2>1. i + 1 \in 2..Len(path) /\ (i + 1) - 1 = i
    BY <1>1
  <2>2. off(i + 1) = off((i + 1) - 1) + Leg(path, i + 1)
    BY <2>1, OffsetSteps
  <2>3. Leg(path, i + 1) \in Nat /\ Leg(path, i + 1) > 0
    BY <2>1, PathFacts
  <2> HIDE DEF off
  <2> QED BY <1>2, <2>1, <2>2, <2>3
<1> HIDE DEF off
<1>4. 0 \in T
  BY <1>3
<1>5. \A d \in T : d + 1 \in T
  <2> SUFFICES ASSUME NEW d \in T PROVE d + 1 \in T
    OBVIOUS
  <2> SUFFICES ASSUME NEW i \in 1..Len(path), i + (d + 1) + 1 \in 1..Len(path)
      PROVE  off(i) < off(i + (d + 1) + 1)
    OBVIOUS
  <2>1. i + d + 1 \in 1..Len(path) /\ (i + d + 1) + 1 = i + (d + 1) + 1
    BY <1>1
  <2>2. off(i) < off(i + d + 1)
    BY <2>1
  <2>3. off(i + d + 1) < off((i + d + 1) + 1)
    BY <1>3, <2>1
  <2>4. off(i) \in Nat /\ off(i + d + 1) \in Nat /\ off((i + d + 1) + 1) \in Nat
    BY <1>2, <2>1
  <2> QED BY <2>1, <2>2, <2>3, <2>4
<1> HIDE DEF T
<1>6. T = Nat
  BY <1>4, <1>5, SetInduction DEF T
<1>7. ASSUME NEW i \in 1..Len(path), NEW j \in 1..Len(path), i < j
      PROVE  off(i) < off(j)
  <2>1. j - i - 1 \in T /\ i + (j - i - 1) + 1 = j
    BY <1>1, <1>6, <1>7
  <2> QED BY <2>1 DEF T
<1> QED BY <1>7 DEF off

LEMMA PathIndexFacts ==
  ASSUME NEW path, IsRoutePath(path)
  PROVE  /\ \A city : OnPath(path, city) =>
               PathIndex(path, city) \in 1..Len(path) /\ path[PathIndex(path, city)] = city
         /\ \A i \in 1..Len(path) : OnPath(path, path[i]) /\ PathIndex(path, path[i]) = i
<1>1. ASSUME NEW city, OnPath(path, city)
      PROVE  PathIndex(path, city) \in 1..Len(path) /\ path[PathIndex(path, city)] = city
  BY <1>1 DEF OnPath, PathIndex
<1>2. ASSUME NEW i \in 1..Len(path)
      PROVE  OnPath(path, path[i]) /\ PathIndex(path, path[i]) = i
  <2>1. OnPath(path, path[i])
    BY DEF OnPath
  <2> QED BY <1>1, <2>1 DEF IsRoutePath
<1> QED BY <1>1, <1>2

LEMMA ArrivalTimeType ==
  ASSUME NEW path, IsRoutePath(path), NEW dep \in Nat
  PROVE  /\ \A city : OnPath(path, city) => ArrivalTimeAt(path, dep, city) \in Nat
         /\ EtaFinal(path, dep) \in Nat
         /\ EtaFinal(path, dep) = ArrivalTimeAt(path, dep, End(path))
         /\ TotalDistance(path) \in Nat
<1>1. Len(path) \in Nat /\ Len(path) \in 1..Len(path)
  BY PathFacts
<1>2. \A i \in 1..Len(path) : StopOffsets(path)[i] \in Nat
  BY OffsetsType
<1>3. ASSUME NEW city, OnPath(path, city) PROVE ArrivalTimeAt(path, dep, city) \in Nat
  BY <1>2, <1>3, PathIndexFacts DEF ArrivalTimeAt
<1>4. TotalDistance(path) \in Nat
  BY <1>1, <1>2 DEF TotalDistance
<1>5. dep # None
  BY NoneAssumption
<1>6. PathIndex(path, End(path)) = Len(path)
  BY <1>1, PathIndexFacts DEF End
<1> QED BY <1>3, <1>4, <1>5, <1>6 DEF EtaFinal, ArrivalTimeAt, TotalDistance

(***************************************************************************)
(* Position of a route                                                     *)
(***************************************************************************)
LEMMA PositionKinds ==
  ASSUME NEW path, IsRoutePath(path), NEW dep \in Nat \cup {None}, NEW now \in Nat
  PROVE  LET position == PositionAt(path, dep, now)
         IN  \/ /\ position.kind = "IN_TRANSIT"
                /\ \E i \in 1..(Len(path) - 1) : position.from = path[i] /\ position.to = path[i + 1]
             \/ /\ position.kind \in {"UNSCHEDULED", "BEFORE_START", "AT_STOP", "AFTER_END"}
                /\ \E i \in 1..Len(path) : position.stop = path[i]
<1> DEFINE stops == StopsReachedAt(path, dep, now)
           legs == LegsUnderWayAt(path, dep, now)
           P == PositionAt(path, dep, now)
<1>1. Len(path) \in Nat /\ 1 \in 1..Len(path) /\ Len(path) \in 1..Len(path)
  BY PathFacts
<1>a. stops \subseteq 1..Len(path) /\ legs \subseteq 1..(Len(path) - 1)
  BY <1>1 DEF StopsReachedAt, LegsUnderWayAt
<1>2. CASE dep = None
  <2>1. P = Standing("UNSCHEDULED", Start(path))
    BY <1>2 DEF PositionAt
  <2> QED BY <1>1, <2>1 DEF Start, Standing
<1>3. CASE dep # None /\ now < dep
  <2>1. P = Standing("BEFORE_START", Start(path))
    BY <1>3 DEF PositionAt
  <2> QED BY <1>1, <2>1 DEF Start, Standing
<1>4. CASE dep # None /\ ~ (now < dep) /\ stops # {}
  <2> DEFINE i == CHOOSE k \in stops : TRUE
  <2>1. P = Standing("AT_STOP", path[i])
    BY <1>4 DEF PositionAt
  <2>2. i \in stops
    BY <1>4
  <2> HIDE DEF i
  <2> QED BY <1>a, <2>1, <2>2 DEF Standing
<1>5. CASE dep # None /\ ~ (now < dep) /\ stops = {} /\ legs # {}
  <2> DEFINE i == CHOOSE k \in legs : TRUE
  <2>1. P = Driving(path[i], path[i + 1])
    BY <1>5 DEF PositionAt
  <2>2. i \in legs
    BY <1>5
  <2> HIDE DEF i
  <2> QED BY <1>a, <2>1, <2>2 DEF Driving
<1>6. CASE dep # None /\ ~ (now < dep) /\ stops = {} /\ legs = {}
  <2>1. P = Standing("AFTER_END", End(path))
    BY <1>6 DEF PositionAt
  <2> QED BY <1>1, <2>1 DEF End, Standing
<1> QED BY <1>2, <1>3, <1>4, <1>5, <1>6


LEMMA LargestExists ==
  ASSUME NEW n \in Nat, NEW S \in SUBSET (1..n), S # {}
  PROVE  \E i \in S : \A j \in S : j <= i
<1> DEFINE T == {m \in Nat : \A S0 \in SUBSET (1..m) : S0 # {} => \E i \in S0 : \A j \in S0 : j <= i}
<1>1. 0 \in T
  <2>1. 1..0 = {}
    OBVIOUS
  <2>2. \A S0 \in SUBSET (1..0) : S0 = {}
    BY <2>1
  <2> QED BY <2>2
<1>2. \A m \in T : m + 1 \in T
  <2> SUFFICES ASSUME NEW m \in T PROVE m + 1 \in T
    OBVIOUS
  <2> SUFFICES ASSUME NEW S0 \in SUBSET (1..(m + 1)), S0 # {}
      PROVE  \E i \in S0 : \A j \in S0 : j <= i
    OBVIOUS
  <2>1. CASE m + 1 \in S0
    <3>1. \A j \in S0 : j <= m + 1
      OBVIOUS
    <3> QED BY <2>1, <3>1
  <2>2. CASE m + 1 \notin S0
    <3>1. S0 \in SUBSET (1..m)
      BY <2>2
    <3> QED BY <3>1
  <2> QED BY <2>1, <2>2
<1> HIDE DEF T
<1>3. T = Nat
  BY <1>1, <1>2, SetInduction DEF T
<1>4. n \in T
  BY <1>3
<1> QED BY <1>4 DEF T

\* A package under way is at a stop of its route.
LEMMA LastReachedCityOnPath ==
  ASSUME NEW path, IsRoutePath(path), NEW dep, NEW from, NEW to, NEW now,
         OnPath(path, from), OnPath(path, to)
  PROVE  OnPath(path, LastReachedCity(path, dep, from, to, now))
<1> DEFINE reached == {i \in PathIndex(path, from)..PathIndex(path, to) :
                         \A j \in PathIndex(path, from)..i : StopTime(path, dep, j) <= now}
           last == CHOOSE i \in reached : \A j \in reached : j <= i
<1>1. PathIndex(path, from) \in 1..Len(path) /\ PathIndex(path, to) \in 1..Len(path) /\ Len(path) \in Nat
  BY PathIndexFacts, PathFacts
<1>2. reached \in SUBSET (1..Len(path))
  BY <1>1
<1>3. LastReachedCity(path, dep, from, to, now) = IF reached = {} THEN from ELSE path[last]
  BY DEF LastReachedCity
<1>4. CASE reached = {}
  BY <1>3, <1>4
<1>5. CASE reached # {}
  <2> HIDE DEF reached
  <2>1. \E i \in reached : \A j \in reached : j <= i
    BY <1>1, <1>2, <1>5, LargestExists
  <2>2. last \in reached
    BY <2>1
  <2> HIDE DEF last
  <2> QED BY <1>2, <1>3, <1>5, <2>2 DEF OnPath
<1> QED BY <1>4, <1>5

-----------------------------------------------------------------------------
(* Loads                                                                   *)

LEMMA LoadFinite ==
  ASSUME NEW path, NEW parcels, NEW ids, IsFiniteSet(ids), NEW i
  PROVE  /\ IsFiniteSet(LoadUnits(path, parcels, ids, i))
         /\ SegmentLoad(path, parcels, ids, i) \in Nat
<1>1. IsFiniteSet(1..MaxWeight)
  BY FS_Interval, MaxWeightAssumption
<1>2. IsFiniteSet(ids \X (1..MaxWeight))
  BY <1>1, FS_Product
<1>3. LoadUnits(path, parcels, ids, i) \subseteq ids \X (1..MaxWeight)
  BY DEF LoadUnits
<1>4. IsFiniteSet(LoadUnits(path, parcels, ids, i))
  BY <1>2, <1>3, FS_Subset
<1> QED BY <1>4, FS_CardinalityType DEF SegmentLoad

(***************************************************************************)
(* Taking packages off a route never raises the load of a segment, and the *)
(* load depends on nothing but the packages on the route.                  *)
(***************************************************************************)
THEOREM UnloadingNeverOverloads ==
  ASSUME NEW path, NEW parcels, NEW parcels2, NEW ids, IsFiniteSet(ids), NEW fewer \in SUBSET ids,
         \A p \in fewer : /\ parcels2[p].start = parcels[p].start
                          /\ parcels2[p].end = parcels[p].end
                          /\ parcels2[p].weight = parcels[p].weight,
         NEW capacity \in Nat,
         MaximumSegmentLoadWithin(path, parcels, ids, capacity)
  PROVE  MaximumSegmentLoadWithin(path, parcels2, fewer, capacity)
<1> SUFFICES ASSUME NEW i \in 1..(Len(path) - 1)
    PROVE  SegmentLoad(path, parcels2, fewer, i) <= capacity
  BY DEF MaximumSegmentLoadWithin
<1>1. LoadUnits(path, parcels2, fewer, i) \subseteq LoadUnits(path, parcels, ids, i)
  <2> SUFFICES ASSUME NEW p \in fewer, NEW k \in 1..MaxWeight,
                      RidesOn(path, parcels2[p], i), k <= parcels2[p].weight
      PROVE  RidesOn(path, parcels[p], i) /\ k <= parcels[p].weight
    BY DEF LoadUnits
  <2> QED BY DEF RidesOn
<1>2. SegmentLoad(path, parcels2, fewer, i) <= SegmentLoad(path, parcels, ids, i)
  BY <1>1, LoadFinite, FS_Subset DEF SegmentLoad
<1>3. SegmentLoad(path, parcels, ids, i) <= capacity
  BY DEF MaximumSegmentLoadWithin
<1>4. SegmentLoad(path, parcels, ids, i) \in Nat
  BY LoadFinite
<1>5. SegmentLoad(path, parcels2, fewer, i) \in Nat
  <2>1. IsFiniteSet(fewer)
    BY FS_Subset
  <2> QED BY <2>1, LoadFinite
<1> QED BY <1>2, <1>3, <1>4, <1>5

-----------------------------------------------------------------------------

\* What a running loop still holds is still in the repositories.
JobOK ==
    /\ job.kind = "idle" => job.todo = {}
    /\ job.kind = "assign" => job.route \in LiveRoutes /\ job.todo \subseteq PackageIds
    /\ job.kind = "heartbeat" => job.todo \subseteq LiveRoutes

\* The repositories hold nothing under an identifier not handed out yet.
FreshIds ==
    /\ \A r \in RouteIds : r >= nextRouteId => routes[r] = NoRoute
    /\ \A p \in PackageIds : p >= nextPackageId => packages[p] = NoPackage

Inv ==
    /\ TypeOK
    /\ JobOK
    /\ FreshIds
    /\ RouteTruckLinks
    /\ RoutePackageLinks
    /\ TruckNeverOverloaded
    /\ TruckOnItsPath

LEMMA LiveRouteFacts ==
  ASSUME TypeOK, NEW r \in LiveRoutes
  PROVE  /\ r \in RouteIds
         /\ routes[r] \in Route
         /\ routes[r].path \in Paths
         /\ IsRoutePath(routes[r].path)
         /\ IsFiniteSet(routes[r].pkgs)
<1>1. r \in RouteIds /\ routes[r] \in Route
  BY DEF LiveRoutes, TypeOK
<1>2. routes[r].path \in Paths /\ routes[r].pkgs \in SUBSET PackageIds
  BY <1>1 DEF Route
<1>3. IsFiniteSet(PackageIds)
  BY FS_Interval, BoundAssumption DEF PackageIds
<1> QED BY <1>1, <1>2, <1>3, FS_Subset, PathsAssumption

LEMMA InitInv == Init => Inv
<1> SUFFICES ASSUME Init PROVE Inv
  OBVIOUS
<1> USE DEF Init
<1>1. LiveRoutes = {} /\ LivePackages = {}
  BY DEF LiveRoutes, LivePackages
<1>2. TypeOK
  <2>1. job \in Job
    BY DEF Idle, Job, Times
  <2>2. trucks \in [Trucks -> Truck]
    BY FleetAssumption DEF FreeTruck, Truck, TruckStatus, OptionalTime
  <2>3. nextRouteId \in 1..(MaxRoutes + 1) /\ nextPackageId \in 1..(MaxPackages + 1)
    BY BoundAssumption
  <2> QED BY <2>1, <2>2, <2>3 DEF TypeOK, Times
<1>3. JobOK
  BY DEF JobOK, Idle
<1>4. FreshIds
  BY DEF FreshIds
<1>5. RouteTruckLinks
  BY <1>1 DEF RouteTruckLinks, FreeTruck
<1>6. RoutePackageLinks /\ TruckNeverOverloaded
  BY <1>1 DEF RoutePackageLinks, TruckNeverOverloaded
<1>7. TruckOnItsPath
  BY DEF TruckOnItsPath, FreeTruck
<1> QED BY <1>2, <1>3, <1>4, <1>5, <1>6, <1>7 DEF Inv

-----------------------------------------------------------------------------
(* Steps that leave the three repositories alone                           *)

Links == RouteTruckLinks /\ RoutePackageLinks /\ TruckNeverOverloaded /\ TruckOnItsPath

LEMMA LinksUnchanged ==
  ASSUME Links, UNCHANGED <<routes, packages, trucks>>
  PROVE  Links' /\ LiveRoutes' = LiveRoutes /\ LivePackages' = LivePackages
BY DEF Links, RouteTruckLinks, RoutePackageLinks, TruckNeverOverloaded, TruckOnItsPath,
       LiveRoutes, LivePackages

LEMMA LoopAfterType ==
  ASSUME TypeOK, JobOK, NEW x
  PROVE  /\ LoopAfter(x) \in Job
         /\ LoopAfter(x).kind = "idle" => LoopAfter(x).todo = {}
         /\ LoopAfter(x).kind # "idle" =>
              /\ LoopAfter(x).kind = job.kind
              /\ LoopAfter(x).route = job.route
              /\ LoopAfter(x).now = job.now
              /\ LoopAfter(x).todo \subseteq job.todo
<1>1. job \in Job
  BY DEF TypeOK
<1>2. CASE job.todo = {x}
  BY <1>1, <1>2 DEF LoopAfter, Idle, Job, Times
<1>3. CASE job.todo # {x}
  <2>1. LoopAfter(x) = [kind |-> job.kind, now |-> job.now, route |-> job.route, todo |-> job.todo \ {x}]
    BY <1>1, <1>3 DEF LoopAfter, Job
  <2> QED BY <1>1, <2>1 DEF Job, JobOK
<1> QED BY <1>2, <1>3

LEMMA TickInv ==
  ASSUME Inv, Tick PROVE Inv'
<1>1. TypeOK'
  BY DEF Inv, TypeOK, Tick, Times
<1>2. JobOK' /\ FreshIds'
  BY LinksUnchanged DEF Inv, Tick, JobOK, FreshIds, Links, LiveRoutes
<1> QED BY <1>1, <1>2, LinksUnchanged DEF Inv, Links, Tick

LEMMA SetClockBackInv ==
  ASSUME Inv, NEW by \in 1..MaxClockBack, SetClockBack(by) PROVE Inv'
<1>1. TypeOK'
  BY BoundAssumption DEF Inv, TypeOK, SetClockBack, Times
<1>2. JobOK' /\ FreshIds'
  BY LinksUnchanged DEF Inv, SetClockBack, JobOK, FreshIds, Links, LiveRoutes
<1> QED BY <1>1, <1>2, LinksUnchanged DEF Inv, Links, SetClockBack

LEMMA AssignPackagesToRouteInv ==
  ASSUME Inv, NEW r \in RouteIds, NEW ids \in SUBSET PackageIds, AssignPackagesToRoute(r, ids)
  PROVE  Inv'
<1> USE DEF AssignPackagesToRoute
<1>1. job' \in Job /\ JobOK'
  BY LinksUnchanged DEF Inv, TypeOK, Job, JobOK, Links, LiveRoutes
<1>2. TypeOK' /\ FreshIds'
  BY <1>1 DEF Inv, TypeOK, FreshIds
<1> QED BY <1>1, <1>2, LinksUnchanged DEF Inv, Links

LEMMA SkipPackageInv ==
  ASSUME Inv, NEW p \in PackageIds, SkipPackage(p)
  PROVE  Inv'
<1> USE DEF SkipPackage
<1>1. job' \in Job /\ JobOK'
  BY LinksUnchanged, LoopAfterType DEF Inv, JobOK, Links
<1>2. TypeOK' /\ FreshIds'
  BY <1>1 DEF Inv, TypeOK, FreshIds
<1> QED BY <1>1, <1>2, LinksUnchanged DEF Inv, Links

LEMMA HeartbeatInv ==
  ASSUME Inv, Heartbeat PROVE Inv'
<1> USE DEF Heartbeat
<1>1. job' \in Job
  BY DEF Inv, TypeOK, Job, Idle, LiveRoutes, Times
<1>2. JobOK'
  BY LinksUnchanged DEF Inv, JobOK, Links, Idle
<1>3. TypeOK' /\ FreshIds'
  BY <1>1 DEF Inv, TypeOK, FreshIds
<1> QED BY <1>2, <1>3, LinksUnchanged DEF Inv, Links

LEMMA ReconcileRouteFailsInv ==
  ASSUME Inv, NEW r \in RouteIds, ReconcileRouteFails(r)
  PROVE  Inv'
<1> USE DEF ReconcileRouteFails, NextInLoop
<1>1. job' \in Job /\ JobOK'
  BY LinksUnchanged, LoopAfterType DEF Inv, JobOK, Links
<1>2. TypeOK' /\ FreshIds'
  BY <1>1 DEF Inv, TypeOK, FreshIds
<1> QED BY <1>1, <1>2, LinksUnchanged DEF Inv, Links


-----------------------------------------------------------------------------
(* Creating routes and packages                                            *)

LEMMA CreateRouteInv ==
  ASSUME Inv, NEW path \in Paths, NEW dep \in Departures, CreateRoute(path, dep)
  PROVE  Inv'
<1> DEFINE n == nextRouteId
           N == [path |-> path, dep |-> dep,
                 status |-> IF dep = None THEN "PLANNED" ELSE "SCHEDULED",
                 truck |-> None, pkgs |-> {}]
<1>1. n \in RouteIds /\ routes[n] = NoRoute
  BY BoundAssumption DEF Inv, FreshIds, CreateRoute, RouteIds
<1>2. N \in Route
  BY DeparturesAssumption DEF Route, RouteStatus, OptionalTime, Times
<1>3. N # NoRoute
  BY <1>2, SentinelAssumption
<1>4. /\ routes' = [routes EXCEPT ![n] = N]
      /\ nextRouteId' = n + 1
      /\ UNCHANGED <<clock, packages, trucks, nextPackageId, accounts, job>>
  BY DEF CreateRoute
<1> HIDE DEF N
<1>5. LiveRoutes' = LiveRoutes \cup {n} /\ n \notin LiveRoutes /\ LivePackages' = LivePackages
  BY <1>1, <1>3, <1>4 DEF LiveRoutes, LivePackages, Inv, TypeOK
<1>6. \A r \in LiveRoutes : r \in RouteIds /\ r # n /\ routes'[r] = routes[r]
  BY <1>4, <1>5 DEF LiveRoutes, Inv, TypeOK
<1>7. routes'[n] = N
  BY <1>1, <1>4 DEF Inv, TypeOK
<1>8. TypeOK'
  <2>1. nextRouteId' \in 1..(MaxRoutes + 1)
    BY <1>1, <1>4, BoundAssumption DEF RouteIds
  <2> QED BY <1>1, <1>2, <1>4, <2>1 DEF Inv, TypeOK
<1>9. JobOK'
  BY <1>4, <1>5 DEF Inv, JobOK
<1>10. FreshIds'
  <2>1. \A r \in RouteIds : r >= n + 1 => routes'[r] = NoRoute
    BY <1>1, <1>4 DEF Inv, FreshIds, TypeOK, RouteIds
  <2> QED BY <1>4, <2>1 DEF Inv, FreshIds
<1>11. N.truck = None /\ N.pkgs = {}
  BY DEF N
<1>12. RouteTruckLinks'
  BY <1>4, <1>5, <1>6, <1>7, <1>11 DEF Inv, RouteTruckLinks
<1>13. RoutePackageLinks'
  BY <1>4, <1>5, <1>6, <1>7, <1>11 DEF Inv, RoutePackageLinks
<1>14. TruckNeverOverloaded'
  BY <1>4, <1>5, <1>6, <1>7, <1>11 DEF Inv, TruckNeverOverloaded
<1>15. TruckOnItsPath'
  <2>1. \A t \in Trucks : trucks[t].route # None => trucks[t].route \in LiveRoutes
    BY DEF Inv, RouteTruckLinks
  <2> QED BY <1>4, <1>6, <2>1 DEF Inv, TruckOnItsPath
<1> QED BY <1>8, <1>9, <1>10, <1>12, <1>13, <1>14, <1>15 DEF Inv

LEMMA CreatePackageInv ==
  ASSUME Inv, NEW parcel \in Parcels, NEW c \in Customers, CreatePackage(parcel, c)
  PROVE  Inv'
<1> DEFINE n == nextPackageId
           N == [start |-> parcel.start, end |-> parcel.end, weight |-> parcel.weight,
                 customer |-> c, route |-> None, status |-> "TODO", loc |-> parcel.start,
                 eta |-> None]
<1>1. n \in PackageIds /\ packages[n] = NoPackage
  BY BoundAssumption DEF Inv, FreshIds, CreatePackage, PackageIds
<1>2. N \in Package
  BY ParcelsAssumption DEF Package, ItemStatus, OptionalTime
<1>3. N # NoPackage
  BY <1>2, SentinelAssumption
<1>4. /\ packages' = [packages EXCEPT ![n] = N]
      /\ nextPackageId' = n + 1
      /\ accounts' = [accounts EXCEPT ![c] = @ \cup {n}]
      /\ UNCHANGED <<clock, routes, trucks, nextRouteId, job>>
  BY DEF CreatePackage
<1>a. N.route = None /\ N.status = "TODO" /\ N.loc = N.start /\ N.eta = None
  OBVIOUS
<1> HIDE DEF N
<1>5. LivePackages' = LivePackages \cup {n} /\ n \notin LivePackages /\ LiveRoutes' = LiveRoutes
  BY <1>1, <1>3, <1>4 DEF LiveRoutes, LivePackages, Inv, TypeOK
<1>6. \A p \in LivePackages : p \in PackageIds /\ p # n /\ packages'[p] = packages[p]
  BY <1>4, <1>5 DEF LivePackages, Inv, TypeOK
<1>7. packages'[n] = N
  BY <1>1, <1>4 DEF Inv, TypeOK
<1>8. TypeOK'
  <2>1. nextPackageId' \in 1..(MaxPackages + 1)
    BY <1>1, <1>4, BoundAssumption DEF PackageIds
  <2> QED BY <1>1, <1>2, <1>4, <2>1 DEF Inv, TypeOK
<1>9. JobOK'
  BY <1>4, <1>5 DEF Inv, JobOK
<1>10. FreshIds'
  <2>1. \A p \in PackageIds : p >= n + 1 => packages'[p] = NoPackage
    BY <1>1, <1>4 DEF Inv, FreshIds, TypeOK, PackageIds
  <2> QED BY <1>4, <2>1 DEF Inv, FreshIds
<1>12. RouteTruckLinks' /\ TruckOnItsPath'
  BY <1>4, <1>5 DEF Inv, RouteTruckLinks, TruckOnItsPath
<1>13. RoutePackageLinks'
  BY <1>4, <1>5, <1>6, <1>7, <1>a DEF Inv, RoutePackageLinks
<1>14. TruckNeverOverloaded'
  <2> SUFFICES ASSUME NEW r \in LiveRoutes, routes[r].truck # None
      PROVE  /\ MaximumSegmentLoadWithin(routes[r].path, packages', routes[r].pkgs, Capacity[routes[r].truck])
             /\ TotalDistance(routes[r].path) <= MaxRange[routes[r].truck]
    BY <1>4, <1>5 DEF TruckNeverOverloaded
  <2>1. /\ MaximumSegmentLoadWithin(routes[r].path, packages, routes[r].pkgs, Capacity[routes[r].truck])
        /\ TotalDistance(routes[r].path) <= MaxRange[routes[r].truck]
    BY DEF Inv, TruckNeverOverloaded
  <2>2. \A p \in routes[r].pkgs : packages'[p] = packages[p]
    BY <1>6 DEF Inv, RoutePackageLinks
  <2>3. routes[r] \in Route /\ IsFiniteSet(routes[r].pkgs)
    BY LiveRouteFacts DEF Inv
  <2>4. Capacity[routes[r].truck] \in Nat
    BY <2>3, FleetAssumption DEF Route
  <2> QED BY <2>1, <2>2, <2>3, <2>4, UnloadingNeverOverloads
<1> QED BY <1>8, <1>9, <1>10, <1>12, <1>13, <1>14 DEF Inv


-----------------------------------------------------------------------------
(* Assigning packages and trucks                                           *)

\* A parcel keeps what its load depends on.
SameParcel(q1, q2) == q1.start = q2.start /\ q1.end = q2.end /\ q1.weight = q2.weight

\* A route that keeps its path and truck and gains no package is still within
\* the limits of its truck.
LEMMA LoadKept ==
  ASSUME Inv, NEW r \in LiveRoutes, routes'[r].truck # None,
         routes'[r].truck = routes[r].truck, routes'[r].path = routes[r].path,
         routes'[r].pkgs \subseteq routes[r].pkgs,
         \A p \in routes'[r].pkgs : SameParcel(packages'[p], packages[p])
  PROVE  /\ MaximumSegmentLoadWithin(routes'[r].path, packages', routes'[r].pkgs, Capacity[routes'[r].truck])
         /\ TotalDistance(routes'[r].path) <= MaxRange[routes'[r].truck]
<1>1. /\ MaximumSegmentLoadWithin(routes[r].path, packages, routes[r].pkgs, Capacity[routes[r].truck])
      /\ TotalDistance(routes[r].path) <= MaxRange[routes[r].truck]
  BY DEF Inv, TruckNeverOverloaded
<1>2. routes[r] \in Route /\ IsFiniteSet(routes[r].pkgs)
  BY LiveRouteFacts DEF Inv
<1>3. Capacity[routes[r].truck] \in Nat
  BY <1>2, FleetAssumption DEF Route
<1> QED BY <1>1, <1>2, <1>3, UnloadingNeverOverloads DEF SameParcel

LEMMA AssignPackageInv ==
  ASSUME Inv, NEW p \in PackageIds, AssignPackage(p)
  PROVE  Inv'
<1> DEFINE r == job.route
           R == routes[r]
           q == packages[p]
           eta == IF R.dep = None THEN q.eta ELSE ArrivalTimeAt(R.path, R.dep, q.end)
<1>1. /\ job.kind = "assign"
      /\ p \in LivePackages
      /\ q.route = None
      /\ PackageAccepted(R, p, job.now)
      /\ routes' = [routes EXCEPT ![r].pkgs = @ \cup {p}]
      /\ packages' = [packages EXCEPT ![p].route = r, ![p].eta = eta]
      /\ job' = LoopAfter(p)
      /\ UNCHANGED <<clock, trucks, nextRouteId, nextPackageId, accounts>>
  BY DEF AssignPackage, AssignablePackage
<1>2. r \in LiveRoutes
  BY <1>1 DEF Inv, JobOK
<1>3. r \in RouteIds /\ R \in Route /\ IsRoutePath(R.path)
  BY <1>2, LiveRouteFacts DEF Inv
<1>4. q \in Package
  BY <1>1 DEF Inv, TypeOK, LivePackages
<1>5. IncludesInOrder(R.path, q.start, q.end)
  BY <1>1 DEF PackageAccepted
<1>6. eta \in OptionalTime
  <2>1. CASE R.dep = None
    BY <1>4, <2>1 DEF Package
  <2>2. CASE R.dep # None
    <3>1. R.dep \in Nat
      BY <1>3, <2>2 DEF Route, OptionalTime, Times
    <3>2. OnPath(R.path, q.end)
      BY <1>5 DEF IncludesInOrder
    <3> QED BY <1>3, <2>2, <3>1, <3>2, ArrivalTimeType DEF OptionalTime, Times
  <2> QED BY <2>1, <2>2
<1> HIDE DEF eta
<1>7. /\ packages'[p] = [q EXCEPT !.route = r, !.eta = eta]
      /\ \A p2 \in PackageIds \ {p} : packages'[p2] = packages[p2]
      /\ packages'[p] \in Package
      /\ SameParcel(packages'[p], q)
  BY <1>1, <1>3, <1>4, <1>6 DEF Inv, TypeOK, Package, SameParcel
<1>8. /\ routes'[r] = [R EXCEPT !.pkgs = R.pkgs \cup {p}]
      /\ \A r2 \in RouteIds \ {r} : routes'[r2] = routes[r2]
      /\ routes'[r] \in Route
  BY <1>1, <1>3 DEF Inv, TypeOK, Route
<1>a. packages'[p].route = r /\ packages'[p].eta = eta /\ r # None
  BY <1>3, <1>4, <1>7, NoneAssumption DEF Package, RouteIds
<1>9. LiveRoutes' = LiveRoutes /\ LivePackages' = LivePackages
  <2>1. \A r2 \in RouteIds : routes'[r2] # NoRoute <=> routes[r2] # NoRoute
    BY <1>3, <1>8, SentinelAssumption
  <2>2. \A p2 \in PackageIds : packages'[p2] # NoPackage <=> packages[p2] # NoPackage
    BY <1>4, <1>7, SentinelAssumption
  <2> QED BY <2>1, <2>2 DEF LiveRoutes, LivePackages
<1>10. TypeOK'
  <2>1. job' \in Job
    BY <1>1, LoopAfterType DEF Inv
  <2>2. routes' \in [RouteIds -> Route \cup {NoRoute}]
    BY <1>1, <1>3, <1>8 DEF Inv, TypeOK
  <2>3. packages' \in [PackageIds -> Package \cup {NoPackage}]
    BY <1>1, <1>7 DEF Inv, TypeOK
  <2> QED BY <1>1, <2>1, <2>2, <2>3 DEF Inv, TypeOK
<1>11. JobOK'
  BY <1>1, <1>9, LoopAfterType DEF Inv, JobOK
<1>12. FreshIds'
  BY <1>1, <1>2, <1>7, <1>8, <1>9 DEF Inv, FreshIds, LiveRoutes, LivePackages
<1>13. \A r2 \in LiveRoutes : /\ routes'[r2].path = routes[r2].path
                              /\ routes'[r2].dep = routes[r2].dep
                              /\ routes'[r2].truck = routes[r2].truck
  BY <1>3, <1>8 DEF LiveRoutes, Route
<1>14. RouteTruckLinks'
  BY <1>1, <1>9, <1>13 DEF Inv, RouteTruckLinks
<1>15. TruckOnItsPath'
  <2>1. \A t \in Trucks : trucks[t].route # None => trucks[t].route \in LiveRoutes
    BY DEF Inv, RouteTruckLinks
  <2> QED BY <1>1, <1>13, <2>1 DEF Inv, TruckOnItsPath
<1>16. RoutePackageLinks'
  <2>1. ASSUME NEW r2 \in LiveRoutes, NEW p2 \in routes'[r2].pkgs
        PROVE  p2 \in LivePackages /\ packages'[p2].route = r2
    <3>1. CASE p2 = p
      <4>1. r2 = r
        <5>1. ASSUME r2 # r PROVE FALSE
          <6>1. routes'[r2] = routes[r2] /\ r2 # None
            BY <1>8, <5>1, NoneAssumption DEF LiveRoutes, RouteIds
          <6>2. packages[p].route = r2
            BY <2>1, <3>1, <6>1 DEF Inv, RoutePackageLinks
          <6> QED BY <1>1, <6>1, <6>2
        <5> QED BY <5>1
      <4> QED BY <1>1, <1>a, <3>1, <4>1
    <3>2. CASE p2 # p
      <4>1. p2 \in routes[r2].pkgs
        BY <1>3, <1>8, <3>2 DEF LiveRoutes, Route
      <4> QED BY <1>7, <3>2, <4>1 DEF Inv, RoutePackageLinks, LivePackages
    <3> QED BY <3>1, <3>2
  <2>2. ASSUME NEW p2 \in LivePackages
        PROVE  LET q2 == packages'[p2]
               IN  IF q2.route = None
                   THEN q2.status = "TODO" /\ q2.loc = q2.start /\ q2.eta = None
                   ELSE /\ q2.route \in LiveRoutes
                        /\ p2 \in routes'[q2.route].pkgs
                        /\ IncludesInOrder(routes'[q2.route].path, q2.start, q2.end)
                        /\ q2.eta # None =>
                             /\ routes'[q2.route].dep # None
                             /\ q2.eta = ArrivalTimeAt(routes'[q2.route].path, routes'[q2.route].dep, q2.end)
    <3>1. CASE p2 = p
      <4>1. q.eta = None
        BY <1>1 DEF Inv, RoutePackageLinks
      <4>3. p \in routes'[r].pkgs
        BY <1>3, <1>8 DEF Route
      <4>5. eta # None => R.dep # None /\ eta = ArrivalTimeAt(R.path, R.dep, q.end)
        BY <4>1 DEF eta
      <4> QED BY <1>2, <1>5, <1>7, <1>13, <1>a, <3>1, <4>3, <4>5 DEF SameParcel
    <3>2. CASE p2 # p
      <4>1. packages'[p2] = packages[p2]
        BY <1>7, <3>2 DEF LivePackages
      <4>2. packages[p2].route # None => p2 \in routes'[packages[p2].route].pkgs
        BY <1>3, <1>8 DEF Inv, RoutePackageLinks, LiveRoutes, Route
      <4> QED BY <1>13, <4>1, <4>2 DEF Inv, RoutePackageLinks
    <3> QED BY <3>1, <3>2
  <2> QED BY <1>9, <2>1, <2>2 DEF RoutePackageLinks
<1>17. TruckNeverOverloaded'
  <2> SUFFICES ASSUME NEW r2 \in LiveRoutes, routes'[r2].truck # None
      PROVE  /\ MaximumSegmentLoadWithin(routes'[r2].path, packages', routes'[r2].pkgs,
                                         Capacity[routes'[r2].truck])
             /\ TotalDistance(routes'[r2].path) <= MaxRange[routes'[r2].truck]
    BY <1>9 DEF TruckNeverOverloaded
  <2>1. CASE r2 = r
    <3>1. /\ MaximumSegmentLoadWithin(R.path, packages, R.pkgs \cup {p}, Capacity[R.truck])
          /\ MaxRange[R.truck] >= TotalDistance(R.path)
      BY <1>1, <1>13, <2>1 DEF PackageAccepted
    <3>2. IsFiniteSet(R.pkgs \cup {p}) /\ Capacity[R.truck] \in Nat
      <4>1. IsFiniteSet(R.pkgs)
        BY <1>2, LiveRouteFacts DEF Inv
      <4> QED BY <1>3, <1>13, <2>1, <4>1, FS_AddElement, FleetAssumption DEF Route
    <3>3. \A p2 \in R.pkgs \cup {p} : SameParcel(packages'[p2], packages[p2])
      BY <1>3, <1>7 DEF SameParcel, Route
    <3>4. MaximumSegmentLoadWithin(R.path, packages', R.pkgs \cup {p}, Capacity[R.truck])
      BY <3>1, <3>2, <3>3, UnloadingNeverOverloads DEF SameParcel
    <3>5. routes'[r].pkgs = R.pkgs \cup {p}
      BY <1>3, <1>8 DEF Route
    <3>6. MaxRange[R.truck] \in Nat /\ TotalDistance(R.path) \in Nat
      BY <1>3, <1>13, <2>1, ArrivalTimeType, FleetAssumption DEF Route
    <3> QED BY <1>13, <2>1, <3>1, <3>4, <3>5, <3>6
  <2>2. CASE r2 # r
    <3>1. routes'[r2] = routes[r2]
      BY <1>8, <2>2 DEF LiveRoutes
    <3>2. \A p2 \in routes[r2].pkgs : SameParcel(packages'[p2], packages[p2])
      BY <1>7 DEF SameParcel, Inv, RoutePackageLinks, LivePackages
    <3> QED BY <3>1, <3>2, LoadKept
  <2> QED BY <2>1, <2>2
<1> QED BY <1>10, <1>11, <1>12, <1>14, <1>15, <1>16, <1>17 DEF Inv


LEMMA AssignTruckToRouteInv ==
  ASSUME Inv, NEW r \in RouteIds, NEW t \in Trucks, AssignTruckToRoute(r, t)
  PROVE  Inv'
<1> DEFINE R == routes[r]
           T == trucks[t]
           dep == IF R.dep = None THEN clock ELSE R.dep
           status == IF R.dep = None THEN "SCHEDULED" ELSE R.status
<1>1. r \in LiveRoutes /\ R.truck = None /\ T.status = "FREE" /\ T.route = None
  BY DEF AssignTruckToRoute, TruckTakeable
<1>2. R \in Route /\ IsRoutePath(R.path) /\ IsFiniteSet(R.pkgs)
  BY <1>1, LiveRouteFacts DEF Inv
<1>3. T \in Truck
  BY DEF Inv, TypeOK
<1>4. dep \in Nat /\ dep # None /\ status \in RouteStatus
  BY <1>2, NoneAssumption DEF Inv, TypeOK, Route, OptionalTime, Times, RouteStatus
<1>5. Scheduled(R) = [path |-> R.path, dep |-> dep, status |-> status, truck |-> R.truck, pkgs |-> R.pkgs]
  BY <1>2 DEF Scheduled, Route
<1>6. /\ TruckSuitable(t, R, dep)
      /\ routes' = [routes EXCEPT ![r] = [Scheduled(R) EXCEPT !.truck = t]]
      /\ trucks' = [trucks EXCEPT ![t] =
                      [@ EXCEPT !.route = r, !.status = "ON_THE_WAY", !.busyFrom = Scheduled(R).dep,
                                !.busyUntil = EtaFinal(Scheduled(R).path, Scheduled(R).dep),
                                !.transit = None]]
      /\ UNCHANGED <<clock, packages, nextRouteId, nextPackageId, accounts, job>>
  BY <1>5 DEF AssignTruckToRoute
<1> DEFINE R2 == [path |-> R.path, dep |-> dep, status |-> status, truck |-> t, pkgs |-> R.pkgs]
           T2 == [loc |-> T.loc, route |-> r, status |-> "ON_THE_WAY", busyFrom |-> dep,
                  busyUntil |-> EtaFinal(R.path, dep), transit |-> None]
<1>7. /\ routes'[r] = R2
      /\ \A r2 \in RouteIds \ {r} : routes'[r2] = routes[r2]
      /\ R2 \in Route
      /\ routes' \in [RouteIds -> Route \cup {NoRoute}]
  <2>1. [Scheduled(R) EXCEPT !.truck = t] = R2
    BY <1>5
  <2>2. R2 \in Route
    BY <1>2, <1>4 DEF Route, OptionalTime, Times
  <2> HIDE DEF R2
  <2> QED BY <1>6, <2>1, <2>2 DEF Inv, TypeOK
<1>8. EtaFinal(R.path, dep) \in Nat
  BY <1>2, <1>4, ArrivalTimeType
<1>9. /\ trucks'[t] = T2
      /\ \A t2 \in Trucks \ {t} : trucks'[t2] = trucks[t2]
      /\ T2 \in Truck
      /\ trucks' \in [Trucks -> Truck]
  <2>1. T2 \in Truck
    BY <1>3, <1>4, <1>8 DEF Truck, TruckStatus, OptionalTime, Times
  <2>2. trucks'[t] = T2
    <3>1. Scheduled(R).dep = dep /\ Scheduled(R).path = R.path
      BY <1>5
    <3> HIDE DEF dep
    <3>2. trucks'[t] = [T EXCEPT !.route = r, !.status = "ON_THE_WAY", !.busyFrom = dep,
                                 !.busyUntil = EtaFinal(R.path, dep), !.transit = None]
      BY <1>6, <3>1 DEF Inv, TypeOK
    <3> QED BY <1>3, <3>2 DEF Truck
  <2> HIDE DEF T2
  <2> QED BY <1>6, <2>1, <2>2 DEF Inv, TypeOK
<1>10. /\ R2.path = R.path /\ R2.dep = dep /\ R2.truck = t /\ R2.pkgs = R.pkgs
       /\ T2.loc = T.loc /\ T2.route = r /\ T2.status = "ON_THE_WAY" /\ T2.busyFrom = dep
       /\ T2.busyUntil = EtaFinal(R.path, dep) /\ T2.transit = None
  OBVIOUS
<1> HIDE DEF R2, T2
<1>11. LiveRoutes' = LiveRoutes /\ LivePackages' = LivePackages
  <2>1. \A r2 \in RouteIds : routes'[r2] # NoRoute <=> routes[r2] # NoRoute
    BY <1>2, <1>7, SentinelAssumption
  <2> QED BY <1>6, <2>1 DEF LiveRoutes, LivePackages
<1>12. r # None /\ t # None
  BY NoneAssumption, FleetAssumption DEF RouteIds
<1>13. TypeOK'
  BY <1>6, <1>7, <1>9 DEF Inv, TypeOK
<1>14. JobOK' /\ FreshIds'
  BY <1>1, <1>6, <1>7, <1>11 DEF Inv, JobOK, FreshIds, LiveRoutes
<1>15. \A r2 \in LiveRoutes : /\ routes'[r2].path = routes[r2].path
                              /\ routes'[r2].pkgs = routes[r2].pkgs
                              /\ routes[r2].dep # None => routes'[r2].dep = routes[r2].dep
  BY <1>7, <1>10 DEF LiveRoutes
<1>16. RouteTruckLinks'
  <2>1. ASSUME NEW r2 \in LiveRoutes, routes'[r2].truck # None
        PROVE  trucks'[routes'[r2].truck].route = r2
    <3>1. CASE r2 = r
      BY <1>7, <1>9, <1>10, <3>1
    <3>2. CASE r2 # r
      <4>1. routes'[r2] = routes[r2] /\ r2 # None
        BY <1>7, <3>2, NoneAssumption DEF LiveRoutes, RouteIds
      <4>2. trucks[routes[r2].truck].route = r2 /\ routes[r2].truck \in Trucks
        BY <2>1, <4>1, LiveRouteFacts DEF Inv, RouteTruckLinks, Route
      <4>3. routes[r2].truck # t
        BY <1>1, <4>1, <4>2
      <4> QED BY <1>9, <4>1, <4>2, <4>3
    <3> QED BY <3>1, <3>2
  <2>2. ASSUME NEW t2 \in Trucks
        PROVE  LET T3 == trucks'[t2]
               IN  IF T3.route = None
                   THEN T3 = FreeTruck(T3.loc)
                   ELSE /\ T3.route \in LiveRoutes
                        /\ routes'[T3.route].truck = t2
                        /\ routes'[T3.route].dep # None
                        /\ T3.status = "ON_THE_WAY"
                        /\ T3.busyFrom = routes'[T3.route].dep
                        /\ T3.busyUntil = EtaFinal(routes'[T3.route].path, routes'[T3.route].dep)
    <3>1. CASE t2 = t
      BY <1>1, <1>4, <1>7, <1>9, <1>10, <1>12, <3>1
    <3>2. CASE t2 # t
      <4>1. trucks'[t2] = trucks[t2]
        BY <1>9, <3>2
      <4>2. CASE trucks[t2].route = None
        BY <4>1, <4>2 DEF Inv, RouteTruckLinks
      <4>3. CASE trucks[t2].route # None
        <5>1. /\ trucks[t2].route \in LiveRoutes
              /\ routes[trucks[t2].route].truck = t2
          BY <4>3 DEF Inv, RouteTruckLinks
        <5>2. trucks[t2].route # r
          BY <1>1, <5>1, FleetAssumption
        <5>3. routes'[trucks[t2].route] = routes[trucks[t2].route]
          BY <1>7, <5>1, <5>2 DEF LiveRoutes
        <5> QED BY <4>1, <4>3, <5>3 DEF Inv, RouteTruckLinks
      <4> QED BY <4>2, <4>3
    <3> QED BY <3>1, <3>2
  <2> QED BY <1>11, <2>1, <2>2 DEF RouteTruckLinks
<1>17. RoutePackageLinks'
  BY <1>6, <1>11, <1>15 DEF Inv, RoutePackageLinks
<1>18. TruckNeverOverloaded'
  <2> SUFFICES ASSUME NEW r2 \in LiveRoutes, routes'[r2].truck # None
      PROVE  /\ MaximumSegmentLoadWithin(routes'[r2].path, packages', routes'[r2].pkgs,
                                         Capacity[routes'[r2].truck])
             /\ TotalDistance(routes'[r2].path) <= MaxRange[routes'[r2].truck]
    BY <1>11 DEF TruckNeverOverloaded
  <2>1. CASE r2 = r
    <3>1. MaxRange[t] \in Nat /\ TotalDistance(R.path) \in Nat
      BY <1>2, <1>4, ArrivalTimeType, FleetAssumption
    <3> QED BY <1>6, <1>7, <1>10, <2>1, <3>1 DEF TruckSuitable
  <2>2. CASE r2 # r
    <3>1. routes'[r2] = routes[r2]
      BY <1>7, <2>2 DEF LiveRoutes
    <3> QED BY <1>6, <3>1 DEF Inv, TruckNeverOverloaded
  <2> QED BY <2>1, <2>2
<1>19. TruckOnItsPath'
  <2> SUFFICES ASSUME NEW t2 \in Trucks, trucks'[t2].route # None
      PROVE  StandsOn(trucks'[t2], routes'[trucks'[t2].route].path)
    BY DEF TruckOnItsPath
  <2>1. CASE t2 = t
    <3>1. T.loc = Start(R.path)
      BY <1>1, <1>6 DEF TruckSuitable
    <3>2. 1 \in 1..Len(R.path)
      BY <1>2, PathFacts
    <3> QED BY <1>7, <1>9, <1>10, <2>1, <3>1, <3>2 DEF StandsOn, Start
  <2>2. CASE t2 # t
    <3>1. trucks'[t2] = trucks[t2]
      BY <1>9, <2>2
    <3>2. trucks[t2].route \in LiveRoutes
      BY <3>1 DEF Inv, RouteTruckLinks
    <3> QED BY <1>15, <3>1, <3>2 DEF Inv, TruckOnItsPath
  <2> QED BY <2>1, <2>2
<1> QED BY <1>13, <1>14, <1>16, <1>17, <1>18, <1>19 DEF Inv


-----------------------------------------------------------------------------
(* Removing packages and routes                                            *)

LEMMA RemovePackageInv ==
  ASSUME Inv, NEW p \in PackageIds, RemovePackage(p)
  PROVE  Inv'
<1> DEFINE r == packages[p].route
<1>1. /\ p \in LivePackages
      /\ routes' = IF r = None THEN routes ELSE [routes EXCEPT ![r].pkgs = @ \ {p}]
      /\ packages' = [packages EXCEPT ![p] = NoPackage]
      /\ accounts' = [accounts EXCEPT ![packages[p].customer] = @ \ {p}]
      /\ job.kind = "idle"
      /\ UNCHANGED <<clock, trucks, nextRouteId, nextPackageId, job>>
  BY DEF RemovePackage
<1>2. r # None => r \in LiveRoutes /\ p \in routes[r].pkgs
  BY <1>1 DEF Inv, RoutePackageLinks
<1>3. /\ packages'[p] = NoPackage
      /\ \A p2 \in PackageIds \ {p} : packages'[p2] = packages[p2]
      /\ packages' \in [PackageIds -> Package \cup {NoPackage}]
  BY <1>1 DEF Inv, TypeOK
<1>4. \A r2 \in LiveRoutes : /\ routes'[r2] \in Route
                             /\ routes'[r2].path = routes[r2].path
                             /\ routes'[r2].dep = routes[r2].dep
                             /\ routes'[r2].truck = routes[r2].truck
                             /\ routes'[r2].pkgs = routes[r2].pkgs \ {p}
  <2> SUFFICES ASSUME NEW r2 \in LiveRoutes
      PROVE  /\ routes'[r2] \in Route
             /\ routes'[r2].path = routes[r2].path
             /\ routes'[r2].dep = routes[r2].dep
             /\ routes'[r2].truck = routes[r2].truck
             /\ routes'[r2].pkgs = routes[r2].pkgs \ {p}
    OBVIOUS
  <2>1. r2 \in RouteIds /\ routes[r2] \in Route /\ r2 # None
    BY LiveRouteFacts, NoneAssumption DEF Inv, RouteIds
  <2>2. CASE r2 = r
    <3>1. routes'[r2] = [routes[r2] EXCEPT !.pkgs = routes[r2].pkgs \ {p}]
      BY <1>1, <2>1, <2>2 DEF Inv, TypeOK
    <3> QED BY <2>1, <3>1 DEF Route
  <2>3. CASE r2 # r
    <3>1. routes'[r2] = routes[r2]
      BY <1>1, <2>1, <2>3 DEF Inv, TypeOK
    <3>2. p \notin routes[r2].pkgs
      BY <2>3 DEF Inv, RoutePackageLinks
    <3> QED BY <2>1, <3>1, <3>2
  <2> QED BY <2>2, <2>3
<1>5. /\ routes' \in [RouteIds -> Route \cup {NoRoute}]
      /\ \A r2 \in RouteIds \ LiveRoutes : routes'[r2] = NoRoute
  <2>1. DOMAIN routes' = RouteIds /\ routes' = [r2 \in RouteIds |-> routes'[r2]]
    BY <1>1 DEF Inv, TypeOK
  <2>2. \A r2 \in RouteIds \ LiveRoutes : routes'[r2] = NoRoute
    BY <1>1, <1>2 DEF Inv, TypeOK, LiveRoutes
  <2> QED BY <1>4, <2>1, <2>2
<1>6. LiveRoutes' = LiveRoutes
  BY <1>4, <1>5, SentinelAssumption DEF LiveRoutes
<1>7. LivePackages' = LivePackages \ {p}
  BY <1>3 DEF LivePackages
<1>8. TypeOK'
  BY <1>1, <1>3, <1>5 DEF Inv, TypeOK
<1>9. JobOK'
  BY <1>1, <1>6 DEF Inv, JobOK
<1>10. FreshIds'
  <2>1. \A r2 \in RouteIds : r2 >= nextRouteId => routes'[r2] = NoRoute
    BY <1>5 DEF Inv, FreshIds, LiveRoutes
  <2>2. \A p2 \in PackageIds : p2 >= nextPackageId => packages'[p2] = NoPackage
    BY <1>3 DEF Inv, FreshIds
  <2> QED BY <1>1, <2>1, <2>2 DEF FreshIds
<1>11. RouteTruckLinks'
  BY <1>1, <1>4, <1>6 DEF Inv, RouteTruckLinks
<1>12. TruckOnItsPath'
  <2>1. \A t \in Trucks : trucks[t].route # None => trucks[t].route \in LiveRoutes
    BY DEF Inv, RouteTruckLinks
  <2> QED BY <1>1, <1>4, <2>1 DEF Inv, TruckOnItsPath
<1>13. RoutePackageLinks'
  <2>1. \A r2 \in LiveRoutes : \A p2 \in routes'[r2].pkgs :
            p2 \in LivePackages \ {p} /\ packages'[p2].route = r2
    BY <1>3, <1>4 DEF Inv, RoutePackageLinks, LivePackages
  <2>2. \A p2 \in LivePackages \ {p} : packages'[p2] = packages[p2]
    BY <1>3 DEF LivePackages
  <2>3. \A p2 \in LivePackages \ {p} : packages[p2].route # None =>
            p2 \in routes'[packages[p2].route].pkgs
    BY <1>4 DEF Inv, RoutePackageLinks
  <2> QED BY <1>4, <1>6, <1>7, <2>1, <2>2, <2>3 DEF Inv, RoutePackageLinks
<1>14. TruckNeverOverloaded'
  <2> SUFFICES ASSUME NEW r2 \in LiveRoutes, routes'[r2].truck # None
      PROVE  /\ MaximumSegmentLoadWithin(routes'[r2].path, packages', routes'[r2].pkgs,
                                         Capacity[routes'[r2].truck])
             /\ TotalDistance(routes'[r2].path) <= MaxRange[routes'[r2].truck]
    BY <1>6 DEF TruckNeverOverloaded
  <2>1. \A p2 \in routes'[r2].pkgs : SameParcel(packages'[p2], packages[p2])
    BY <1>3, <1>4 DEF SameParcel, Inv, RoutePackageLinks, LivePackages
  <2> QED BY <1>4, <2>1, LoadKept
<1> QED BY <1>8, <1>9, <1>10, <1>11, <1>12, <1>13, <1>14 DEF Inv

LEMMA RemoveRouteInv ==
  ASSUME Inv, NEW r \in RouteIds, RemoveRoute(r)
  PROVE  Inv'
<1> DEFINE R == routes[r]
<1>1. /\ r \in LiveRoutes
      /\ job.kind = "idle"
      /\ packages' = [p \in PackageIds |-> IF p \in R.pkgs THEN ResetPackage(packages[p]) ELSE packages[p]]
      /\ trucks' = IF R.truck = None THEN trucks
                   ELSE [trucks EXCEPT ![R.truck] = ReleasedTruck(routes[trucks[R.truck].route].path)]
      /\ routes' = [routes EXCEPT ![r] = NoRoute]
      /\ UNCHANGED <<clock, nextRouteId, nextPackageId, accounts, job>>
  BY DEF RemoveRoute
<1>2. R \in Route /\ IsRoutePath(R.path) /\ r # None
  BY <1>1, LiveRouteFacts, NoneAssumption DEF Inv, RouteIds
<1>3. R.truck # None => R.truck \in Trucks /\ trucks[R.truck].route = r
  BY <1>1, <1>2 DEF Inv, RouteTruckLinks, Route
<1>4. \A t \in Trucks : trucks'[t] = IF t = R.truck THEN FreeTruck(End(R.path)) ELSE trucks[t]
  BY <1>1, <1>3, FleetAssumption DEF Inv, TypeOK, ReleasedTruck
<1>5. End(R.path) \in Cities
  BY <1>2, PathFacts DEF End
<1>6. FreeTruck(End(R.path)) \in Truck
  BY <1>5 DEF FreeTruck, Truck, TruckStatus, OptionalTime
<1>7. trucks' \in [Trucks -> Truck]
  BY <1>1, <1>3, <1>4, <1>6 DEF Inv, TypeOK
<1>8. \A p \in R.pkgs : p \in LivePackages /\ packages[p] \in Package /\ packages[p].route = r
  BY <1>1 DEF Inv, RoutePackageLinks, LivePackages, TypeOK
<1>9. \A p \in R.pkgs : /\ packages'[p] \in Package
                        /\ packages'[p].route = None
                        /\ packages'[p].eta = None
                        /\ packages'[p].status = "TODO"
                        /\ packages'[p].loc = packages'[p].start
  <2> SUFFICES ASSUME NEW p \in R.pkgs
      PROVE  /\ packages'[p] \in Package
             /\ packages'[p].route = None
             /\ packages'[p].eta = None
             /\ packages'[p].status = "TODO"
             /\ packages'[p].loc = packages'[p].start
    OBVIOUS
  <2>1. packages'[p] = [packages[p] EXCEPT !.route = None, !.eta = None, !.status = "TODO",
                                           !.loc = packages[p].start]
    BY <1>1, <1>8 DEF ResetPackage, LivePackages
  <2>2. packages[p] \in Package
    BY <1>8
  <2> QED BY <2>1, <2>2 DEF Package, OptionalTime, ItemStatus
<1>10. \A p \in PackageIds \ R.pkgs : packages'[p] = packages[p]
  BY <1>1
<1>11. routes'[r] = NoRoute /\ \A r2 \in RouteIds \ {r} : routes'[r2] = routes[r2]
  BY <1>1 DEF Inv, TypeOK
<1>12. LiveRoutes' = LiveRoutes \ {r} /\ LivePackages' = LivePackages
  <2>1. \A p \in PackageIds : packages'[p] # NoPackage <=> packages[p] # NoPackage
    BY <1>8, <1>9, <1>10, SentinelAssumption
  <2> QED BY <1>11, <2>1 DEF LiveRoutes, LivePackages
<1>13. TypeOK'
  <2>1. packages' \in [PackageIds -> Package \cup {NoPackage}]
    BY <1>1, <1>9, <1>10 DEF Inv, TypeOK
  <2>2. routes' \in [RouteIds -> Route \cup {NoRoute}]
    BY <1>1 DEF Inv, TypeOK
  <2> QED BY <1>1, <1>7, <2>1, <2>2 DEF Inv, TypeOK
<1>14. JobOK'
  BY <1>1 DEF Inv, JobOK
<1>15. FreshIds'
  <2>1. \A r2 \in RouteIds : r2 >= nextRouteId => routes'[r2] = NoRoute
    BY <1>11 DEF Inv, FreshIds
  <2>2. \A p \in PackageIds : p >= nextPackageId => packages'[p] = NoPackage
    BY <1>8, <1>10 DEF Inv, FreshIds, LivePackages
  <2> QED BY <1>1, <2>1, <2>2 DEF FreshIds
<1>16. \A r2 \in LiveRoutes \ {r} : r2 \in RouteIds \ {r} /\ routes'[r2] = routes[r2]
  BY <1>11 DEF LiveRoutes
<1>17. \A t \in Trucks : t # R.truck /\ trucks[t].route # None => trucks[t].route \in LiveRoutes \ {r}
  BY DEF Inv, RouteTruckLinks
<1>18. /\ FreeTruck(End(R.path)).route = None
       /\ FreeTruck(End(R.path)) = FreeTruck(FreeTruck(End(R.path)).loc)
  BY DEF FreeTruck
<1>19. RouteTruckLinks'
  <2>1. ASSUME NEW r2 \in LiveRoutes \ {r}, routes'[r2].truck # None
        PROVE  trucks'[routes'[r2].truck].route = r2
    <3>1. trucks[routes[r2].truck].route = r2 /\ routes[r2].truck \in Trucks
      BY <1>16, <2>1, LiveRouteFacts DEF Inv, RouteTruckLinks, Route
    <3>2. routes[r2].truck # R.truck
      BY <1>3, <1>16, <2>1, <3>1
    <3> QED BY <1>4, <1>16, <3>1, <3>2
  <2>2. ASSUME NEW t \in Trucks
        PROVE  LET T == trucks'[t]
               IN  IF T.route = None
                   THEN T = FreeTruck(T.loc)
                   ELSE /\ T.route \in LiveRoutes \ {r}
                        /\ routes'[T.route].truck = t
                        /\ routes'[T.route].dep # None
                        /\ T.status = "ON_THE_WAY"
                        /\ T.busyFrom = routes'[T.route].dep
                        /\ T.busyUntil = EtaFinal(routes'[T.route].path, routes'[T.route].dep)
    <3>1. CASE t = R.truck
      BY <1>4, <1>18, <3>1
    <3>2. CASE t # R.truck
      <4>1. trucks'[t] = trucks[t]
        BY <1>4, <3>2
      <4>2. trucks[t].route # None => routes'[trucks[t].route] = routes[trucks[t].route]
        BY <1>16, <1>17, <3>2
      <4> QED BY <1>17, <3>2, <4>1, <4>2 DEF Inv, RouteTruckLinks
    <3> QED BY <3>1, <3>2
  <2> QED BY <1>12, <2>1, <2>2 DEF RouteTruckLinks
<1>20. TruckOnItsPath'
  <2> SUFFICES ASSUME NEW t \in Trucks, trucks'[t].route # None
      PROVE  StandsOn(trucks'[t], routes'[trucks'[t].route].path)
    BY DEF TruckOnItsPath
  <2>1. t # R.truck
    BY <1>4, <1>18
  <2>2. trucks'[t] = trucks[t] /\ trucks[t].route # None
    BY <1>4, <2>1
  <2>3. routes'[trucks[t].route] = routes[trucks[t].route]
    BY <1>16, <1>17, <2>1, <2>2
  <2> QED BY <2>2, <2>3 DEF Inv, TruckOnItsPath
<1>21. RoutePackageLinks'
  <2>1. ASSUME NEW r2 \in LiveRoutes \ {r}, NEW p \in routes'[r2].pkgs
        PROVE  p \in LivePackages /\ packages'[p].route = r2
    <3>1. p \in LivePackages /\ packages[p].route = r2
      BY <1>16 DEF Inv, RoutePackageLinks
    <3>2. p \notin R.pkgs
      BY <1>8, <3>1
    <3> QED BY <1>10, <3>1, <3>2 DEF LivePackages
  <2>2. ASSUME NEW p \in LivePackages
        PROVE  LET q == packages'[p]
               IN  IF q.route = None
                   THEN q.status = "TODO" /\ q.loc = q.start /\ q.eta = None
                   ELSE /\ q.route \in LiveRoutes \ {r}
                        /\ p \in routes'[q.route].pkgs
                        /\ IncludesInOrder(routes'[q.route].path, q.start, q.end)
                        /\ q.eta # None =>
                             /\ routes'[q.route].dep # None
                             /\ q.eta = ArrivalTimeAt(routes'[q.route].path, routes'[q.route].dep, q.end)
    <3>1. CASE p \in R.pkgs
      BY <1>9, <3>1
    <3>2. CASE p \notin R.pkgs
      <4>1. packages'[p] = packages[p]
        BY <1>10, <3>2 DEF LivePackages
      <4>2. packages[p].route # None => packages[p].route \in LiveRoutes \ {r}
        BY <3>2 DEF Inv, RoutePackageLinks
      <4> QED BY <1>16, <4>1, <4>2 DEF Inv, RoutePackageLinks
    <3> QED BY <3>1, <3>2
  <2> QED BY <1>12, <2>1, <2>2 DEF RoutePackageLinks
<1>22. TruckNeverOverloaded'
  <2> SUFFICES ASSUME NEW r2 \in LiveRoutes \ {r}, routes'[r2].truck # None
      PROVE  /\ MaximumSegmentLoadWithin(routes'[r2].path, packages', routes'[r2].pkgs,
                                         Capacity[routes'[r2].truck])
             /\ TotalDistance(routes'[r2].path) <= MaxRange[routes'[r2].truck]
    BY <1>12 DEF TruckNeverOverloaded
  <2>1. \A p \in routes[r2].pkgs : p \in PackageIds \ R.pkgs
    BY <1>8 DEF Inv, RoutePackageLinks, LivePackages
  <2>2. \A p \in routes'[r2].pkgs : SameParcel(packages'[p], packages[p])
    BY <1>10, <1>16, <2>1 DEF SameParcel
  <2> QED BY <1>16, <2>2, LoadKept
<1> QED BY <1>13, <1>14, <1>15, <1>19, <1>20, <1>21, <1>22 DEF Inv


-----------------------------------------------------------------------------
(* The heartbeat                                                           *)

LEMMA ReconciledTruckFacts ==
  ASSUME NEW T \in Truck, NEW r \in RouteIds, T.route = r, NEW R \in Route, IsRoutePath(R.path),
         NEW now \in Nat
  PROVE  LET T2 == ReconciledTruck(T, r, R, now)
         IN  /\ T2 \in Truck
             /\ TruckReleases(R, now) => T2 = FreeTruck(End(R.path))
             /\ ~ TruckReleases(R, now) =>
                  /\ T2.route = r
                  /\ T2.status = T.status
                  /\ T2.busyFrom = T.busyFrom
                  /\ T2.busyUntil = T.busyUntil
                  /\ StandsOn(T, R.path) => StandsOn(T2, R.path)
<1> DEFINE P == PositionAt(R.path, R.dep, now)
           T2 == ReconciledTruck(T, r, R, now)
<1>1. Len(R.path) \in Nat /\ \A i \in 1..Len(R.path) : R.path[i] \in Cities
  BY PathFacts
<1>2. R.dep \in Nat \cup {None}
  BY DEF Route, OptionalTime, Times
<1>3. \/ /\ P.kind = "IN_TRANSIT"
         /\ \E i \in 1..(Len(R.path) - 1) : P.from = R.path[i] /\ P.to = R.path[i + 1]
      \/ /\ P.kind \in {"UNSCHEDULED", "BEFORE_START", "AT_STOP", "AFTER_END"}
         /\ \E i \in 1..Len(R.path) : P.stop = R.path[i]
  BY <1>2, PositionKinds
<1> HIDE DEF P
<1>4. CASE TruckReleases(R, now)
  <2>1. T2 = FreeTruck(End(R.path))
    <3>1. P.kind = "AT_STOP" \/ P.kind = "AFTER_END"
      BY <1>4 DEF TruckReleases, P
    <3> QED BY <1>4, <3>1 DEF ReconciledTruck, ReleasedTruck, P
  <2>2. End(R.path) \in Cities
    BY PathFacts DEF End
  <2> QED BY <1>4, <2>1, <2>2 DEF FreeTruck, Truck, TruckStatus, OptionalTime
<1>5. CASE ~ TruckReleases(R, now) /\ P.kind = "UNSCHEDULED"
  <2>1. T2 = [[T EXCEPT !.route = r] EXCEPT !.transit = None]
    BY <1>5 DEF ReconciledTruck, P
  <2>2. T2 \in Truck /\ T2.loc = T.loc /\ T2.transit = None /\ T2.route = r /\ T2.status = T.status
        /\ T2.busyFrom = T.busyFrom /\ T2.busyUntil = T.busyUntil
    BY <2>1 DEF Truck
  <2> HIDE DEF T2
  <2>3. StandsOn(T, R.path) => StandsOn(T2, R.path)
    BY <2>2 DEF StandsOn
  <2> QED BY <1>5, <2>2, <2>3 DEF T2
<1>6. CASE ~ TruckReleases(R, now) /\ P.kind = "IN_TRANSIT"
  <2>1. T2 = [[T EXCEPT !.route = r] EXCEPT !.loc = P.from, !.transit = P.to]
    BY <1>6 DEF ReconciledTruck, P
  <2>2. PICK i \in 1..(Len(R.path) - 1) : P.from = R.path[i] /\ P.to = R.path[i + 1]
    BY <1>3, <1>6
  <2>3. P.from \in Cities /\ P.to \in Cities /\ i \in 1..Len(R.path) /\ i < Len(R.path)
    BY <1>1, <2>2
  <2>4. T2 \in Truck /\ T2.loc = P.from /\ T2.transit = P.to /\ T2.route = r /\ T2.status = T.status
        /\ T2.busyFrom = T.busyFrom /\ T2.busyUntil = T.busyUntil
    BY <2>1, <2>3 DEF Truck
  <2> HIDE DEF T2
  <2>5. StandsOn(T2, R.path)
    BY <2>2, <2>3, <2>4 DEF StandsOn
  <2> QED BY <1>6, <2>4, <2>5 DEF T2
<1>7. CASE ~ TruckReleases(R, now) /\ P.kind \notin {"UNSCHEDULED", "IN_TRANSIT"}
  <2>1. T2 = [[T EXCEPT !.route = r] EXCEPT !.loc = P.stop, !.transit = None]
    BY <1>7 DEF ReconciledTruck, P
  <2>2. PICK i \in 1..Len(R.path) : P.stop = R.path[i]
    BY <1>3, <1>7
  <2>3. P.stop \in Cities
    BY <1>1, <2>2
  <2>4. T2 \in Truck /\ T2.loc = P.stop /\ T2.transit = None /\ T2.route = r /\ T2.status = T.status
        /\ T2.busyFrom = T.busyFrom /\ T2.busyUntil = T.busyUntil
    BY <2>1, <2>3 DEF Truck
  <2> HIDE DEF T2
  <2>5. StandsOn(T2, R.path)
    BY <2>2, <2>4 DEF StandsOn
  <2> QED BY <1>7, <2>4, <2>5 DEF T2
<1> QED BY <1>4, <1>5, <1>6, <1>7

LEMMA ReconciledPackageFacts ==
  ASSUME NEW q \in Package, NEW R \in Route, IsRoutePath(R.path), NEW now \in Nat
  PROVE  LET q2 == ReconciledPackage(q, R, now)
         IN  /\ q2 \in Package
             /\ SameParcel(q2, q)
             /\ q2.route = q.route
             /\ q2.eta # None => R.dep # None /\ q2.eta = ArrivalTimeAt(R.path, R.dep, q.end)
<1> DEFINE q2 == ReconciledPackage(q, R, now)
           pickup == ArrivalTimeAt(R.path, R.dep, q.start)
           delivery == ArrivalTimeAt(R.path, R.dep, q.end)
           last == LastReachedCity(R.path, R.dep, q.start, q.end, now)
<1>1. CASE R.dep = None \/ ~ IncludesInOrder(R.path, q.start, q.end)
  <2>1. q2 = [q EXCEPT !.status = "TODO", !.loc = q.start, !.eta = None]
    BY <1>1 DEF ReconciledPackage
  <2> QED BY <2>1 DEF Package, ItemStatus, OptionalTime, SameParcel
<1>2. CASE R.dep # None /\ IncludesInOrder(R.path, q.start, q.end)
  <2>1. OnPath(R.path, q.start) /\ OnPath(R.path, q.end)
    BY <1>2 DEF IncludesInOrder
  <2>2. R.dep \in Nat
    BY <1>2 DEF Route, OptionalTime, Times
  <2>3. delivery \in OptionalTime /\ pickup \in Nat
    BY <2>1, <2>2, ArrivalTimeType DEF OptionalTime, Times
  <2>4. last \in Cities
    BY <2>1, LastReachedCityOnPath, PathFacts DEF OnPath
  <2>5. PICK status \in ItemStatus, loc \in Cities :
           q2 = [[q EXCEPT !.eta = delivery] EXCEPT !.status = status, !.loc = loc]
    <3>1. CASE now < pickup
      <4>1. q2 = [[q EXCEPT !.eta = delivery] EXCEPT !.status = "TODO", !.loc = q.start]
        <5>1. ~ (now >= pickup)
          BY <2>3, <3>1
        <5> QED BY <1>2, <3>1, <5>1 DEF ReconciledPackage
      <4>2. "TODO" \in ItemStatus /\ q.start \in Cities
        BY DEF ItemStatus, Package
      <4> QED BY <4>1, <4>2
    <3>2. CASE ~ (now < pickup) /\ now >= pickup /\ now >= delivery
      <4>1. q2 = [[q EXCEPT !.eta = delivery] EXCEPT !.status = "DONE", !.loc = q.end]
        BY <1>2, <3>2 DEF ReconciledPackage
      <4>2. "DONE" \in ItemStatus /\ q.end \in Cities
        BY DEF ItemStatus, Package
      <4> QED BY <4>1, <4>2
    <3>3. CASE ~ (now < pickup) /\ ~ (now >= pickup /\ now >= delivery)
      <4>1. q2 = [[q EXCEPT !.eta = delivery] EXCEPT !.status = "IN_PROGRESS", !.loc = last]
        BY <1>2, <3>3 DEF ReconciledPackage
      <4>2. "IN_PROGRESS" \in ItemStatus
        BY DEF ItemStatus
      <4> QED BY <2>4, <4>1, <4>2
    <3> QED BY <3>1, <3>2, <3>3
  <2> HIDE DEF q2, delivery
  <2>6. /\ q2 \in Package
        /\ SameParcel(q2, q)
        /\ q2.route = q.route
        /\ q2.eta = delivery
    BY <2>3, <2>5 DEF Package, SameParcel
  <2> QED BY <1>2, <2>6 DEF q2, delivery
<1> QED BY <1>1, <1>2


LEMMA ReconcileRouteInv ==
  ASSUME Inv, NEW r \in RouteIds, ReconcileRoute(r)
  PROVE  Inv'
<1> DEFINE R == routes[r]
           t == R.truck
           now == job.now
           release == TruckReleases(R, now)
           R2 == ReconciledRoute(R, now)
<1>1. /\ job.kind = "heartbeat" /\ r \in job.todo
      /\ routes' = [routes EXCEPT ![r] = R2]
      /\ trucks' = IF t = None THEN trucks
                   ELSE [trucks EXCEPT ![t] = ReconciledTruck(trucks[t], r, R, now)]
      /\ packages' = [p \in PackageIds |->
                        IF p \in R.pkgs THEN ReconciledPackage(packages[p], R, now) ELSE packages[p]]
      /\ job' = LoopAfter(r)
      /\ UNCHANGED <<clock, nextRouteId, nextPackageId, accounts>>
  BY DEF ReconcileRoute, NextInLoop
<1>2. r \in LiveRoutes
  BY <1>1 DEF Inv, JobOK
<1>3. R \in Route /\ IsRoutePath(R.path) /\ r # None /\ now \in Nat
  BY <1>2, LiveRouteFacts, NoneAssumption DEF Inv, RouteIds, TypeOK, Job, Times
<1>4. t # None => t \in Trucks /\ trucks[t].route = r /\ trucks[t] \in Truck
  BY <1>2, <1>3 DEF Inv, RouteTruckLinks, Route, TypeOK
<1>5. ComputeRouteStatus(R.path, R.dep, now) \in RouteStatus
  BY DEF ComputeRouteStatus, RouteStatus
<1>6. /\ R2 \in Route
      /\ R2.path = R.path /\ R2.dep = R.dep /\ R2.pkgs = R.pkgs
      /\ R2.truck = IF release THEN None ELSE t
  <2>1. R2 = [R EXCEPT !.status = ComputeRouteStatus(R.path, R.dep, now),
                       !.truck = IF release THEN None ELSE R.truck]
    BY DEF ReconciledRoute
  <2> HIDE DEF release, R2
  <2> QED BY <1>3, <1>5, <2>1 DEF Route
<1> HIDE DEF R2
<1>7. /\ routes'[r] = R2
      /\ \A r2 \in RouteIds \ {r} : routes'[r2] = routes[r2]
      /\ routes' \in [RouteIds -> Route \cup {NoRoute}]
  <2>1. routes \in [RouteIds -> Route \cup {NoRoute}]
    BY DEF Inv, TypeOK
  <2>2. routes' = [routes EXCEPT ![r] = R2] /\ R2 \in Route
    BY <1>1, <1>6
  <2> QED BY <2>1, <2>2
<1>8. \A p \in R.pkgs : p \in LivePackages /\ packages[p] \in Package /\ packages[p].route = r
                        /\ IncludesInOrder(R.path, packages[p].start, packages[p].end)
  <2> SUFFICES ASSUME NEW p \in R.pkgs
      PROVE  p \in LivePackages /\ packages[p] \in Package /\ packages[p].route = r
             /\ IncludesInOrder(R.path, packages[p].start, packages[p].end)
    OBVIOUS
  <2>1. p \in LivePackages /\ packages[p].route = r
    BY <1>2 DEF Inv, RoutePackageLinks
  <2>2. packages[p] \in Package
    BY <2>1 DEF Inv, TypeOK, LivePackages
  <2>3. IncludesInOrder(R.path, packages[p].start, packages[p].end)
    BY <1>3, <2>1 DEF Inv, RoutePackageLinks
  <2> QED BY <2>1, <2>2, <2>3
<1>9. \A p \in R.pkgs : /\ packages'[p] \in Package
                        /\ SameParcel(packages'[p], packages[p])
                        /\ packages'[p].route = r
                        /\ packages'[p].eta # None =>
                             R.dep # None /\ packages'[p].eta = ArrivalTimeAt(R.path, R.dep, packages[p].end)
  <2> SUFFICES ASSUME NEW p \in R.pkgs
      PROVE  /\ packages'[p] \in Package
             /\ SameParcel(packages'[p], packages[p])
             /\ packages'[p].route = r
             /\ packages'[p].eta # None =>
                  R.dep # None /\ packages'[p].eta = ArrivalTimeAt(R.path, R.dep, packages[p].end)
    OBVIOUS
  <2>1. packages'[p] = ReconciledPackage(packages[p], R, now)
    BY <1>1, <1>8 DEF LivePackages
  <2>2. packages[p] \in Package /\ packages[p].route = r
    BY <1>8
  <2> QED BY <1>3, <2>1, <2>2, ReconciledPackageFacts
<1>10. \A p \in PackageIds \ R.pkgs : packages'[p] = packages[p]
  BY <1>1
<1>11. LiveRoutes' = LiveRoutes /\ LivePackages' = LivePackages
  <2>1. \A p \in PackageIds : packages'[p] # NoPackage <=> packages[p] # NoPackage
    BY <1>8, <1>9, <1>10, SentinelAssumption
  <2>2. \A r2 \in RouteIds : routes'[r2] # NoRoute <=> routes[r2] # NoRoute
    BY <1>3, <1>6, <1>7, SentinelAssumption
  <2> QED BY <2>1, <2>2 DEF LiveRoutes, LivePackages
<1>12. \A t2 \in Trucks : t2 # t => trucks'[t2] = trucks[t2]
  BY <1>1, <1>4 DEF Inv, TypeOK
<1>13. t # None =>
         /\ trucks'[t] \in Truck
         /\ release => trucks'[t] = FreeTruck(End(R.path))
         /\ ~ release =>
              /\ trucks'[t].route = r
              /\ trucks'[t].status = trucks[t].status
              /\ trucks'[t].busyFrom = trucks[t].busyFrom
              /\ trucks'[t].busyUntil = trucks[t].busyUntil
              /\ StandsOn(trucks[t], R.path) => StandsOn(trucks'[t], R.path)
  <2> SUFFICES ASSUME t # None
      PROVE  /\ trucks'[t] \in Truck
             /\ release => trucks'[t] = FreeTruck(End(R.path))
             /\ ~ release =>
                  /\ trucks'[t].route = r
                  /\ trucks'[t].status = trucks[t].status
                  /\ trucks'[t].busyFrom = trucks[t].busyFrom
                  /\ trucks'[t].busyUntil = trucks[t].busyUntil
                  /\ StandsOn(trucks[t], R.path) => StandsOn(trucks'[t], R.path)
    OBVIOUS
  <2>1. trucks'[t] = ReconciledTruck(trucks[t], r, R, now)
    BY <1>1, <1>4 DEF Inv, TypeOK
  <2> QED BY <1>3, <1>4, <2>1, ReconciledTruckFacts
<1> HIDE DEF release
<1>14. TypeOK'
  <2>1. packages' \in [PackageIds -> Package \cup {NoPackage}]
    BY <1>1, <1>9, <1>10 DEF Inv, TypeOK
  <2>2. trucks' \in [Trucks -> Truck]
    BY <1>1, <1>4, <1>12, <1>13 DEF Inv, TypeOK
  <2>3. job' \in Job
    BY <1>1, LoopAfterType DEF Inv
  <2> QED BY <1>1, <1>7, <2>1, <2>2, <2>3 DEF Inv, TypeOK
<1>15. JobOK'
  BY <1>1, <1>11, LoopAfterType DEF Inv, JobOK
<1>16. FreshIds'
  <2>1. \A r2 \in RouteIds : r2 >= nextRouteId => routes'[r2] = NoRoute
    BY <1>2, <1>7 DEF Inv, FreshIds, LiveRoutes
  <2>2. \A p \in PackageIds : p >= nextPackageId => packages'[p] = NoPackage
    BY <1>8, <1>10 DEF Inv, FreshIds, LivePackages
  <2> QED BY <1>1, <2>1, <2>2 DEF FreshIds
<1>17. \A r2 \in LiveRoutes : /\ routes'[r2].path = routes[r2].path
                              /\ routes'[r2].dep = routes[r2].dep
                              /\ routes'[r2].pkgs = routes[r2].pkgs
  BY <1>6, <1>7 DEF LiveRoutes
<1>18. \A t2 \in Trucks : trucks[t2].route # None =>
         /\ trucks[t2].route \in LiveRoutes
         /\ t2 # t => trucks[t2].route # r
  BY DEF Inv, RouteTruckLinks
<1>19. /\ FreeTruck(End(R.path)).route = None
       /\ FreeTruck(End(R.path)) = FreeTruck(FreeTruck(End(R.path)).loc)
  BY DEF FreeTruck
<1>20. RouteTruckLinks'
  <2>1. ASSUME NEW r2 \in LiveRoutes, routes'[r2].truck # None
        PROVE  trucks'[routes'[r2].truck].route = r2
    <3>1. CASE r2 = r
      BY <1>6, <1>7, <1>13, <2>1, <3>1
    <3>2. CASE r2 # r
      <4>1. routes'[r2] = routes[r2]
        BY <1>7, <3>2 DEF LiveRoutes
      <4>2. trucks[routes[r2].truck].route = r2 /\ routes[r2].truck \in Trucks
        BY <2>1, <4>1, LiveRouteFacts DEF Inv, RouteTruckLinks, Route
      <4>3. routes[r2].truck # t
        BY <1>4, <2>1, <3>2, <4>1, <4>2
      <4> QED BY <1>12, <4>1, <4>2, <4>3
    <3> QED BY <3>1, <3>2
  <2>2. ASSUME NEW t2 \in Trucks
        PROVE  LET T == trucks'[t2]
               IN  IF T.route = None
                   THEN T = FreeTruck(T.loc)
                   ELSE /\ T.route \in LiveRoutes
                        /\ routes'[T.route].truck = t2
                        /\ routes'[T.route].dep # None
                        /\ T.status = "ON_THE_WAY"
                        /\ T.busyFrom = routes'[T.route].dep
                        /\ T.busyUntil = EtaFinal(routes'[T.route].path, routes'[T.route].dep)
    <3>1. CASE t2 = t /\ release
      BY <1>13, <1>19, <3>1, FleetAssumption
    <3>2. CASE t2 = t /\ ~ release
      <4>1. t # None
        BY <3>2, FleetAssumption
      <4>2. /\ trucks[t].status = "ON_THE_WAY"
            /\ trucks[t].busyFrom = R.dep
            /\ trucks[t].busyUntil = EtaFinal(R.path, R.dep)
            /\ R.dep # None
        BY <1>3, <1>4, <4>1 DEF Inv, RouteTruckLinks
      <4> QED BY <1>2, <1>3, <1>6, <1>7, <1>13, <3>2, <4>1, <4>2
    <3>3. CASE t2 # t
      <4>1. trucks'[t2] = trucks[t2]
        BY <1>12, <3>3
      <4>2. trucks[t2].route # None => routes'[trucks[t2].route] = routes[trucks[t2].route]
        BY <1>7, <1>18, <3>3 DEF LiveRoutes
      <4> QED BY <4>1, <4>2 DEF Inv, RouteTruckLinks
    <3> QED BY <3>1, <3>2, <3>3
  <2> QED BY <1>11, <2>1, <2>2 DEF RouteTruckLinks
<1>21. TruckOnItsPath'
  <2> SUFFICES ASSUME NEW t2 \in Trucks, trucks'[t2].route # None
      PROVE  StandsOn(trucks'[t2], routes'[trucks'[t2].route].path)
    BY DEF TruckOnItsPath
  <2>1. CASE t2 = t
    <3>1. t # None /\ ~ release
      BY <1>13, <1>19, <2>1, FleetAssumption
    <3>2. StandsOn(trucks[t], R.path)
      BY <1>3, <1>4, <3>1 DEF Inv, TruckOnItsPath
    <3> QED BY <1>6, <1>7, <1>13, <2>1, <3>1, <3>2
  <2>2. CASE t2 # t
    <3>1. trucks'[t2] = trucks[t2]
      BY <1>12, <2>2
    <3> QED BY <1>17, <1>18, <3>1 DEF Inv, TruckOnItsPath
  <2> QED BY <2>1, <2>2
<1>22. RoutePackageLinks'
  <2>1. ASSUME NEW r2 \in LiveRoutes, NEW p \in routes'[r2].pkgs
        PROVE  p \in LivePackages /\ packages'[p].route = r2
    <3>1. p \in routes[r2].pkgs /\ p \in LivePackages /\ packages[p].route = r2
      BY <1>17 DEF Inv, RoutePackageLinks
    <3>2. CASE p \in R.pkgs
      BY <1>8, <1>9, <3>1, <3>2
    <3>3. CASE p \notin R.pkgs
      BY <1>10, <3>1, <3>3 DEF LivePackages
    <3> QED BY <3>2, <3>3
  <2>2. ASSUME NEW p \in LivePackages
        PROVE  LET q == packages'[p]
               IN  IF q.route = None
                   THEN q.status = "TODO" /\ q.loc = q.start /\ q.eta = None
                   ELSE /\ q.route \in LiveRoutes
                        /\ p \in routes'[q.route].pkgs
                        /\ IncludesInOrder(routes'[q.route].path, q.start, q.end)
                        /\ q.eta # None =>
                             /\ routes'[q.route].dep # None
                             /\ q.eta = ArrivalTimeAt(routes'[q.route].path, routes'[q.route].dep, q.end)
    <3>1. CASE p \in R.pkgs
      BY <1>2, <1>3, <1>8, <1>9, <1>17, <3>1 DEF SameParcel
    <3>2. CASE p \notin R.pkgs
      <4>1. packages'[p] = packages[p]
        BY <1>10, <3>2 DEF LivePackages
      <4> QED BY <1>17, <4>1 DEF Inv, RoutePackageLinks
    <3> QED BY <3>1, <3>2
  <2> QED BY <1>11, <2>1, <2>2 DEF RoutePackageLinks
<1>23. TruckNeverOverloaded'
  <2> SUFFICES ASSUME NEW r2 \in LiveRoutes, routes'[r2].truck # None
      PROVE  /\ MaximumSegmentLoadWithin(routes'[r2].path, packages', routes'[r2].pkgs,
                                         Capacity[routes'[r2].truck])
             /\ TotalDistance(routes'[r2].path) <= MaxRange[routes'[r2].truck]
    BY <1>11 DEF TruckNeverOverloaded
  <2>1. routes'[r2].truck = routes[r2].truck
    BY <1>6, <1>7 DEF LiveRoutes
  <2>2. \A p \in routes'[r2].pkgs : SameParcel(packages'[p], packages[p])
    <3>1. \A p \in routes[r2].pkgs : p \in PackageIds
      BY DEF Inv, RoutePackageLinks, LivePackages
    <3>2. \A p \in PackageIds : SameParcel(packages'[p], packages[p])
      BY <1>9, <1>10 DEF SameParcel
    <3> QED BY <1>17, <3>1, <3>2
  <2> QED BY <1>17, <2>1, <2>2, LoadKept
<1> QED BY <1>14, <1>15, <1>16, <1>20, <1>21, <1>22, <1>23 DEF Inv

-----------------------------------------------------------------------------
(* The theorems                                                            *)

LEMMA NextInv == Inv /\ [Next]_vars => Inv'
<1> SUFFICES ASSUME Inv, [Next]_vars PROVE Inv'
  OBVIOUS
<1>1. CASE UNCHANGED vars
  <2>1. TypeOK' /\ FreshIds'
    BY <1>1 DEF Inv, TypeOK, FreshIds, vars
  <2>2. JobOK'
    BY <1>1 DEF Inv, JobOK, LiveRoutes, vars
  <2> QED BY <1>1, <2>1, <2>2, LinksUnchanged DEF Inv, Links, vars
<1>2. CASE Next
  BY <1>2, CreateRouteInv, CreatePackageInv, AssignPackagesToRouteInv, AssignPackageInv, SkipPackageInv,
     AssignTruckToRouteInv, RemoveRouteInv, RemovePackageInv, HeartbeatInv, ReconcileRouteInv,
     ReconcileRouteFailsInv, TickInv, SetClockBackInv DEF Next
<1> QED BY <1>1, <1>2

\* Inv is an inductive invariant of the specification.
THEOREM InvHolds == Spec => []Inv
BY InitInv, NextInv, PTL DEF Spec

\* The shape of the three repositories is preserved by every handler, however
\* its loop ends: no field of a route, package or truck ever gets a value its
\* class does not have, arrival times included.
THEOREM TypeCorrect == Spec => []TypeOK
<1>1. Inv => TypeOK
  BY DEF Inv
<1> QED BY <1>1, InvHolds, PTL

\* assign_truck, release_truck, remove_route and the heartbeat keep
\* DeliveryRoute.truck and Truck.route in step, and the truck's window equal to
\* its route's schedule, even if the clock is set back.
THEOREM TruckLinksHold == Spec => []RouteTruckLinks
<1>1. Inv => RouteTruckLinks
  BY DEF Inv
<1> QED BY <1>1, InvHolds, PTL

\* The same for DeliveryRoute.packages and DeliveryPackage.route: a batch that
\* fails half-way, a removal or a heartbeat never leaves a dangling package.
THEOREM PackageLinksHold == Spec => []RoutePackageLinks
<1>1. Inv => RoutePackageLinks
  BY DEF Inv
<1> QED BY <1>1, InvHolds, PTL

\* No sequence of assignments, removals and heartbeats loads a segment beyond
\* the capacity of the truck, or sends a truck beyond its range.
THEOREM CapacityHolds == Spec => []TruckNeverOverloaded
<1>1. Inv => TruckNeverOverloaded
  BY DEF Inv
<1> QED BY <1>1, InvHolds, PTL

\* A truck under way is always at a stop of its own route.
THEOREM TruckOnItsPathHolds == Spec => []TruckOnItsPath
<1>1. Inv => TruckOnItsPath
  BY DEF Inv
<1> QED BY <1>1, InvHolds, PTL

-----------------------------------------------------------------------------
(* Customers                                                               *)

\* No step of a route changes whose a package is.
SameOwners ==
    /\ accounts' = accounts
    /\ LivePackages' = LivePackages
    /\ \A p \in LivePackages : packages'[p].customer = packages[p].customer

LEMMA SameOwnersKeepLinks ==
  ASSUME OwnerLinks, SameOwners PROVE OwnerLinks'
BY DEF OwnerLinks, SameOwners

LEMMA PackagesUnchangedOwners ==
  ASSUME UNCHANGED <<packages, accounts>> PROVE SameOwners
BY DEF SameOwners, LivePackages

LEMMA ReconciledPackageOwner ==
  ASSUME NEW q \in Package, NEW R, NEW now
  PROVE  ReconciledPackage(q, R, now) # NoPackage => ReconciledPackage(q, R, now).customer = q.customer
<1>1. \A s, l, e : [q EXCEPT !.status = s, !.loc = l, !.eta = e].customer = q.customer
  BY DEF Package
<1> DEFINE pickup == ArrivalTimeAt(R.path, R.dep, q.start)
           delivery == ArrivalTimeAt(R.path, R.dep, q.end)
           last == LastReachedCity(R.path, R.dep, q.start, q.end, now)
           due == [q EXCEPT !.eta = delivery]
<1>3. CASE R.dep = None \/ ~ IncludesInOrder(R.path, q.start, q.end)
  BY <1>1, <1>3 DEF ReconciledPackage
<1>4. CASE ~ (R.dep = None \/ ~ IncludesInOrder(R.path, q.start, q.end))
  <2>1. due.customer = q.customer /\ \A s, l : [due EXCEPT !.status = s, !.loc = l].customer = due.customer
    BY DEF Package
  <2>2. CASE now < pickup
    BY <1>4, <2>1, <2>2 DEF ReconciledPackage
  <2>3. CASE ~ (now < pickup) /\ now >= pickup /\ now >= delivery
    BY <1>4, <2>1, <2>3 DEF ReconciledPackage
  <2>4. CASE ~ (now < pickup) /\ ~ (now >= pickup /\ now >= delivery)
    BY <1>4, <2>1, <2>4 DEF ReconciledPackage
  <2> QED BY <2>2, <2>3, <2>4
<1> QED BY <1>3, <1>4

LEMMA OwnerStep ==
  ASSUME Inv, Inv', OwnerLinks, [Next]_vars PROVE OwnerLinks'
<1>1. CASE UNCHANGED vars
  BY <1>1, PackagesUnchangedOwners, SameOwnersKeepLinks DEF vars
<1>2. ASSUME NEW parcel \in Parcels, NEW c \in Customers, CreatePackage(parcel, c)
      PROVE  OwnerLinks'
  <2> DEFINE n == nextPackageId
  <2>1. n \in PackageIds /\ packages[n] = NoPackage
    BY <1>2, BoundAssumption DEF Inv, FreshIds, CreatePackage, PackageIds
  <2>2. /\ packages'[n] # NoPackage /\ packages'[n].customer = c
        /\ \A p \in PackageIds : p # n => packages'[p] = packages[p]
    <3> DEFINE N == [start |-> parcel.start, end |-> parcel.end, weight |-> parcel.weight,
                     customer |-> c, route |-> None, status |-> "TODO", loc |-> parcel.start,
                     eta |-> None]
    <3>1. N \in Package /\ N.customer = c
      BY ParcelsAssumption DEF Package, ItemStatus, OptionalTime
    <3>2. packages' = [packages EXCEPT ![n] = N]
      BY <1>2 DEF CreatePackage
    <3> HIDE DEF N
    <3> QED BY <2>1, <3>1, <3>2, SentinelAssumption DEF Inv, TypeOK
  <2>3. \A d \in Customers : accounts'[d] = IF d = c THEN accounts[d] \cup {n} ELSE accounts[d]
    BY <1>2 DEF CreatePackage, Inv, TypeOK
  <2>4. ASSUME NEW d \in Customers
        PROVE  accounts'[d] = {p \in PackageIds : packages'[p] # NoPackage /\ packages'[p].customer = d}
    <3>1. accounts[d] = {p \in PackageIds : packages[p] # NoPackage /\ packages[p].customer = d}
      BY DEF OwnerLinks, LivePackages
    <3>2. CASE d = c
      BY <2>1, <2>2, <2>3, <3>1, <3>2
    <3>3. CASE d # c
      BY <2>1, <2>2, <2>3, <3>1, <3>3
    <3> QED BY <3>2, <3>3
  <2> QED BY <2>4 DEF OwnerLinks, LivePackages
<1>3. ASSUME NEW p \in PackageIds, RemovePackage(p)
      PROVE  OwnerLinks'
  <2>1. p \in LivePackages /\ packages[p].customer \in Customers
    BY <1>3 DEF RemovePackage, LivePackages, Inv, TypeOK, Package
  <2>2. /\ packages'[p] = NoPackage
        /\ \A p2 \in PackageIds : p2 # p => packages'[p2] = packages[p2]
    BY <1>3 DEF RemovePackage, Inv, TypeOK
  <2>3. \A d \in Customers : accounts'[d] = IF d = packages[p].customer THEN accounts[d] \ {p} ELSE accounts[d]
    BY <1>3, <2>1 DEF RemovePackage, Inv, TypeOK
  <2>4. ASSUME NEW d \in Customers
        PROVE  accounts'[d] = {p2 \in PackageIds : packages'[p2] # NoPackage /\ packages'[p2].customer = d}
    <3>1. accounts[d] = {p2 \in PackageIds : packages[p2] # NoPackage /\ packages[p2].customer = d}
      BY DEF OwnerLinks, LivePackages
    <3>2. CASE d = packages[p].customer
      BY <2>1, <2>2, <2>3, <3>1, <3>2
    <3>3. CASE d # packages[p].customer
      BY <2>1, <2>2, <2>3, <3>1, <3>3
    <3> QED BY <3>2, <3>3
  <2> QED BY <2>4 DEF OwnerLinks, LivePackages
<1>4. ASSUME NEW p \in PackageIds, AssignPackage(p)
      PROVE  OwnerLinks'
  <2>1. p \in LivePackages /\ packages[p] \in Package /\ accounts' = accounts
    BY <1>4 DEF AssignPackage, AssignablePackage, LivePackages, Inv, TypeOK
  <2>2. PICK x, e : packages' = [packages EXCEPT ![p] = [packages[p] EXCEPT !.route = x, !.eta = e]]
    BY <1>4 DEF AssignPackage
  <2>3. /\ packages'[p] = [packages[p] EXCEPT !.route = x, !.eta = e]
        /\ \A p2 \in PackageIds : p2 # p => packages'[p2] = packages[p2]
    BY <2>2 DEF Inv, TypeOK
  <2>4. packages'[p].customer = packages[p].customer
    BY <2>1, <2>3 DEF Package
  <2>5. packages'[p] # NoPackage
    <3>1. p \in job.todo /\ job.kind = "assign" /\ job.route \in LiveRoutes
      BY <1>4 DEF AssignPackage, Inv, JobOK
    <3>2. routes'[job.route].pkgs = routes[job.route].pkgs \cup {p} /\ routes'[job.route] # NoRoute
      BY <1>4, <3>1, SentinelAssumption DEF AssignPackage, Inv, TypeOK, LiveRoutes, Route
    <3> QED BY <3>1, <3>2 DEF Inv, RoutePackageLinks, LiveRoutes, LivePackages
  <2> QED BY <2>1, <2>3, <2>4, <2>5, SameOwnersKeepLinks DEF SameOwners, LivePackages
<1>5. ASSUME NEW r \in RouteIds, RemoveRoute(r)
      PROVE  OwnerLinks'
  <2>1. \A p \in LivePackages : packages'[p].customer = packages[p].customer /\ packages'[p] # NoPackage
    <3> SUFFICES ASSUME NEW p \in LivePackages
        PROVE packages'[p].customer = packages[p].customer /\ packages'[p] # NoPackage
      OBVIOUS
    <3>1. p \in PackageIds /\ packages[p] \in Package
      BY DEF LivePackages, Inv, TypeOK
    <3>2. packages'[p] = IF p \in routes[r].pkgs THEN ResetPackage(packages[p]) ELSE packages[p]
      BY <1>5, <3>1 DEF RemoveRoute
    <3>3. /\ ResetPackage(packages[p]).customer = packages[p].customer
          /\ ResetPackage(packages[p]) \in Package
      BY <3>1 DEF ResetPackage, Package, ItemStatus, OptionalTime
    <3> QED BY <3>1, <3>2, <3>3, SentinelAssumption
  <2>2. \A p \in PackageIds : packages[p] = NoPackage => packages'[p] = NoPackage
    <3>1. r \in LiveRoutes
      BY <1>5 DEF RemoveRoute
    <3>2. routes[r].pkgs \subseteq LivePackages
      BY <3>1 DEF Inv, RoutePackageLinks
    <3> QED BY <1>5, <3>2 DEF RemoveRoute, LivePackages
  <2>3. accounts' = accounts
    BY <1>5 DEF RemoveRoute
  <2> QED BY <2>1, <2>2, <2>3, SameOwnersKeepLinks DEF SameOwners, LivePackages
<1>6. ASSUME NEW r \in RouteIds, ReconcileRoute(r)
      PROVE  OwnerLinks'
  <2>1. /\ packages' = [p \in PackageIds |->
             IF p \in routes[r].pkgs THEN ReconciledPackage(packages[p], routes[r], job.now) ELSE packages[p]]
        /\ accounts' = accounts
        /\ r \in LiveRoutes
    BY <1>6 DEF ReconcileRoute, NextInLoop, Inv, JobOK
  <2>2. /\ routes[r].pkgs \subseteq LivePackages
        /\ routes'[r].pkgs = routes[r].pkgs /\ routes'[r] # NoRoute
    <3>1. routes[r] \in Route /\ routes[r].pkgs \subseteq LivePackages
      BY <2>1 DEF Inv, RoutePackageLinks, LiveRoutes, TypeOK
    <3>2. routes'[r] = ReconciledRoute(routes[r], job.now)
      BY <1>6 DEF ReconcileRoute, Inv, TypeOK
    <3>3. ReconciledRoute(routes[r], job.now).pkgs = routes[r].pkgs
      BY <3>1 DEF ReconciledRoute, Route
    <3>4. /\ ComputeRouteStatus(routes[r].path, routes[r].dep, job.now) \in RouteStatus
      BY DEF ComputeRouteStatus, RouteStatus
    <3>5. \A s \in RouteStatus, t \in Trucks \cup {None} :
             [routes[r] EXCEPT !.status = s, !.truck = t] \in Route
      BY <3>1 DEF Route
    <3>6. (IF TruckReleases(routes[r], job.now) THEN None ELSE routes[r].truck) \in Trucks \cup {None}
      BY <3>1 DEF Route
    <3>7. ReconciledRoute(routes[r], job.now) \in Route
      BY <3>4, <3>5, <3>6 DEF ReconciledRoute
    <3> QED BY <3>1, <3>2, <3>3, <3>7, SentinelAssumption
  <2>3. routes[r].pkgs \subseteq LivePackages'
    BY <1>6, <2>2 DEF Inv, RoutePackageLinks, LiveRoutes
  <2>4. \A p \in LivePackages : packages'[p].customer = packages[p].customer /\ packages'[p] # NoPackage
    <3> SUFFICES ASSUME NEW p \in LivePackages
        PROVE  packages'[p].customer = packages[p].customer /\ packages'[p] # NoPackage
      OBVIOUS
    <3>1. p \in PackageIds /\ packages[p] \in Package
      BY DEF LivePackages, Inv, TypeOK
    <3>2. CASE p \in routes[r].pkgs
      <4>1. packages'[p] # NoPackage
        BY <2>3, <3>2 DEF LivePackages
      <4>2. packages'[p] = ReconciledPackage(packages[p], routes[r], job.now)
        BY <2>1, <3>1, <3>2
      <4> QED BY <3>1, <4>1, <4>2, ReconciledPackageOwner
    <3>3. CASE p \notin routes[r].pkgs
      BY <2>1, <3>1, <3>3 DEF LivePackages
    <3> QED BY <3>2, <3>3
  <2>5. \A p \in PackageIds : packages[p] = NoPackage => packages'[p] = NoPackage
    BY <2>1, <2>2 DEF LivePackages
  <2> QED BY <2>1, <2>4, <2>5, SameOwnersKeepLinks DEF SameOwners, LivePackages
<1>7. CASE UNCHANGED <<packages, accounts>>
  BY <1>7, PackagesUnchangedOwners, SameOwnersKeepLinks
<1>8. ASSUME Next PROVE
        \/ \E parcel \in Parcels, c \in Customers : CreatePackage(parcel, c)
        \/ \E p \in PackageIds : RemovePackage(p)
        \/ \E p \in PackageIds : AssignPackage(p)
        \/ \E r \in RouteIds : RemoveRoute(r)
        \/ \E r \in RouteIds : ReconcileRoute(r)
        \/ UNCHANGED <<packages, accounts>>
  BY <1>8 DEF Next, CreateRoute, AssignPackagesToRoute, SkipPackage, AssignTruckToRoute, Heartbeat,
              ReconcileRouteFails, Tick, SetClockBack
<1> QED BY <1>1, <1>2, <1>3, <1>4, <1>5, <1>6, <1>7, <1>8

\* create_package and remove_package keep Customer.delivery_packages equal to
\* the customer's packages in the repository, and nothing else touches either.
THEOREM OwnerLinksHold == Spec => []OwnerLinks
<1>1. Init => OwnerLinks
  BY DEF Init, OwnerLinks, LivePackages
<1>2. Inv /\ Inv' /\ OwnerLinks /\ [Next]_vars => OwnerLinks'
  BY OwnerStep
<1> QED BY <1>1, <1>2, InvHolds, PTL DEF Spec

-----------------------------------------------------------------------------
(* Trucks before their departure                                           *)

Waits(t) ==
    trucks[t].route # None /\ routes[trucks[t].route].status = "SCHEDULED" =>
        /\ trucks[t].loc = Start(routes[trucks[t].route].path)
        /\ trucks[t].transit = None

\* A truck that does not move, on a route that keeps its path and status.
LEMMA WaitsKept ==
  ASSUME NEW t \in Trucks, Waits(t), trucks'[t] = trucks[t],
         trucks[t].route # None =>
            /\ routes'[trucks[t].route].path = routes[trucks[t].route].path
            /\ routes'[trucks[t].route].status = routes[trucks[t].route].status
  PROVE  Waits(t)'
BY DEF Waits

LEMMA LeasedRoute ==
  ASSUME Inv, NEW t \in Trucks, trucks[t].route # None
  PROVE  /\ trucks[t].route \in LiveRoutes
         /\ trucks[t].route \in RouteIds
         /\ routes[trucks[t].route] \in Route
         /\ routes[trucks[t].route].truck = t
BY LiveRouteFacts DEF Inv, RouteTruckLinks

\* Before its departure a route is at its first stop.
LEMMA ReconciledBeforeStart ==
  ASSUME NEW T \in Truck, NEW r \in RouteIds, NEW R \in Route, NEW now \in Nat,
         ComputeRouteStatus(R.path, R.dep, now) = "SCHEDULED"
  PROVE  /\ ReconciledTruck(T, r, R, now).loc = Start(R.path)
         /\ ReconciledTruck(T, r, R, now).transit = None
<1>1. R.dep # None /\ now < R.dep
  BY DEF ComputeRouteStatus
<1>2. PositionAt(R.path, R.dep, now) = Standing("BEFORE_START", Start(R.path))
  BY <1>1 DEF PositionAt
<1>3. /\ PositionAt(R.path, R.dep, now).kind = "BEFORE_START"
      /\ PositionAt(R.path, R.dep, now).stop = Start(R.path)
  BY <1>2 DEF Standing
<1>4. ~ TruckReleases(R, now)
  BY <1>3 DEF TruckReleases
<1>5. ReconciledTruck(T, r, R, now) =
        [[T EXCEPT !.route = r] EXCEPT !.loc = Start(R.path), !.transit = None]
  BY <1>3, <1>4 DEF ReconciledTruck
<1> QED BY <1>5 DEF Truck

LEMMA WaitsStep ==
  ASSUME Inv, Inv', TruckWaitsAtStart, [Next]_vars
  PROVE  TruckWaitsAtStart'
<1> SUFFICES ASSUME NEW t \in Trucks PROVE Waits(t)'
  BY DEF TruckWaitsAtStart, Waits
<1>1. \A u \in Trucks : Waits(u)
  BY DEF TruckWaitsAtStart, Waits
<1> DEFINE s == trucks[t].route
<1>2. CASE UNCHANGED <<routes, trucks>>
  BY <1>1, <1>2, WaitsKept
<1>3. ASSUME NEW path \in Paths, NEW dep \in Departures, CreateRoute(path, dep)
      PROVE  Waits(t)'
  <2>1. trucks' = trucks /\ \A r \in RouteIds : r # nextRouteId => routes'[r] = routes[r]
    BY <1>3 DEF CreateRoute, Inv, TypeOK
  <2>2. s # None => s # nextRouteId
    BY <1>3, LeasedRoute, BoundAssumption DEF CreateRoute, Inv, FreshIds, LiveRoutes, RouteIds
  <2> QED BY <1>1, <2>1, <2>2, LeasedRoute, WaitsKept
<1>4. ASSUME NEW p \in PackageIds, AssignPackage(p)
      PROVE  Waits(t)'
  <2>1. trucks' = trucks /\ routes' = [routes EXCEPT ![job.route].pkgs = @ \cup {p}]
    BY <1>4 DEF AssignPackage
  <2>2. s # None => routes'[s].path = routes[s].path /\ routes'[s].status = routes[s].status
    BY <2>1, LeasedRoute DEF Inv, TypeOK, Route
  <2> QED BY <1>1, <2>1, <2>2, WaitsKept
<1>5. ASSUME NEW p \in PackageIds, RemovePackage(p)
      PROVE  Waits(t)'
  <2> DEFINE r == packages[p].route
  <2>1. trucks' = trucks /\ routes' = IF r = None THEN routes ELSE [routes EXCEPT ![r].pkgs = @ \ {p}]
    BY <1>5 DEF RemovePackage
  <2>2. s # None => routes'[s].path = routes[s].path /\ routes'[s].status = routes[s].status
    BY <2>1, LeasedRoute DEF Inv, TypeOK, Route
  <2> QED BY <1>1, <2>1, <2>2, WaitsKept
<1>6. ASSUME NEW r \in RouteIds, NEW u \in Trucks, AssignTruckToRoute(r, u)
      PROVE  Waits(t)'
  <2> DEFINE S == Scheduled(routes[r])
  <2>1. /\ routes[r] \in Route /\ routes[r].truck = None
        /\ TruckSuitable(u, routes[r], S.dep)
        /\ trucks[u].route = None /\ trucks[u] \in Truck
        /\ routes' = [routes EXCEPT ![r] = [S EXCEPT !.truck = u]]
        /\ trucks' = [trucks EXCEPT ![u] =
              [trucks[u] EXCEPT !.route = r, !.status = "ON_THE_WAY", !.busyFrom = S.dep,
                                !.busyUntil = EtaFinal(S.path, S.dep), !.transit = None]]
    BY <1>6, LiveRouteFacts DEF AssignTruckToRoute, TruckTakeable, Inv, TypeOK
  <2>2. trucks[u].loc = Start(routes[r].path)
    BY <2>1 DEF TruckSuitable
  <2>3. S.path = routes[r].path
    BY <2>1 DEF Scheduled, Route
  <2>4. CASE t = u
    <3>1. routes'[r] = [S EXCEPT !.truck = u]
      BY <2>1 DEF Inv, TypeOK
    <3>2. routes'[r].path = routes[r].path
      BY <2>1, <2>3, <3>1 DEF Scheduled, Route
    <3>3. PICK from, until :
             trucks'[u] = [trucks[u] EXCEPT !.route = r, !.status = "ON_THE_WAY", !.busyFrom = from,
                                            !.busyUntil = until, !.transit = None]
      BY <2>1 DEF Inv, TypeOK
    <3>4. trucks'[u].route = r /\ trucks'[u].loc = trucks[u].loc /\ trucks'[u].transit = None
      <4>1. trucks[u] \in Truck
        BY <2>1
      <4> QED BY <3>3, <4>1 DEF Truck
    <3> QED BY <2>2, <2>4, <3>2, <3>4 DEF Waits
  <2>5. CASE t # u
    <3>1. trucks'[t] = trucks[t]
      BY <2>1, <2>5 DEF Inv, TypeOK
    <3>2. s # None => s # r /\ routes'[s] = routes[s]
      BY <2>1, LeasedRoute, FleetAssumption DEF Inv, TypeOK
    <3> QED BY <1>1, <3>1, <3>2, WaitsKept
  <2> QED BY <2>4, <2>5
<1>7. ASSUME NEW r \in RouteIds, RemoveRoute(r)
      PROVE  Waits(t)'
  <2>1. /\ r \in LiveRoutes /\ routes' = [routes EXCEPT ![r] = NoRoute]
        /\ \A u \in Trucks : u # routes[r].truck => trucks'[u] = trucks[u]
        /\ routes[r].truck # None =>
             trucks' = [trucks EXCEPT ![routes[r].truck] =
                          ReleasedTruck(routes[trucks[routes[r].truck].route].path)]
    BY <1>7 DEF RemoveRoute, Inv, TypeOK
  <2>2. CASE t # routes[r].truck
    <3>1. s # None => s # r /\ routes'[s] = routes[s]
      BY <2>1, <2>2, LeasedRoute DEF Inv, TypeOK
    <3> QED BY <1>1, <2>1, <2>2, <3>1, WaitsKept
  <2>3. CASE t = routes[r].truck
    <3>1. trucks'[t] = ReleasedTruck(routes[trucks[t].route].path)
      BY <2>1, <2>3, FleetAssumption DEF Inv, TypeOK
    <3>2. trucks'[t].route = None
      BY <3>1 DEF ReleasedTruck, FreeTruck
    <3> QED BY <3>2 DEF Waits
  <2> QED BY <2>2, <2>3
<1>8. ASSUME NEW r \in RouteIds, ReconcileRoute(r)
      PROVE  Waits(t)'
  <2> DEFINE R == routes[r]
             now == job.now
  <2>1. /\ r \in LiveRoutes /\ R \in Route /\ now \in Nat
        /\ routes' = [routes EXCEPT ![r] = ReconciledRoute(R, now)]
        /\ trucks' = IF R.truck = None THEN trucks
                     ELSE [trucks EXCEPT ![R.truck] = ReconciledTruck(trucks[R.truck], r, R, now)]
    BY <1>8, LiveRouteFacts DEF ReconcileRoute, NextInLoop, Inv, JobOK, TypeOK, Job, Times
  <2>2. CASE t # R.truck
    <3>1. trucks'[t] = trucks[t]
      BY <2>1, <2>2 DEF Inv, TypeOK
    <3>2. s # None => s # r /\ routes'[s] = routes[s]
      BY <2>1, <2>2, LeasedRoute DEF Inv, TypeOK
    <3> QED BY <1>1, <3>1, <3>2, WaitsKept
  <2>3. CASE t = R.truck
    <3>1. trucks'[t] = ReconciledTruck(trucks[t], r, R, now) /\ trucks[t] \in Truck /\ t # None
      BY <2>1, <2>3, FleetAssumption DEF Inv, TypeOK
    <3>2. routes'[r] = ReconciledRoute(R, now)
      BY <2>1 DEF Inv, TypeOK
    <3>3. /\ ReconciledRoute(R, now).status = ComputeRouteStatus(R.path, R.dep, now)
          /\ ReconciledRoute(R, now).path = R.path
      BY <2>1 DEF ReconciledRoute, Route
    <3>4. SUFFICES ASSUME trucks'[t].route # None, routes'[trucks'[t].route].status = "SCHEDULED"
                   PROVE  /\ trucks'[t].loc = Start(routes'[trucks'[t].route].path)
                          /\ trucks'[t].transit = None
      BY DEF Waits
    <3>5. trucks'[t].route = r
      <4>1. trucks[t].route = r /\ IsRoutePath(R.path)
        BY <2>1, <2>3, <3>1, LiveRouteFacts DEF Inv, RouteTruckLinks
      <4>2. TruckReleases(R, now) => trucks'[t] = FreeTruck(End(R.path))
        BY <2>1, <3>1, <4>1, ReconciledTruckFacts
      <4>3. ~ TruckReleases(R, now) => trucks'[t].route = r
        BY <2>1, <3>1, <4>1, ReconciledTruckFacts
      <4> QED BY <3>4, <4>2, <4>3 DEF FreeTruck
    <3>6. ComputeRouteStatus(R.path, R.dep, now) = "SCHEDULED"
      BY <3>2, <3>3, <3>4, <3>5
    <3>7. trucks'[t].loc = Start(R.path) /\ trucks'[t].transit = None
      BY <2>1, <3>1, <3>6, ReconciledBeforeStart
    <3> QED BY <3>2, <3>3, <3>5, <3>7
  <2> QED BY <2>2, <2>3
<1>9. ASSUME Next PROVE
        \/ \E path \in Paths, dep \in Departures : CreateRoute(path, dep)
        \/ \E p \in PackageIds : AssignPackage(p)
        \/ \E p \in PackageIds : RemovePackage(p)
        \/ \E r \in RouteIds, u \in Trucks : AssignTruckToRoute(r, u)
        \/ \E r \in RouteIds : RemoveRoute(r)
        \/ \E r \in RouteIds : ReconcileRoute(r)
        \/ UNCHANGED <<routes, trucks>>
  BY <1>9 DEF Next, CreatePackage, AssignPackagesToRoute, SkipPackage, Heartbeat,
              ReconcileRouteFails, Tick, SetClockBack
<1>10. UNCHANGED vars => UNCHANGED <<routes, trucks>>
  BY DEF vars
<1> QED BY <1>2, <1>3, <1>4, <1>5, <1>6, <1>7, <1>8, <1>9, <1>10

\* A truck assigned to a route waits at its first stop until a heartbeat sees
\* the route depart, even if the clock is set back in between.
THEOREM TruckWaitsHolds == Spec => []TruckWaitsAtStart
<1>1. Init => TruckWaitsAtStart
  BY DEF Init, TruckWaitsAtStart, FreeTruck
<1>2. Inv /\ Inv' /\ TruckWaitsAtStart /\ [Next]_vars => TruckWaitsAtStart'
  BY WaitsStep
<1> QED BY <1>1, <1>2, InvHolds, PTL DEF Spec

-----------------------------------------------------------------------------
(* When a route hands its truck back                                       *)

\* From the final arrival on, whenever a heartbeat or a load looks at it.
LEMMA ReleasedFromTheEndOn ==
  ASSUME NEW R, IsRoutePath(R.path), R.dep \in Nat \cup {None}, NEW now \in Nat
  PROVE  TruckReleases(R, now) <=> R.dep # None /\ now >= R.dep + TotalDistance(R.path)
<1> DEFINE path == R.path
           dep == R.dep
           n == Len(path)
           off == StopOffsets(path)
           P == PositionAt(path, dep, now)
           stops == StopsReachedAt(path, dep, now)
           legs == LegsUnderWayAt(path, dep, now)
<1>1. n \in Nat /\ n >= 2
  BY PathFacts
<1>2. \A i \in 1..n : off[i] \in Nat
  BY OffsetsType
<1>3. \A i, j \in 1..n : i < j => off[i] < off[j]
  BY StopsInOrder
<1>4. off[1] = 0
  BY OffsetSteps
<1>5. \A i, j \in 1..n : path[i] = path[j] => i = j
  BY DEF IsRoutePath
<1>6. TruckReleases(R, now) <=> \/ P.kind = "AT_STOP" /\ P.stop = path[n]
                                \/ P.kind = "AFTER_END"
  BY DEF TruckReleases, End
<1>7. TotalDistance(path) = off[n]
  BY DEF TotalDistance
<1>8. stops = {i \in 2..n : now = dep + off[i]}
  BY DEF StopsReachedAt, StopTime
<1>9. legs = {i \in 1..(n - 1) : dep + off[i] <= now /\ now < dep + off[i + 1]}
  BY DEF LegsUnderWayAt, StopTime
<1>10. CASE dep = None
  <2>1. P = Standing("UNSCHEDULED", Start(path))
    BY <1>10 DEF PositionAt
  <2>2. P.kind = "UNSCHEDULED"
    BY <2>1 DEF Standing
  <2> QED BY <1>6, <1>10, <2>2
<1>11. CASE dep # None
  <2>1. dep \in Nat
    BY <1>11
  <2> HIDE DEF path, dep, off, n
  <2>2. CASE now < dep
    <3>1. P = Standing("BEFORE_START", Start(path))
      BY <1>11, <2>2 DEF PositionAt
    <3>2. P.kind = "BEFORE_START"
      BY <3>1 DEF Standing
    <3>3. off[n] \in Nat
      BY <1>1, <1>2
    <3> QED BY <1>6, <1>7, <2>1, <2>2, <3>2, <3>3 DEF path, dep
  <2>3. CASE ~ (now < dep) /\ stops # {}
    <3> DEFINE i == CHOOSE k \in stops : TRUE
    <3>1. P = Standing("AT_STOP", path[i])
      BY <1>11, <2>3 DEF PositionAt
    <3>2. i \in stops
      BY <2>3
    <3> HIDE DEF i
    <3>3. i \in 1..n /\ now = dep + off[i] /\ n \in 1..n
      BY <1>1, <1>8, <3>2
    <3>4. P.kind = "AT_STOP" /\ P.stop = path[i]
      BY <3>1 DEF Standing
    <3>5. TruckReleases(R, now) <=> i = n
      BY <1>5, <1>6, <3>3, <3>4
    <3>6. i = n <=> now >= dep + off[n]
      <4>1. i = n => now >= dep + off[n]
        BY <1>2, <2>1, <3>3
      <4>2. i # n => i < n
        BY <1>1, <3>3
      <4>3. i # n => off[i] < off[n] /\ off[i] \in Nat /\ off[n] \in Nat
        BY <1>2, <1>3, <3>3, <4>2
      <4> QED BY <2>1, <3>3, <4>1, <4>3
    <3> QED BY <1>7, <1>11, <3>5, <3>6 DEF path, dep
  <2>4. CASE ~ (now < dep) /\ stops = {} /\ legs # {}
    <3> DEFINE i == CHOOSE k \in legs : TRUE
    <3>1. P = Driving(path[i], path[i + 1])
      BY <1>11, <2>4 DEF PositionAt
    <3>2. i \in legs
      BY <2>4
    <3> HIDE DEF i
    <3>3. P.kind = "IN_TRANSIT"
      BY <3>1 DEF Driving
    <3>4. i + 1 \in 1..n /\ n \in 1..n /\ now < dep + off[i + 1]
      BY <1>1, <1>9, <3>2
    <3>5. off[i + 1] <= off[n] /\ off[i + 1] \in Nat /\ off[n] \in Nat
      <4>1. i + 1 = n \/ i + 1 < n
        BY <1>1, <3>4
      <4>2. off[i + 1] \in Nat /\ off[n] \in Nat
        BY <1>2, <3>4
      <4>3. i + 1 < n => off[i + 1] < off[n]
        BY <1>3, <3>4
      <4> QED BY <4>1, <4>2, <4>3
    <3>6. ~ (now >= dep + off[n])
      BY <2>1, <3>4, <3>5
    <3> QED BY <1>6, <1>7, <3>3, <3>6 DEF path, dep
  <2>5. CASE ~ (now < dep) /\ stops = {} /\ legs = {}
    <3>1. P = Standing("AFTER_END", End(path))
      BY <1>11, <2>5 DEF PositionAt
    <3>2. P.kind = "AFTER_END"
      BY <3>1 DEF Standing
    <3> DEFINE reached == {i \in 1..n : dep + off[i] <= now}
    <3>3. 1 \in reached
      BY <1>1, <1>4, <2>1, <2>5
    <3>4. PICK i \in reached : \A j \in reached : j <= i
      <4>1. reached \in SUBSET (1..n) /\ reached # {}
        BY <3>3
      <4> HIDE DEF reached
      <4> QED BY <1>1, <4>1, LargestExists
    <3>5. i = n
      <4> SUFFICES ASSUME i # n PROVE FALSE
        OBVIOUS
      <4>1. i \in 1..(n - 1) /\ i + 1 \in 1..n /\ i + 1 > i
        BY <1>1, <3>4
      <4>2. ~ (now < dep + off[i + 1])
        BY <1>9, <2>5, <3>4, <4>1
      <4>3. off[i + 1] \in Nat
        BY <1>2, <4>1
      <4>4. i + 1 \in reached
        BY <2>1, <4>1, <4>2, <4>3
      <4> QED BY <3>4, <4>1, <4>4
    <3>6. off[n] \in Nat
      BY <1>1, <1>2
    <3>7. now >= dep + off[n]
      BY <2>1, <3>4, <3>5, <3>6
    <3> QED BY <1>6, <1>7, <1>11, <3>2, <3>7 DEF path, dep
  <2> QED BY <2>2, <2>3, <2>4, <2>5
<1> QED BY <1>10, <1>11

-----------------------------------------------------------------------------
(* The present of the handler in progress                                  *)

\* A handler reads the clock once and goes on with that instant.
Present == IF job.kind = "idle" THEN clock ELSE job.now

JobNotAhead == job.kind # "idle" => job.now <= clock

RouteTimely(R, now) ==
    /\ R.status = "PLANNED" <=> R.dep = None
    /\ R.status = "IN_PROGRESS" => R.dep <= now
    /\ R.status = "COMPLETED" => EtaFinal(R.path, R.dep) <= now

PackageTimely(q, R, now) ==
    /\ q.status # "TODO" => R.dep # None /\ ArrivalTimeAt(R.path, R.dep, q.start) <= now
    /\ q.status = "DONE" => ArrivalTimeAt(R.path, R.dep, q.end) <= now /\ q.loc = q.end
    /\ R.status = "COMPLETED" => q.status = "DONE"

Timely ==
    /\ JobNotAhead
    /\ \A r \in LiveRoutes : RouteTimely(routes[r], Present)
    /\ \A p \in LivePackages : packages[p].route # None =>
          PackageTimely(packages[p], routes[packages[p].route], Present)

LEMMA PresentType == TypeOK => Present \in Nat /\ clock \in Nat /\ job.now \in Nat
BY DEF TypeOK, Present, Job, Times

\* The present never moves back.
LEMMA PresentAdvances ==
  ASSUME Inv, JobNotAhead, [Next]_vars, MaxClockBack = 0
  PROVE  Present <= Present' /\ JobNotAhead'
<1>1. Present \in Nat /\ clock \in Nat /\ job.now \in Nat
  BY PresentType DEF Inv
<1>2. job.kind \in {"idle", "assign", "heartbeat"} /\ job \in Job
  BY DEF Inv, TypeOK, Job
<1>3. CASE UNCHANGED <<clock, job>>
  BY <1>1, <1>3 DEF Present, JobNotAhead
<1>4. CASE Tick
  BY <1>1, <1>4 DEF Present, JobNotAhead, Tick
<1>5. ASSUME NEW x, job.kind # "idle", job' = LoopAfter(x), clock' = clock
      PROVE  Present <= Present' /\ JobNotAhead'
  <2>1. CASE job' = Idle
    BY <1>1, <1>5, <2>1 DEF Present, JobNotAhead, Idle
  <2>2. CASE job' # Idle
    <3>1. job' = [job EXCEPT !.todo = @ \ {x}]
      BY <1>5, <2>2 DEF LoopAfter
    <3>2. job'.kind = job.kind /\ job'.now = job.now
      BY <1>2, <3>1 DEF Job
    <3> QED BY <1>1, <1>5, <3>2 DEF Present, JobNotAhead
  <2> QED BY <2>1, <2>2
<1>6. ASSUME NEW r \in RouteIds, NEW ids \in SUBSET PackageIds \ {{}}, AssignPackagesToRoute(r, ids)
      PROVE  Present <= Present' /\ JobNotAhead'
  BY <1>1, <1>6 DEF AssignPackagesToRoute, Present, JobNotAhead
<1>7. CASE Heartbeat
  <2>1. job' = Idle \/ (job'.kind = "heartbeat" /\ job'.now = clock)
    BY <1>7 DEF Heartbeat
  <2>2. clock' = clock /\ job.kind = "idle"
    BY <1>7 DEF Heartbeat
  <2> QED BY <1>1, <2>1, <2>2 DEF Present, JobNotAhead, Idle
<1>8. \A by \in 1..MaxClockBack : FALSE
  OBVIOUS
<1>9. Next => \/ UNCHANGED <<clock, job>>
              \/ Tick
              \/ \E x : job.kind # "idle" /\ job' = LoopAfter(x) /\ clock' = clock
              \/ \E r \in RouteIds, ids \in SUBSET PackageIds \ {{}} : AssignPackagesToRoute(r, ids)
              \/ Heartbeat
  BY <1>8 DEF Next, CreateRoute, CreatePackage, AssignPackage, SkipPackage, AssignTruckToRoute,
     RemoveRoute, RemovePackage, ReconcileRoute, ReconcileRouteFails, NextInLoop
<1> QED BY <1>3, <1>4, <1>5, <1>6, <1>7, <1>9 DEF vars

-----------------------------------------------------------------------------
(* What stays true                                                         *)

SameSchedule(R2, R) == R2.path = R.path /\ R2.dep = R.dep /\ R2.status = R.status

\* What was timely once is timely later.
LEMMA RouteTimelyLater ==
  ASSUME NEW R \in Route, NEW R2, SameSchedule(R2, R), IsRoutePath(R.path),
         NEW now \in Nat, NEW later \in Nat, now <= later, RouteTimely(R, now)
  PROVE  RouteTimely(R2, later)
<1>1. R.dep \in Nat \cup {None}
  BY DEF Route, OptionalTime, Times
<1>2. R.dep # None => EtaFinal(R.path, R.dep) \in Nat
  BY <1>1, ArrivalTimeType
<1>3. /\ R.status = "PLANNED" <=> R.dep = None
      /\ R.status = "IN_PROGRESS" => R.dep <= now
      /\ R.status = "COMPLETED" => EtaFinal(R.path, R.dep) <= now
  BY DEF RouteTimely
<1>4. R.status = "IN_PROGRESS" => R.dep <= later
  BY <1>1, <1>3
<1>5. R.status = "COMPLETED" => EtaFinal(R.path, R.dep) <= later
  <2> SUFFICES ASSUME R.status = "COMPLETED" PROVE EtaFinal(R.path, R.dep) <= later
    OBVIOUS
  <2>1. EtaFinal(R.path, R.dep) \in Nat /\ EtaFinal(R.path, R.dep) <= now
    BY <1>2, <1>3
  <2> QED BY <2>1
<1> QED BY <1>3, <1>4, <1>5 DEF RouteTimely, SameSchedule

SameProgress(q2, q) == SameParcel(q2, q) /\ q2.status = q.status /\ q2.loc = q.loc

LEMMA PackageTimelyLater ==
  ASSUME NEW q, NEW q2, SameProgress(q2, q), NEW R \in Route, NEW R2, SameSchedule(R2, R),
         IsRoutePath(R.path), IncludesInOrder(R.path, q.start, q.end),
         NEW now \in Nat, NEW later \in Nat, now <= later, PackageTimely(q, R, now)
  PROVE  PackageTimely(q2, R2, later)
<1>1. R.dep \in Nat \cup {None}
  BY DEF Route, OptionalTime, Times
<1>2. R.dep # None => /\ ArrivalTimeAt(R.path, R.dep, q.start) \in Nat
                      /\ ArrivalTimeAt(R.path, R.dep, q.end) \in Nat
  BY <1>1, ArrivalTimeType DEF IncludesInOrder
<1>3. q.status # "TODO" => R.dep # None /\ ArrivalTimeAt(R.path, R.dep, q.start) <= later
  <2> SUFFICES ASSUME q.status # "TODO"
      PROVE R.dep # None /\ ArrivalTimeAt(R.path, R.dep, q.start) <= later
    OBVIOUS
  <2>1. R.dep # None /\ ArrivalTimeAt(R.path, R.dep, q.start) <= now
    BY DEF PackageTimely
  <2> QED BY <1>2, <2>1
<1>4. q.status = "DONE" => ArrivalTimeAt(R.path, R.dep, q.end) <= later /\ q.loc = q.end
  <2> SUFFICES ASSUME q.status = "DONE"
      PROVE ArrivalTimeAt(R.path, R.dep, q.end) <= later /\ q.loc = q.end
    OBVIOUS
  <2>1. R.dep # None /\ ArrivalTimeAt(R.path, R.dep, q.end) <= now /\ q.loc = q.end
    BY DEF PackageTimely
  <2> QED BY <1>2, <2>1
<1> QED BY <1>3, <1>4 DEF PackageTimely, SameSchedule, SameProgress, SameParcel

\* A package that waits is timely on any route that has not completed.
LEMMA WaitingIsTimely ==
  ASSUME NEW q, NEW R, NEW now, q.status = "TODO", R.status # "COMPLETED"
  PROVE  PackageTimely(q, R, now)
BY DEF PackageTimely

\* A route that is over takes no more packages: its last stop has been reached,
\* and every pickup lies before it.
LEMMA OverTakesNothing ==
  ASSUME NEW R \in Route, IsRoutePath(R.path), R.dep # None, NEW p, NEW now \in Nat,
         EtaFinal(R.path, R.dep) <= now
  PROVE  ~ PackageAccepted(R, p, now)
<1> SUFFICES ASSUME PackageAccepted(R, p, now) PROVE FALSE
  OBVIOUS
<1> DEFINE path == R.path
           P == PositionAt(path, R.dep, now)
           pickup == packages[p].start
<1>1. IncludesInOrder(path, pickup, packages[p].end) /\ PickupNotPassed(path, R.dep, pickup, now)
  BY DEF PackageAccepted
<1>2. R.dep \in Nat
  BY DEF Route, OptionalTime, Times
<1>3. TruckReleases(R, now)
  BY <1>2, ReleasedFromTheEndOn, ArrivalTimeType DEF EtaFinal
<1>4. (P.kind = "AT_STOP" /\ P.stop = End(path)) \/ P.kind = "AFTER_END"
  BY <1>3 DEF TruckReleases
<1>5. PathIndex(path, End(path)) = Len(path) /\ Len(path) \in Nat
  BY PathIndexFacts, PathFacts DEF End
<1>6. PathIndex(path, pickup) < Len(path) /\ PathIndex(path, pickup) \in Nat
  BY <1>1, <1>5, PathIndexFacts DEF IncludesInOrder
<1> HIDE DEF P
<1>7. CASE P.kind = "AT_STOP" /\ P.stop = End(path)
  <2>1. PathIndex(path, P.stop) <= PathIndex(path, pickup)
    BY <1>1, <1>7 DEF PickupNotPassed, P
  <2> QED BY <1>5, <1>6, <1>7, <2>1
<1>8. CASE P.kind = "AFTER_END"
  BY <1>1, <1>8 DEF PickupNotPassed, P
<1> QED BY <1>4, <1>7, <1>8

-----------------------------------------------------------------------------
(* What a reconciliation makes of a route and its packages                 *)

LEMMA ArrivalOrder ==
  ASSUME NEW path, IsRoutePath(path), NEW dep \in Nat, NEW from, NEW to, IncludesInOrder(path, from, to)
  PROVE  /\ ArrivalTimeAt(path, dep, from) \in Nat /\ ArrivalTimeAt(path, dep, to) \in Nat
         /\ dep <= ArrivalTimeAt(path, dep, from)
         /\ ArrivalTimeAt(path, dep, from) < ArrivalTimeAt(path, dep, to)
         /\ EtaFinal(path, dep) \in Nat
         /\ ArrivalTimeAt(path, dep, to) <= EtaFinal(path, dep)
<1> DEFINE i == PathIndex(path, from)
           j == PathIndex(path, to)
           n == Len(path)
           off(k) == StopOffsets(path)[k]
<1>1. i \in 1..n /\ j \in 1..n /\ i < j /\ n \in Nat /\ n \in 1..n
  BY PathIndexFacts, PathFacts DEF IncludesInOrder
<1>2. \A k \in 1..n : off(k) \in Nat
  BY OffsetsType
<1>3. \A k, l \in 1..n : k < l => off(k) < off(l)
  BY StopsInOrder
<1>4. EtaFinal(path, dep) = dep + off(n)
  BY NoneAssumption DEF EtaFinal, TotalDistance
<1>5. ArrivalTimeAt(path, dep, from) = dep + off(i) /\ ArrivalTimeAt(path, dep, to) = dep + off(j)
  BY DEF ArrivalTimeAt
<1> HIDE DEF i, j, n, off
<1>6. off(i) \in Nat /\ off(j) \in Nat /\ off(n) \in Nat /\ off(i) < off(j)
  BY <1>1, <1>2, <1>3
<1>7. off(j) <= off(n)
  <2>1. j = n \/ j < n
    BY <1>1
  <2> QED BY <1>1, <1>3, <1>6, <2>1
<1> QED BY <1>4, <1>5, <1>6, <1>7

LEMMA ReconciledRouteFields ==
  ASSUME NEW R \in Route, NEW now
  PROVE  LET R2 == ReconciledRoute(R, now)
         IN  /\ R2.path = R.path /\ R2.dep = R.dep /\ R2.pkgs = R.pkgs
             /\ R2.status = ComputeRouteStatus(R.path, R.dep, now)
             /\ R2.truck = IF TruckReleases(R, now) THEN None ELSE R.truck
<1> DEFINE status == ComputeRouteStatus(R.path, R.dep, now)
           truck == IF TruckReleases(R, now) THEN None ELSE R.truck
<1>1. ReconciledRoute(R, now) = [R EXCEPT !.status = status, !.truck = truck]
  BY DEF ReconciledRoute
<1> HIDE DEF status, truck
<1>2. LET R2 == ReconciledRoute(R, now)
      IN  R2.path = R.path /\ R2.dep = R.dep /\ R2.pkgs = R.pkgs /\ R2.status = status /\ R2.truck = truck
  BY <1>1 DEF Route
<1> QED BY <1>2 DEF status, truck

\* The four statuses by the clock.
LEMMA StatusByClock ==
  ASSUME NEW R \in Route, IsRoutePath(R.path), NEW now \in Nat
  PROVE  LET status == ComputeRouteStatus(R.path, R.dep, now)
         IN  /\ status \in RouteStatus
             /\ status = "PLANNED" <=> R.dep = None
             /\ status = "SCHEDULED" <=> R.dep # None /\ now < R.dep
             /\ status = "COMPLETED" <=> R.dep # None /\ EtaFinal(R.path, R.dep) <= now
             /\ status = "IN_PROGRESS" => R.dep <= now
<1> DEFINE status == ComputeRouteStatus(R.path, R.dep, now)
<1>1. R.dep \in Nat \cup {None}
  BY DEF Route, OptionalTime, Times
<1>2. R.dep # None => R.dep \in Nat /\ EtaFinal(R.path, R.dep) \in Nat /\ R.dep <= EtaFinal(R.path, R.dep)
  <2> SUFFICES ASSUME R.dep # None
      PROVE R.dep \in Nat /\ EtaFinal(R.path, R.dep) \in Nat /\ R.dep <= EtaFinal(R.path, R.dep)
    OBVIOUS
  <2>1. R.dep \in Nat /\ TotalDistance(R.path) \in Nat
    BY <1>1, ArrivalTimeType
  <2> QED BY <2>1 DEF EtaFinal
<1>3. CASE R.dep = None
  <2>1. status = "PLANNED"
    BY <1>3 DEF ComputeRouteStatus
  <2> QED BY <1>3, <2>1 DEF RouteStatus
<1>4. CASE R.dep # None /\ now < R.dep
  <2>1. ~ (EtaFinal(R.path, R.dep) <= now) /\ ~ (now >= EtaFinal(R.path, R.dep))
    BY <1>2, <1>4
  <2>2. status = "SCHEDULED"
    BY <1>4, <2>1 DEF ComputeRouteStatus
  <2> QED BY <1>4, <2>1, <2>2 DEF RouteStatus
<1>5. CASE R.dep # None /\ ~ (now < R.dep) /\ now >= EtaFinal(R.path, R.dep)
  <2>1. status = "COMPLETED"
    BY <1>5 DEF ComputeRouteStatus
  <2>2. EtaFinal(R.path, R.dep) <= now
    BY <1>2, <1>5
  <2> QED BY <1>5, <2>1, <2>2 DEF RouteStatus
<1>6. CASE R.dep # None /\ ~ (now < R.dep) /\ ~ (now >= EtaFinal(R.path, R.dep))
  <2>1. status = "IN_PROGRESS"
    BY <1>6 DEF ComputeRouteStatus
  <2>2. R.dep <= now /\ ~ (EtaFinal(R.path, R.dep) <= now)
    BY <1>2, <1>6
  <2> QED BY <1>6, <2>1, <2>2 DEF RouteStatus
<1> QED BY <1>3, <1>4, <1>5, <1>6

\* A package's status by the clock.
LEMMA PackageByClock ==
  ASSUME NEW q \in Package, NEW R \in Route, IsRoutePath(R.path), NEW now \in Nat,
         IncludesInOrder(R.path, q.start, q.end)
  PROVE  LET q2 == ReconciledPackage(q, R, now)
         IN  /\ q2.status \in ItemStatus
             /\ q2.status = "TODO" <=> R.dep = None \/ now < ArrivalTimeAt(R.path, R.dep, q.start)
             /\ q2.status = "DONE" <=> R.dep # None /\ ArrivalTimeAt(R.path, R.dep, q.end) <= now
             /\ q2.status = "DONE" => q2.loc = q.end
             /\ q2.status = "IN_PROGRESS" =>
                  q2.loc = LastReachedCity(R.path, R.dep, q.start, q.end, now)
<1> DEFINE q2 == ReconciledPackage(q, R, now)
           pickup == ArrivalTimeAt(R.path, R.dep, q.start)
           delivery == ArrivalTimeAt(R.path, R.dep, q.end)
           last == LastReachedCity(R.path, R.dep, q.start, q.end, now)
<1>1. CASE R.dep = None
  <2>1. q2 = [q EXCEPT !.status = "TODO", !.loc = q.start, !.eta = None]
    BY <1>1 DEF ReconciledPackage
  <2>2. q2.status = "TODO"
    BY <2>1 DEF Package
  <2> QED BY <1>1, <2>2 DEF ItemStatus
<1>2. CASE R.dep # None
  <2>1. R.dep \in Nat
    BY <1>2 DEF Route, OptionalTime, Times
  <2>2. pickup \in Nat /\ delivery \in Nat /\ pickup < delivery
    BY <2>1, ArrivalOrder
  <2>3. CASE now < pickup
    <3>1. ~ (now >= pickup) /\ ~ (delivery <= now)
      BY <2>2, <2>3
    <3>2. q2 = [[q EXCEPT !.eta = delivery] EXCEPT !.status = "TODO", !.loc = q.start]
      BY <1>2, <2>3, <3>1 DEF ReconciledPackage
    <3>3. q2.status = "TODO"
      BY <3>2 DEF Package
    <3> QED BY <2>3, <3>1, <3>3 DEF ItemStatus
  <2>4. CASE ~ (now < pickup) /\ now >= pickup /\ now >= delivery
    <3>1. q2 = [[q EXCEPT !.eta = delivery] EXCEPT !.status = "DONE", !.loc = q.end]
      BY <1>2, <2>4 DEF ReconciledPackage
    <3>2. q2.status = "DONE" /\ q2.loc = q.end
      BY <3>1 DEF Package
    <3>3. delivery <= now
      BY <2>2, <2>4
    <3> QED BY <1>2, <2>4, <3>2, <3>3 DEF ItemStatus
  <2>5. CASE ~ (now < pickup) /\ ~ (now >= pickup /\ now >= delivery)
    <3>1. q2 = [[q EXCEPT !.eta = delivery] EXCEPT !.status = "IN_PROGRESS", !.loc = last]
      BY <1>2, <2>5 DEF ReconciledPackage
    <3> HIDE DEF last
    <3>2. q2.status = "IN_PROGRESS" /\ q2.loc = last
      BY <3>1 DEF Package
    <3>3. ~ (delivery <= now)
      BY <2>2, <2>5
    <3> QED BY <1>2, <2>5, <3>2, <3>3 DEF ItemStatus, last
  <2> QED BY <2>2, <2>3, <2>4, <2>5
<1> QED BY <1>1, <1>2

LEMMA ReconciledRouteTimely ==
  ASSUME NEW R \in Route, IsRoutePath(R.path), NEW now \in Nat
  PROVE  RouteTimely(ReconciledRoute(R, now), now)
BY ReconciledRouteFields, StatusByClock DEF RouteTimely

LEMMA ReconciledIsTimely ==
  ASSUME NEW q \in Package, NEW R \in Route, IsRoutePath(R.path), NEW now \in Nat,
         IncludesInOrder(R.path, q.start, q.end)
  PROVE  PackageTimely(ReconciledPackage(q, R, now), ReconciledRoute(R, now), now)
<1> DEFINE R2 == ReconciledRoute(R, now)
           q2 == ReconciledPackage(q, R, now)
<1>1. R2.path = R.path /\ R2.dep = R.dep /\ R2.status = ComputeRouteStatus(R.path, R.dep, now)
  BY ReconciledRouteFields
<1>2. q2.start = q.start /\ q2.end = q.end
  BY ReconciledPackageFacts DEF SameParcel
<1>4. R.dep # None => /\ R.dep \in Nat
                      /\ ArrivalTimeAt(R.path, R.dep, q.start) \in Nat
                      /\ ArrivalTimeAt(R.path, R.dep, q.end) \in Nat
                      /\ EtaFinal(R.path, R.dep) \in Nat
                      /\ ArrivalTimeAt(R.path, R.dep, q.end) <= EtaFinal(R.path, R.dep)
  BY ArrivalOrder DEF Route, OptionalTime, Times
<1>5. /\ q2.status = "TODO" <=> R.dep = None \/ now < ArrivalTimeAt(R.path, R.dep, q.start)
      /\ q2.status = "DONE" <=> R.dep # None /\ ArrivalTimeAt(R.path, R.dep, q.end) <= now
      /\ q2.status = "DONE" => q2.loc = q.end
  BY PackageByClock
<1>6. R2.status = "COMPLETED" => R.dep # None /\ EtaFinal(R.path, R.dep) <= now
  BY <1>1, StatusByClock
<1> HIDE DEF q2, R2
<1>7. q2.status # "TODO" => R.dep # None /\ ArrivalTimeAt(R.path, R.dep, q.start) <= now
  BY <1>4, <1>5
<1>8. R2.status = "COMPLETED" => q2.status = "DONE"
  BY <1>4, <1>5, <1>6
<1>9. PackageTimely(q2, R2, now)
  BY <1>1, <1>2, <1>5, <1>7, <1>8 DEF PackageTimely
<1> QED BY <1>9 DEF q2, R2

-----------------------------------------------------------------------------
(* What each handler does, entry by entry                                  *)

\* What every package on a route can rely on.
LEMMA OnRoute ==
  ASSUME Inv, NEW p \in LivePackages, packages[p].route # None
  PROVE  /\ packages[p] \in Package
         /\ packages[p].route \in LiveRoutes
         /\ packages[p].route \in RouteIds
         /\ p \in routes[packages[p].route].pkgs
         /\ routes[packages[p].route] \in Route
         /\ IsRoutePath(routes[packages[p].route].path)
         /\ IncludesInOrder(routes[packages[p].route].path, packages[p].start, packages[p].end)
<1>1. packages[p] \in Package
  BY DEF Inv, TypeOK, LivePackages
<1>2. /\ packages[p].route \in LiveRoutes
      /\ p \in routes[packages[p].route].pkgs
      /\ IncludesInOrder(routes[packages[p].route].path, packages[p].start, packages[p].end)
  BY DEF Inv, RoutePackageLinks
<1> QED BY <1>1, <1>2, LiveRouteFacts DEF Inv

LEMMA CreateRouteEffect ==
  ASSUME Inv, NEW path \in Paths, NEW dep \in Departures, CreateRoute(path, dep)
  PROVE  /\ nextRouteId \in RouteIds /\ routes[nextRouteId] = NoRoute
         /\ routes'[nextRouteId] # NoRoute
         /\ routes'[nextRouteId].dep = dep
         /\ routes'[nextRouteId].status = IF dep = None THEN "PLANNED" ELSE "SCHEDULED"
         /\ \A r \in RouteIds \ {nextRouteId} : routes'[r] = routes[r]
         /\ nextRouteId' = nextRouteId + 1
         /\ UNCHANGED <<packages, trucks, nextPackageId>>
<1>1. nextRouteId \in RouteIds /\ nextRouteId \in Nat
  BY BoundAssumption DEF CreateRoute, Inv, TypeOK, RouteIds
<1>2. routes[nextRouteId] = NoRoute
  BY <1>1 DEF Inv, FreshIds
<1>3. routes'[nextRouteId] =
        [path |-> path, dep |-> dep, status |-> IF dep = None THEN "PLANNED" ELSE "SCHEDULED",
         truck |-> None, pkgs |-> {}]
  BY <1>1 DEF CreateRoute, Inv, TypeOK
<1>4. routes'[nextRouteId] \in Route
  BY <1>3, DeparturesAssumption DEF Route, RouteStatus, OptionalTime, Times
<1> QED BY <1>1, <1>2, <1>3, <1>4, SentinelAssumption DEF CreateRoute, Inv, TypeOK

LEMMA CreatePackageEffect ==
  ASSUME Inv, NEW q \in Parcels, NEW c \in Customers, CreatePackage(q, c)
  PROVE  /\ nextPackageId \in PackageIds /\ packages[nextPackageId] = NoPackage
         /\ packages'[nextPackageId].route = None /\ packages'[nextPackageId].status = "TODO"
         /\ packages'[nextPackageId] # NoPackage
         /\ \A p \in PackageIds \ {nextPackageId} : packages'[p] = packages[p]
         /\ nextPackageId' = nextPackageId + 1
         /\ UNCHANGED <<routes, trucks, nextRouteId>>
<1>1. nextPackageId \in PackageIds /\ nextPackageId \in Nat
  BY BoundAssumption DEF CreatePackage, Inv, TypeOK, PackageIds
<1>2. packages[nextPackageId] = NoPackage
  BY <1>1 DEF Inv, FreshIds
<1>3. packages'[nextPackageId].route = None /\ packages'[nextPackageId].status = "TODO"
      /\ packages'[nextPackageId] =
            [start |-> q.start, end |-> q.end, weight |-> q.weight, customer |-> c,
             route |-> None, status |-> "TODO", loc |-> q.start, eta |-> None]
  BY <1>1 DEF CreatePackage, Inv, TypeOK
<1>4. packages'[nextPackageId] \in Package
  <2>1. q.start \in Cities /\ q.end \in Cities /\ q.weight \in 1..MaxWeight
    BY ParcelsAssumption
  <2> QED BY <1>3, <2>1 DEF Package, ItemStatus, OptionalTime
<1> QED BY <1>1, <1>2, <1>3, <1>4, SentinelAssumption DEF CreatePackage, Inv, TypeOK

LEMMA AssignPackageEffect ==
  ASSUME Inv, NEW p \in PackageIds, AssignPackage(p)
  PROVE  /\ job.kind = "assign" /\ job.route \in LiveRoutes /\ job.route \in RouteIds
         /\ p \in LivePackages /\ packages[p].route = None /\ packages[p].status = "TODO"
         /\ PackageAccepted(routes[job.route], p, job.now)
         /\ \A r \in RouteIds \ {job.route} : routes'[r] = routes[r]
         /\ SameSchedule(routes'[job.route], routes[job.route])
         /\ routes'[job.route].truck = routes[job.route].truck
         /\ \A p2 \in PackageIds \ {p} : packages'[p2] = packages[p2]
         /\ SameProgress(packages'[p], packages[p])
         /\ packages'[p].route = job.route
         /\ routes'[job.route] # NoRoute /\ packages'[p] # NoPackage
         /\ UNCHANGED <<trucks, nextRouteId, nextPackageId>>
<1>1. job.kind = "assign" /\ job.route \in LiveRoutes /\ job.route \in RouteIds
  BY DEF AssignPackage, Inv, JobOK, LiveRoutes
<1>2. p \in LivePackages /\ packages[p].route = None /\ packages[p].status = "TODO"
  BY DEF AssignPackage, AssignablePackage, Inv, RoutePackageLinks
<1>3. packages[p] \in Package /\ routes[job.route] \in Route
  BY <1>1, <1>2, LiveRouteFacts DEF Inv, TypeOK, LivePackages
<1>4. routes' = [routes EXCEPT ![job.route].pkgs = @ \cup {p}]
  BY DEF AssignPackage
<1>5. \E eta \in OptionalTime : packages' = [packages EXCEPT ![p] = [packages[p] EXCEPT !.route = job.route, !.eta = eta]]
  <2> DEFINE eta == IF routes[job.route].dep = None THEN packages[p].eta
                    ELSE ArrivalTimeAt(routes[job.route].path, routes[job.route].dep, packages[p].end)
  <2>1. packages \in [PackageIds -> Package \cup {NoPackage}]
    BY DEF Inv, TypeOK
  <2>2. packages' = [packages EXCEPT ![p].route = job.route, ![p].eta = eta]
    BY <1>3, <2>1 DEF AssignPackage
  <2>a. eta \in OptionalTime
    <3>1. /\ IsRoutePath(routes[job.route].path)
          /\ IncludesInOrder(routes[job.route].path, packages[p].start, packages[p].end)
      BY <1>1, LiveRouteFacts DEF Inv, AssignPackage, AssignablePackage, PackageAccepted
    <3>2. packages[p].eta \in OptionalTime /\ routes[job.route].dep \in Nat \cup {None}
      BY <1>3 DEF Package, Route, OptionalTime, Times
    <3> QED BY <3>1, <3>2, ArrivalTimeType DEF IncludesInOrder, OptionalTime, Times
  <2> HIDE DEF eta
  <2>3. packages' = [packages EXCEPT ![p] = [packages[p] EXCEPT !.route = job.route, !.eta = eta]]
    BY <1>3, <2>1, <2>2 DEF Package
  <2> QED BY <2>a, <2>3
<1>6. \A r \in RouteIds \ {job.route} : routes'[r] = routes[r]
  BY <1>4 DEF Inv, TypeOK
<1>7. SameSchedule(routes'[job.route], routes[job.route]) /\ routes'[job.route].truck = routes[job.route].truck
  BY <1>1, <1>3, <1>4 DEF Inv, TypeOK, Route, SameSchedule
<1>8. \A p2 \in PackageIds \ {p} : packages'[p2] = packages[p2]
  BY <1>5 DEF Inv, TypeOK
<1>9. SameProgress(packages'[p], packages[p]) /\ packages'[p].route = job.route
  BY <1>3, <1>5 DEF Inv, TypeOK, Package, SameProgress, SameParcel
<1>10. packages'[p] # NoPackage
  <2>1. PICK eta \in OptionalTime :
          packages' = [packages EXCEPT ![p] = [packages[p] EXCEPT !.route = job.route, !.eta = eta]]
    BY <1>5
  <2>2. packages'[p] = [packages[p] EXCEPT !.route = job.route, !.eta = eta]
    BY <2>1 DEF Inv, TypeOK
  <2>3. packages'[p] \in Package
    BY <1>1, <1>3, <2>2 DEF Package
  <2> QED BY <2>3, SentinelAssumption
<1>11. routes'[job.route] # NoRoute
  <2>1. routes'[job.route] \in Route
    BY <1>1, <1>3, <1>4 DEF Inv, TypeOK, Route
  <2> QED BY <2>1, SentinelAssumption
<1> QED BY <1>1, <1>2, <1>6, <1>7, <1>8, <1>9, <1>10, <1>11 DEF AssignPackage, AssignablePackage

LEMMA AssignTruckEffect ==
  ASSUME Inv, NEW r \in RouteIds, NEW t \in Trucks, AssignTruckToRoute(r, t)
  PROVE  /\ r \in LiveRoutes /\ routes[r].truck = None /\ trucks[t].route = None
         /\ routes'[r].path = routes[r].path
         /\ routes[r].dep # None => SameSchedule(routes'[r], routes[r])
         /\ routes[r].dep = None => routes'[r].status = "SCHEDULED" /\ routes'[r].dep # None
         /\ \A r2 \in RouteIds \ {r} : routes'[r2] = routes[r2]
         /\ trucks'[t].route = r
         /\ \A u \in Trucks \ {t} : trucks'[u] = trucks[u]
         /\ UNCHANGED <<packages, nextRouteId, nextPackageId>>
<1> DEFINE S == Scheduled(routes[r])
<1>1. /\ r \in LiveRoutes /\ routes[r].truck = None /\ trucks[t].route = None
      /\ routes' = [routes EXCEPT ![r] = [S EXCEPT !.truck = t]]
      /\ trucks' = [trucks EXCEPT ![t] =
            [trucks[t] EXCEPT !.route = r, !.status = "ON_THE_WAY", !.busyFrom = S.dep,
                              !.busyUntil = EtaFinal(S.path, S.dep), !.transit = None]]
      /\ UNCHANGED <<packages, nextRouteId, nextPackageId>>
  BY DEF AssignTruckToRoute, TruckTakeable, Inv, TypeOK
<1>2. routes[r] \in Route /\ trucks[t] \in Truck /\ clock \in Nat
  BY <1>1, LiveRouteFacts DEF Inv, TypeOK, Times
<1>3. /\ S.path = routes[r].path
      /\ routes[r].dep # None => S = routes[r]
      /\ routes[r].dep = None => S.status = "SCHEDULED" /\ S.dep # None
      /\ S = [routes[r] EXCEPT !.dep = S.dep, !.status = S.status]
  BY <1>2, NoneAssumption DEF Scheduled, Route
<1> HIDE DEF S
<1>4. /\ [S EXCEPT !.truck = t].path = S.path
      /\ [S EXCEPT !.truck = t].dep = S.dep
      /\ [S EXCEPT !.truck = t].status = S.status
  <2>1. S = [path |-> S.path, dep |-> S.dep, status |-> S.status, truck |-> S.truck, pkgs |-> S.pkgs]
    BY <1>2, <1>3 DEF Route
  <2> QED BY <2>1
<1>5. routes'[r] = [S EXCEPT !.truck = t] /\ \A r2 \in RouteIds \ {r} : routes'[r2] = routes[r2]
  BY <1>1 DEF Inv, TypeOK
<1>6. \A u \in Trucks \ {t} : trucks'[u] = trucks[u]
  BY <1>1 DEF Inv, TypeOK
<1>7. trucks'[t].route = r
  <2> DEFINE until == EtaFinal(S.path, S.dep)
  <2>1. trucks'[t] = [trucks[t] EXCEPT !.route = r, !.status = "ON_THE_WAY", !.busyFrom = S.dep,
                                       !.busyUntil = until, !.transit = None]
    BY <1>1 DEF Inv, TypeOK
  <2> HIDE DEF until
  <2> QED BY <1>2, <2>1 DEF Truck
<1> QED BY <1>1, <1>3, <1>4, <1>5, <1>6, <1>7 DEF SameSchedule

LEMMA RemoveRouteEffect ==
  ASSUME Inv, NEW r \in RouteIds, RemoveRoute(r)
  PROVE  /\ r \in LiveRoutes /\ routes'[r] = NoRoute
         /\ \A r2 \in RouteIds \ {r} : routes'[r2] = routes[r2]
         /\ \A p \in LivePackages : packages[p].route = r =>
               packages'[p].route = None /\ packages'[p].status = "TODO" /\ packages'[p] # NoPackage
         /\ \A p \in PackageIds : packages[p] = NoPackage \/ packages[p].route # r =>
               packages'[p] = packages[p]
         /\ \A t \in Trucks : trucks[t].route = r => trucks'[t].route = None
         /\ \A t \in Trucks : trucks[t].route # r => trucks'[t] = trucks[t]
         /\ UNCHANGED <<nextRouteId, nextPackageId>>
<1> DEFINE R == routes[r]
<1>1. /\ r \in LiveRoutes
      /\ packages' = [p \in PackageIds |-> IF p \in R.pkgs THEN ResetPackage(packages[p]) ELSE packages[p]]
      /\ trucks' = IF R.truck = None THEN trucks
                   ELSE [trucks EXCEPT ![R.truck] = ReleasedTruck(routes[trucks[R.truck].route].path)]
      /\ routes' = [routes EXCEPT ![r] = NoRoute]
      /\ UNCHANGED <<nextRouteId, nextPackageId>>
  BY DEF RemoveRoute
<1>2. R \in Route /\ r # None
  BY <1>1, LiveRouteFacts, NoneAssumption DEF Inv, RouteIds
<1>3. routes'[r] = NoRoute /\ \A r2 \in RouteIds \ {r} : routes'[r2] = routes[r2]
  BY <1>1 DEF Inv, TypeOK
<1>4. ASSUME NEW p \in LivePackages, packages[p].route = r
      PROVE  packages'[p].route = None /\ packages'[p].status = "TODO" /\ packages'[p] # NoPackage
  <2>1. p \in PackageIds /\ p \in R.pkgs /\ packages[p] \in Package
    BY <1>2, <1>4, OnRoute DEF LivePackages
  <2>2. packages'[p] = ResetPackage(packages[p])
    BY <1>1, <2>1
  <2>3. ResetPackage(packages[p]) \in Package /\ ResetPackage(packages[p]).route = None
        /\ ResetPackage(packages[p]).status = "TODO"
    BY <2>1 DEF ResetPackage, Package, ItemStatus, OptionalTime
  <2> QED BY <2>2, <2>3, SentinelAssumption
<1>5. ASSUME NEW p \in PackageIds, packages[p] = NoPackage \/ packages[p].route # r
      PROVE  packages'[p] = packages[p]
  <2>1. p \notin R.pkgs
    BY <1>1, <1>5 DEF Inv, RoutePackageLinks, LivePackages
  <2> QED BY <1>1, <2>1
<1>6. ASSUME NEW t \in Trucks, trucks[t].route = r
      PROVE  trucks'[t].route = None
  <2>1. R.truck = t /\ t # None
    BY <1>2, <1>6, LeasedRoute, FleetAssumption
  <2>2. trucks'[t] = ReleasedTruck(routes[trucks[t].route].path)
    BY <1>1, <2>1 DEF Inv, TypeOK
  <2> QED BY <2>2 DEF ReleasedTruck, FreeTruck
<1>7. ASSUME NEW t \in Trucks, trucks[t].route # r
      PROVE  trucks'[t] = trucks[t]
  <2>1. R.truck # t
    BY <1>1, <1>7, FleetAssumption DEF Inv, RouteTruckLinks
  <2> QED BY <1>1, <2>1 DEF Inv, TypeOK
<1> QED BY <1>1, <1>3, <1>4, <1>5, <1>6, <1>7

LEMMA RemovePackageEffect ==
  ASSUME Inv, NEW p \in PackageIds, RemovePackage(p)
  PROVE  /\ p \in LivePackages /\ packages'[p] = NoPackage
         /\ \A p2 \in PackageIds \ {p} : packages'[p2] = packages[p2]
         /\ \A r \in LiveRoutes : SameSchedule(routes'[r], routes[r]) /\ routes'[r] # NoRoute
         /\ \A r \in RouteIds \ LiveRoutes : routes'[r] = routes[r]
         /\ UNCHANGED <<trucks, nextRouteId, nextPackageId>>
<1> DEFINE r == packages[p].route
<1>1. /\ p \in LivePackages
      /\ routes' = IF r = None THEN routes ELSE [routes EXCEPT ![r].pkgs = @ \ {p}]
      /\ packages' = [packages EXCEPT ![p] = NoPackage]
      /\ UNCHANGED <<trucks, nextRouteId, nextPackageId>>
  BY DEF RemovePackage
<1>2. packages'[p] = NoPackage /\ \A p2 \in PackageIds \ {p} : packages'[p2] = packages[p2]
  BY <1>1 DEF Inv, TypeOK
<1>3. r # None => r \in LiveRoutes
  BY <1>1, OnRoute
<1>4. ASSUME NEW r2 \in LiveRoutes
      PROVE  SameSchedule(routes'[r2], routes[r2]) /\ routes'[r2] # NoRoute
  <2>1. routes[r2] \in Route /\ r2 \in RouteIds
    BY LiveRouteFacts DEF Inv
  <2>2. routes'[r2] = routes[r2] \/ routes'[r2] = [routes[r2] EXCEPT !.pkgs = @ \ {p}]
    BY <1>1, <2>1 DEF Inv, TypeOK
  <2>3. [routes[r2] EXCEPT !.pkgs = @ \ {p}] \in Route
    BY <2>1 DEF Route
  <2>4. SameSchedule(routes'[r2], routes[r2])
    BY <2>1, <2>2 DEF Route, SameSchedule
  <2> QED BY <2>1, <2>2, <2>3, <2>4, SentinelAssumption
<1>5. \A r2 \in RouteIds \ LiveRoutes : routes'[r2] = routes[r2]
  BY <1>1, <1>3 DEF Inv, TypeOK
<1> QED BY <1>1, <1>2, <1>4, <1>5

LEMMA ReconcileRouteEffect ==
  ASSUME Inv, NEW r \in RouteIds, ReconcileRoute(r)
  PROVE  /\ job.kind = "heartbeat" /\ job.now \in Nat
         /\ r \in LiveRoutes /\ ReconcileSucceeds(r, job.now)
         /\ routes'[r] = ReconciledRoute(routes[r], job.now) /\ routes'[r] # NoRoute
         /\ \A r2 \in RouteIds \ {r} : routes'[r2] = routes[r2]
         /\ \A p \in LivePackages : packages[p].route = r =>
               /\ packages'[p] = ReconciledPackage(packages[p], routes[r], job.now)
               /\ packages'[p].route = r /\ packages'[p] # NoPackage
         /\ \A p \in PackageIds : packages[p] = NoPackage \/ packages[p].route # r =>
               packages'[p] = packages[p]
         /\ \A t \in Trucks : trucks[t].route = r =>
               /\ trucks'[t] = ReconciledTruck(trucks[t], r, routes[r], job.now)
               /\ trucks'[t].route = IF TruckReleases(routes[r], job.now) THEN None ELSE r
         /\ \A t \in Trucks : trucks[t].route # r => trucks'[t] = trucks[t]
         /\ UNCHANGED <<nextRouteId, nextPackageId>>
<1> DEFINE R == routes[r]
           now == job.now
<1>1. /\ job.kind = "heartbeat" /\ r \in job.todo /\ ReconcileSucceeds(r, now)
      /\ routes' = [routes EXCEPT ![r] = ReconciledRoute(R, now)]
      /\ trucks' = IF R.truck = None THEN trucks
                   ELSE [trucks EXCEPT ![R.truck] = ReconciledTruck(trucks[R.truck], r, R, now)]
      /\ packages' = [p \in PackageIds |->
                        IF p \in R.pkgs THEN ReconciledPackage(packages[p], R, now) ELSE packages[p]]
      /\ UNCHANGED <<nextRouteId, nextPackageId>>
  BY DEF ReconcileRoute, NextInLoop
<1>2. r \in LiveRoutes /\ now \in Nat
  BY <1>1, PresentType DEF Inv, JobOK
<1>3. R \in Route /\ IsRoutePath(R.path) /\ r # None
  BY <1>2, LiveRouteFacts, NoneAssumption DEF Inv, RouteIds
<1>4. routes'[r] = ReconciledRoute(R, now) /\ \A r2 \in RouteIds \ {r} : routes'[r2] = routes[r2]
  BY <1>1 DEF Inv, TypeOK
<1>5. ReconciledRoute(R, now) # NoRoute
  <2> DEFINE status == ComputeRouteStatus(R.path, R.dep, now)
             truck == IF TruckReleases(R, now) THEN None ELSE R.truck
  <2>1. ReconciledRoute(R, now) = [R EXCEPT !.status = status, !.truck = truck]
    BY DEF ReconciledRoute
  <2>2. status \in RouteStatus /\ truck \in Trucks \cup {None}
    BY <1>2, <1>3, StatusByClock DEF Route
  <2> HIDE DEF status, truck
  <2>3. ReconciledRoute(R, now) \in Route
    BY <1>3, <2>1, <2>2 DEF Route
  <2> QED BY <2>3, SentinelAssumption
<1>6. ASSUME NEW p \in LivePackages, packages[p].route = r
      PROVE  /\ packages'[p] = ReconciledPackage(packages[p], R, now)
             /\ packages'[p].route = r /\ packages'[p] # NoPackage
  <2>1. p \in PackageIds /\ p \in R.pkgs /\ packages[p] \in Package
    BY <1>3, <1>6, OnRoute DEF LivePackages
  <2>2. packages'[p] = ReconciledPackage(packages[p], R, now)
    BY <1>1, <2>1
  <2>3. packages'[p] \in Package /\ packages'[p].route = packages[p].route
    BY <1>2, <1>3, <2>1, <2>2, ReconciledPackageFacts
  <2> QED BY <1>6, <2>2, <2>3, SentinelAssumption
<1>7. ASSUME NEW p \in PackageIds, packages[p] = NoPackage \/ packages[p].route # r
      PROVE  packages'[p] = packages[p]
  <2>1. p \notin R.pkgs
    BY <1>2, <1>7 DEF Inv, RoutePackageLinks, LivePackages
  <2> QED BY <1>1, <2>1
<1>8. ASSUME NEW t \in Trucks, trucks[t].route = r
      PROVE  /\ trucks'[t] = ReconciledTruck(trucks[t], r, R, now)
             /\ trucks'[t].route = IF TruckReleases(R, now) THEN None ELSE r
  <2>1. R.truck = t /\ t # None /\ trucks[t] \in Truck
    BY <1>3, <1>8, LeasedRoute, FleetAssumption DEF Inv, TypeOK
  <2>2. trucks'[t] = ReconciledTruck(trucks[t], r, R, now)
    BY <1>1, <2>1 DEF Inv, TypeOK
  <2>3. FreeTruck(End(R.path)).route = None
    BY DEF FreeTruck
  <2>4. /\ TruckReleases(R, now) => trucks'[t] = FreeTruck(End(R.path))
        /\ ~ TruckReleases(R, now) => trucks'[t].route = r
    BY <1>2, <1>3, <1>8, <2>1, <2>2, ReconciledTruckFacts
  <2> QED BY <2>2, <2>3, <2>4
<1>9. ASSUME NEW t \in Trucks, trucks[t].route # r
      PROVE  trucks'[t] = trucks[t]
  <2>1. R.truck # t
    BY <1>2, <1>9, FleetAssumption DEF Inv, RouteTruckLinks
  <2> QED BY <1>1, <2>1 DEF Inv, TypeOK
<1> QED BY <1>1, <1>2, <1>4, <1>5, <1>6, <1>7, <1>8, <1>9

-----------------------------------------------------------------------------
(* Timely is preserved                                                     *)

\* It is enough to look at the routes and packages a step has changed.
LEMMA TimelyKept ==
  ASSUME Inv, Inv', Timely, [Next]_vars, MaxClockBack = 0,
         \A r \in LiveRoutes' :
            \/ r \in LiveRoutes /\ SameSchedule(routes'[r], routes[r])
            \/ RouteTimely(routes'[r], Present'),
         \A p \in LivePackages' : packages'[p].route # None =>
            \/ /\ p \in LivePackages
               /\ packages'[p].route = packages[p].route
               /\ SameProgress(packages'[p], packages[p])
               /\ SameSchedule(routes'[packages[p].route], routes[packages[p].route])
            \/ PackageTimely(packages'[p], routes'[packages'[p].route], Present')
  PROVE  Timely'
<1>1. Present <= Present' /\ JobNotAhead'
  BY PresentAdvances DEF Timely
<1>2. Present \in Nat /\ Present' \in Nat
  <2>1. TypeOK' => (Present \in Nat)'
    BY PresentType, PTL
  <2> QED BY <2>1, PresentType DEF Inv
<1> DEFINE later == Present'
<1>3. ASSUME NEW r \in LiveRoutes'
      PROVE  RouteTimely(routes'[r], later)
  <2>1. CASE r \in LiveRoutes /\ SameSchedule(routes'[r], routes[r])
    <3>1. routes[r] \in Route /\ IsRoutePath(routes[r].path) /\ RouteTimely(routes[r], Present)
      BY <2>1, LiveRouteFacts DEF Inv, Timely
    <3> HIDE DEF later
    <3> QED BY <1>1, <1>2, <2>1, <3>1, RouteTimelyLater DEF later
  <2> QED BY <1>3, <2>1
<1>4. ASSUME NEW p \in LivePackages', packages'[p].route # None
      PROVE  PackageTimely(packages'[p], routes'[packages'[p].route], later)
  <2>1. CASE /\ p \in LivePackages
             /\ packages'[p].route = packages[p].route
             /\ SameProgress(packages'[p], packages[p])
             /\ SameSchedule(routes'[packages[p].route], routes[packages[p].route])
    <3>1. /\ routes[packages[p].route] \in Route
          /\ IsRoutePath(routes[packages[p].route].path)
          /\ IncludesInOrder(routes[packages[p].route].path, packages[p].start, packages[p].end)
          /\ PackageTimely(packages[p], routes[packages[p].route], Present)
      BY <1>4, <2>1, OnRoute DEF Timely
    <3> HIDE DEF later
    <3> QED BY <1>1, <1>2, <2>1, <3>1, PackageTimelyLater DEF later
  <2> QED BY <1>4, <2>1
<1> QED BY <1>1, <1>3, <1>4 DEF Timely

LEMMA SameWorldTimely ==
  ASSUME Inv, Inv', Timely, [Next]_vars, MaxClockBack = 0, UNCHANGED <<routes, packages>>
  PROVE  Timely'
<1>1. LiveRoutes' = LiveRoutes /\ LivePackages' = LivePackages
  BY DEF LiveRoutes, LivePackages
<1> QED BY <1>1, TimelyKept DEF SameSchedule, SameProgress, SameParcel

LEMMA CreateRouteTimely ==
  ASSUME Inv, Inv', Timely, MaxClockBack = 0,
         NEW path \in Paths, NEW dep \in Departures, CreateRoute(path, dep)
  PROVE  Timely'
<1>1. Next
  BY DEF Next
<1> DEFINE n == nextRouteId
<1>2. /\ n \in RouteIds /\ routes[n] = NoRoute
      /\ routes'[n].dep = dep /\ routes'[n].status = IF dep = None THEN "PLANNED" ELSE "SCHEDULED"
      /\ \A r \in RouteIds \ {n} : routes'[r] = routes[r]
      /\ packages' = packages
  BY CreateRouteEffect
<1>3. ASSUME NEW r \in LiveRoutes'
      PROVE  \/ r \in LiveRoutes /\ SameSchedule(routes'[r], routes[r])
             \/ RouteTimely(routes'[r], Present')
  <2>1. CASE r = n
    BY <1>2, <2>1 DEF RouteTimely
  <2>2. CASE r # n
    BY <1>2, <1>3, <2>2 DEF LiveRoutes, SameSchedule
  <2> QED BY <2>1, <2>2
<1>4. ASSUME NEW p \in LivePackages', packages'[p].route # None
      PROVE  /\ p \in LivePackages
             /\ packages'[p].route = packages[p].route
             /\ SameProgress(packages'[p], packages[p])
             /\ SameSchedule(routes'[packages[p].route], routes[packages[p].route])
  <2>1. p \in LivePackages /\ packages'[p] = packages[p]
    BY <1>2, <1>4 DEF LivePackages
  <2>2. packages[p].route \in LiveRoutes /\ packages[p].route \in RouteIds
    BY <1>4, <2>1, OnRoute
  <2> QED BY <1>2, <2>1, <2>2 DEF LiveRoutes, SameProgress, SameParcel, SameSchedule
<1> QED BY <1>1, <1>3, <1>4, TimelyKept

LEMMA CreatePackageTimely ==
  ASSUME Inv, Inv', Timely, MaxClockBack = 0,
         NEW q \in Parcels, NEW c \in Customers, CreatePackage(q, c)
  PROVE  Timely'
<1>1. Next
  BY DEF Next
<1> DEFINE n == nextPackageId
<1>2. /\ packages'[n].route = None
      /\ \A p \in PackageIds \ {n} : packages'[p] = packages[p]
      /\ routes' = routes
  BY CreatePackageEffect
<1>3. \A r \in LiveRoutes' : r \in LiveRoutes /\ SameSchedule(routes'[r], routes[r])
  BY <1>2 DEF LiveRoutes, SameSchedule
<1>4. ASSUME NEW p \in LivePackages', packages'[p].route # None
      PROVE  /\ p \in LivePackages
             /\ packages'[p].route = packages[p].route
             /\ SameProgress(packages'[p], packages[p])
             /\ SameSchedule(routes'[packages[p].route], routes[packages[p].route])
  BY <1>2, <1>4 DEF LivePackages, SameProgress, SameParcel, SameSchedule
<1> QED BY <1>1, <1>3, <1>4, TimelyKept

\* A batch works with the instant it started at.  No package joins a route that
\* has completed, because its last stop was reached before the batch started.
LEMMA AssignPackageToOpenRoute ==
  ASSUME Inv, Timely, NEW p \in PackageIds, AssignPackage(p)
  PROVE  routes[job.route].status # "COMPLETED"
<1> DEFINE R == routes[job.route]
<1>1. job.kind = "assign" /\ job.route \in LiveRoutes /\ PackageAccepted(R, p, job.now)
  BY AssignPackageEffect
<1>2. R \in Route /\ IsRoutePath(R.path) /\ job.now \in Nat /\ Present = job.now
  BY <1>1, LiveRouteFacts, PresentType DEF Inv, Present
<1>3. RouteTimely(R, job.now)
  BY <1>1, <1>2 DEF Timely
<1> SUFFICES ASSUME R.status = "COMPLETED" PROVE FALSE
  OBVIOUS
<1>4. R.dep # None /\ EtaFinal(R.path, R.dep) <= job.now
  BY <1>3 DEF RouteTimely
<1> QED BY <1>1, <1>2, <1>4, OverTakesNothing

LEMMA AssignPackageTimely ==
  ASSUME Inv, Inv', Timely, MaxClockBack = 0, NEW p \in PackageIds, AssignPackage(p)
  PROVE  Timely'
<1>1. Next
  BY DEF Next
<1> DEFINE n == job.route
<1>2. /\ n \in LiveRoutes /\ n \in RouteIds /\ p \in LivePackages
      /\ packages[p].route = None /\ packages[p].status = "TODO"
      /\ \A r \in RouteIds \ {n} : routes'[r] = routes[r]
      /\ SameSchedule(routes'[n], routes[n])
      /\ \A p2 \in PackageIds \ {p} : packages'[p2] = packages[p2]
      /\ SameProgress(packages'[p], packages[p])
      /\ packages'[p].route = n
  BY AssignPackageEffect
<1>3. \A r \in RouteIds : SameSchedule(routes'[r], routes[r])
  BY <1>2 DEF SameSchedule
<1>4. ASSUME NEW r \in LiveRoutes'
      PROVE  r \in LiveRoutes /\ SameSchedule(routes'[r], routes[r])
  BY <1>2, <1>3, <1>4 DEF LiveRoutes
<1>5. ASSUME NEW p2 \in LivePackages', packages'[p2].route # None
      PROVE  \/ /\ p2 \in LivePackages
                /\ packages'[p2].route = packages[p2].route
                /\ SameProgress(packages'[p2], packages[p2])
                /\ SameSchedule(routes'[packages[p2].route], routes[packages[p2].route])
             \/ PackageTimely(packages'[p2], routes'[packages'[p2].route], Present')
  <2>1. CASE p2 = p
    <3>1. routes'[n].status # "COMPLETED" /\ packages'[p].status = "TODO"
      BY <1>2, AssignPackageToOpenRoute DEF SameSchedule, SameProgress
    <3> QED BY <1>2, <2>1, <3>1, WaitingIsTimely
  <2>2. CASE p2 # p
    <3>1. p2 \in LivePackages /\ packages'[p2] = packages[p2]
      BY <1>2, <1>5, <2>2 DEF LivePackages
    <3>2. packages[p2].route \in RouteIds
      BY <1>5, <3>1, OnRoute
    <3> QED BY <1>3, <3>1, <3>2 DEF SameProgress, SameParcel
  <2> QED BY <2>1, <2>2
<1> QED BY <1>1, <1>4, <1>5, TimelyKept

LEMMA AssignTruckTimely ==
  ASSUME Inv, Inv', Timely, MaxClockBack = 0,
         NEW r \in RouteIds, NEW t \in Trucks, AssignTruckToRoute(r, t)
  PROVE  Timely'
<1>1. Next
  BY DEF Next
<1>2. /\ r \in LiveRoutes
      /\ routes[r].dep # None => SameSchedule(routes'[r], routes[r])
      /\ routes[r].dep = None => routes'[r].status = "SCHEDULED" /\ routes'[r].dep # None
      /\ \A r2 \in RouteIds \ {r} : routes'[r2] = routes[r2]
      /\ packages' = packages
  BY AssignTruckEffect
<1>3. ASSUME NEW r2 \in LiveRoutes'
      PROVE  \/ r2 \in LiveRoutes /\ SameSchedule(routes'[r2], routes[r2])
             \/ RouteTimely(routes'[r2], Present')
  <2>1. CASE r2 = r
    BY <1>2, <2>1 DEF RouteTimely
  <2>2. CASE r2 # r
    BY <1>2, <1>3, <2>2 DEF LiveRoutes, SameSchedule
  <2> QED BY <2>1, <2>2
<1>4. ASSUME NEW p \in LivePackages', packages'[p].route # None
      PROVE  \/ /\ p \in LivePackages
                /\ packages'[p].route = packages[p].route
                /\ SameProgress(packages'[p], packages[p])
                /\ SameSchedule(routes'[packages[p].route], routes[packages[p].route])
             \/ PackageTimely(packages'[p], routes'[packages'[p].route], Present')
  <2>1. p \in LivePackages /\ packages'[p] = packages[p]
    BY <1>2, <1>4 DEF LivePackages
  <2>2. packages[p].route \in RouteIds /\ PackageTimely(packages[p], routes[packages[p].route], Present)
    BY <1>4, <2>1, OnRoute DEF Timely
  <2>3. CASE packages[p].route = r /\ routes[r].dep = None
    <3>1. packages[p].status = "TODO"
      BY <2>2, <2>3 DEF PackageTimely
    <3> QED BY <1>2, <2>1, <2>3, <3>1, WaitingIsTimely
  <2>4. CASE ~ (packages[p].route = r /\ routes[r].dep = None)
    BY <1>2, <2>1, <2>2, <2>4 DEF SameProgress, SameParcel, SameSchedule
  <2> QED BY <2>3, <2>4
<1> QED BY <1>1, <1>3, <1>4, TimelyKept

LEMMA RemoveRouteTimely ==
  ASSUME Inv, Inv', Timely, MaxClockBack = 0, NEW r \in RouteIds, RemoveRoute(r)
  PROVE  Timely'
<1>1. Next
  BY DEF Next
<1>2. /\ r \in LiveRoutes /\ routes'[r] = NoRoute
      /\ \A r2 \in RouteIds \ {r} : routes'[r2] = routes[r2]
      /\ \A p \in LivePackages : packages[p].route = r => packages'[p].route = None
      /\ \A p \in PackageIds : packages[p] = NoPackage \/ packages[p].route # r =>
            packages'[p] = packages[p]
  BY RemoveRouteEffect
<1>3. ASSUME NEW r2 \in LiveRoutes'
      PROVE  r2 \in LiveRoutes /\ SameSchedule(routes'[r2], routes[r2])
  BY <1>2, <1>3 DEF LiveRoutes, SameSchedule
<1>4. ASSUME NEW p \in LivePackages', packages'[p].route # None
      PROVE  /\ p \in LivePackages
             /\ packages'[p].route = packages[p].route
             /\ SameProgress(packages'[p], packages[p])
             /\ SameSchedule(routes'[packages[p].route], routes[packages[p].route])
  <2>1. p \in LivePackages /\ packages[p].route # r /\ packages'[p] = packages[p]
    BY <1>2, <1>4 DEF LivePackages
  <2>2. packages[p].route \in RouteIds
    BY <1>4, <2>1, OnRoute
  <2> QED BY <1>2, <2>1, <2>2 DEF SameProgress, SameParcel, SameSchedule
<1> QED BY <1>1, <1>3, <1>4, TimelyKept

LEMMA RemovePackageTimely ==
  ASSUME Inv, Inv', Timely, MaxClockBack = 0, NEW p \in PackageIds, RemovePackage(p)
  PROVE  Timely'
<1>1. Next
  BY DEF Next
<1>2. /\ packages'[p] = NoPackage
      /\ \A p2 \in PackageIds \ {p} : packages'[p2] = packages[p2]
      /\ \A r \in LiveRoutes : SameSchedule(routes'[r], routes[r])
      /\ \A r \in RouteIds \ LiveRoutes : routes'[r] = routes[r]
  BY RemovePackageEffect
<1>3. ASSUME NEW r \in LiveRoutes'
      PROVE  r \in LiveRoutes /\ SameSchedule(routes'[r], routes[r])
  BY <1>2, <1>3 DEF LiveRoutes
<1>4. ASSUME NEW p2 \in LivePackages', packages'[p2].route # None
      PROVE  /\ p2 \in LivePackages
             /\ packages'[p2].route = packages[p2].route
             /\ SameProgress(packages'[p2], packages[p2])
             /\ SameSchedule(routes'[packages[p2].route], routes[packages[p2].route])
  <2>1. p2 \in LivePackages /\ packages'[p2] = packages[p2]
    BY <1>2, <1>4 DEF LivePackages
  <2>2. packages[p2].route \in LiveRoutes
    BY <1>4, <2>1, OnRoute
  <2> QED BY <1>2, <2>1, <2>2 DEF SameProgress, SameParcel
<1> QED BY <1>1, <1>3, <1>4, TimelyKept

LEMMA ReconcileRouteTimely ==
  ASSUME Inv, Inv', Timely, MaxClockBack = 0, NEW r \in RouteIds, ReconcileRoute(r)
  PROVE  Timely'
<1> DEFINE R == routes[r]
           now == job.now
<1>1. Next
  BY DEF Next
<1>2. /\ r \in LiveRoutes /\ job.kind = "heartbeat" /\ now \in Nat
      /\ routes'[r] = ReconciledRoute(R, now)
      /\ \A r2 \in RouteIds \ {r} : routes'[r2] = routes[r2]
      /\ \A p \in LivePackages : packages[p].route = r =>
            packages'[p] = ReconciledPackage(packages[p], R, now) /\ packages'[p].route = r
      /\ \A p \in PackageIds : packages[p] = NoPackage \/ packages[p].route # r =>
            packages'[p] = packages[p]
  BY ReconcileRouteEffect
<1>3. R \in Route /\ IsRoutePath(R.path)
  BY <1>2, LiveRouteFacts DEF Inv
<1>4. now <= Present' /\ Present' \in Nat
  <2>1. Present' \in Nat
    <3>1. TypeOK' => (Present \in Nat)'
      BY PresentType, PTL
    <3> QED BY <3>1 DEF Inv
  <2> QED BY <1>1, <1>2, <2>1, PresentAdvances DEF Present, Timely
<1> DEFINE later == Present'
           R2 == ReconciledRoute(R, now)
<1>5. RouteTimely(R2, later)
  <2>1. RouteTimely(R2, now) /\ R2.dep = R.dep /\ R2.path = R.path
    BY <1>2, <1>3, ReconciledRouteTimely, ReconciledRouteFields
  <2>2. R.dep \in Nat \cup {None} /\ (R.dep # None => EtaFinal(R.path, R.dep) \in Nat)
    BY <1>3, ArrivalTimeType DEF Route, OptionalTime, Times
  <2> HIDE DEF R2, later, now, R
  <2>3. R2.status = "COMPLETED" => R2.dep # None
    BY <2>1 DEF RouteTimely
  <2> QED BY <1>2, <1>4, <2>1, <2>2, <2>3 DEF RouteTimely, later
<1>6. ASSUME NEW p \in LivePackages, packages[p].route = r
      PROVE  PackageTimely(packages'[p], R2, later)
  <2> DEFINE q == packages[p]
             q2 == ReconciledPackage(q, R, now)
  <2>1. q \in Package /\ IncludesInOrder(R.path, q.start, q.end)
    BY <1>2, <1>6, OnRoute, LiveRouteFacts, NoneAssumption DEF Inv, RouteIds
  <2>2. /\ PackageTimely(q2, R2, now)
        /\ R2.dep = R.dep /\ R2.path = R.path
        /\ q2.start = q.start /\ q2.end = q.end
    BY <1>2, <1>3, <2>1, ReconciledIsTimely, ReconciledRouteFields, ReconciledPackageFacts DEF SameParcel
  <2>3. R.dep # None => /\ ArrivalTimeAt(R.path, R.dep, q.start) \in Nat
                        /\ ArrivalTimeAt(R.path, R.dep, q.end) \in Nat
    BY <1>3, <2>1, ArrivalOrder DEF Route, OptionalTime, Times
  <2>4. packages'[p] = q2
    BY <1>2, <1>6
  <2> HIDE DEF R2, later, now, R, q2, q
  <2>5. q2.status = "DONE" => q2.status # "TODO"
    OBVIOUS
  <2> QED BY <1>2, <1>4, <2>2, <2>3, <2>4, <2>5 DEF PackageTimely, later
<1>7. ASSUME NEW r2 \in LiveRoutes'
      PROVE  \/ r2 \in LiveRoutes /\ SameSchedule(routes'[r2], routes[r2])
             \/ RouteTimely(routes'[r2], Present')
  <2>1. CASE r2 = r
    BY <1>2, <1>5, <2>1
  <2>2. CASE r2 # r
    BY <1>2, <1>7, <2>2 DEF LiveRoutes, SameSchedule
  <2> QED BY <2>1, <2>2
<1>8. ASSUME NEW p \in LivePackages', packages'[p].route # None
      PROVE  \/ /\ p \in LivePackages
                /\ packages'[p].route = packages[p].route
                /\ SameProgress(packages'[p], packages[p])
                /\ SameSchedule(routes'[packages[p].route], routes[packages[p].route])
             \/ PackageTimely(packages'[p], routes'[packages'[p].route], Present')
  <2>1. CASE p \in LivePackages /\ packages[p].route = r
    BY <1>2, <1>6, <2>1
  <2>2. CASE ~ (p \in LivePackages /\ packages[p].route = r)
    <3>1. p \in LivePackages /\ packages[p].route # r /\ packages'[p] = packages[p]
      BY <1>2, <1>8, <2>2 DEF LivePackages
    <3>2. packages[p].route \in RouteIds
      BY <1>8, <3>1, OnRoute
    <3> QED BY <1>2, <3>1, <3>2 DEF SameProgress, SameParcel, SameSchedule
  <2> QED BY <2>1, <2>2
<1> HIDE DEF R2, later
<1> QED BY <1>1, <1>7, <1>8, TimelyKept

LEMMA TimelyStep ==
  ASSUME Inv, Inv', Timely, [Next]_vars, MaxClockBack = 0
  PROVE  Timely'
<1>1. CASE UNCHANGED <<routes, packages>>
  BY <1>1, SameWorldTimely
<1>2. CASE Next /\ ~ UNCHANGED <<routes, packages>>
  BY <1>2, CreateRouteTimely, CreatePackageTimely, AssignPackageTimely, AssignTruckTimely, RemoveRouteTimely,
     RemovePackageTimely, ReconcileRouteTimely
     DEF Next, AssignPackagesToRoute, SkipPackage, Heartbeat, ReconcileRouteFails, Tick, SetClockBack
<1> QED BY <1>1, <1>2 DEF vars

LEMMA InitTimely == Init => Timely
BY DEF Init, Timely, JobNotAhead, LiveRoutes, LivePackages, Idle

\* Timely is inductive together with Inv.
THEOREM TimelyHolds ==
  ASSUME MaxClockBack = 0
  PROVE  Spec => []Timely
<1>1. Init => Timely
  BY InitTimely
<1>2. Inv /\ Inv' /\ Timely /\ [Next]_vars => Timely'
  BY TimelyStep
<1> QED BY <1>1, <1>2, InvHolds, PTL DEF Spec

-----------------------------------------------------------------------------
(* Reconciliation goes forward                                             *)

LEMMA RouteGoesForward ==
  ASSUME NEW R \in Route, IsRoutePath(R.path), NEW now \in Nat, RouteTimely(R, now)
  PROVE  LET status == ComputeRouteStatus(R.path, R.dep, now)
         IN  /\ StatusApplies(R.status, status)
             /\ RouteRank[R.status] <= RouteRank[status]
             /\ R.status = "PLANNED" <=> status = "PLANNED"
<1> DEFINE status == ComputeRouteStatus(R.path, R.dep, now)
<1>1. /\ status \in RouteStatus /\ R.status \in RouteStatus
      /\ status = "PLANNED" <=> R.dep = None
      /\ status = "SCHEDULED" <=> R.dep # None /\ now < R.dep
      /\ status = "COMPLETED" <=> R.dep # None /\ EtaFinal(R.path, R.dep) <= now
      /\ status = "IN_PROGRESS" => R.dep <= now
  BY StatusByClock DEF Route
<1>2. /\ R.status = "PLANNED" <=> R.dep = None
      /\ R.status = "IN_PROGRESS" => R.dep <= now
      /\ R.status = "COMPLETED" => EtaFinal(R.path, R.dep) <= now
  BY DEF RouteTimely
<1>3. R.dep \in Nat \cup {None}
  BY DEF Route, OptionalTime, Times
<1> HIDE DEF status
<1>4. R.status = "IN_PROGRESS" => status \in {"IN_PROGRESS", "COMPLETED"}
  BY <1>1, <1>2, <1>3 DEF RouteStatus
<1>5. R.status = "COMPLETED" => status = "COMPLETED"
  BY <1>1, <1>2, <1>3
<1>6. R.status = "SCHEDULED" => status # "PLANNED"
  BY <1>1, <1>2
<1>7. R.status = "PLANNED" => status = "PLANNED"
  BY <1>1, <1>2
<1>8. \/ R.status = "PLANNED" /\ status = "PLANNED"
      \/ R.status = "SCHEDULED" /\ status \in {"SCHEDULED", "IN_PROGRESS", "COMPLETED"}
      \/ R.status = "IN_PROGRESS" /\ status \in {"IN_PROGRESS", "COMPLETED"}
      \/ R.status = "COMPLETED" /\ status = "COMPLETED"
  BY <1>1, <1>4, <1>5, <1>6, <1>7 DEF RouteStatus
<1>9. StatusApplies(R.status, status)
  BY <1>8 DEF StatusApplies
<1>10. RouteRank[R.status] <= RouteRank[status]
  BY <1>8 DEF RouteRank
<1> QED BY <1>8, <1>9, <1>10 DEF status

LEMMA PackageGoesForward ==
  ASSUME NEW q \in Package, NEW R \in Route, IsRoutePath(R.path), NEW now \in Nat,
         IncludesInOrder(R.path, q.start, q.end), PackageTimely(q, R, now)
  PROVE  LET q2 == ReconciledPackage(q, R, now)
             status == ComputeRouteStatus(R.path, R.dep, now)
         IN  /\ q2.status \in ItemStatus
             /\ ItemRank[q.status] <= ItemRank[q2.status]
             /\ status = "COMPLETED" => q2.status = "DONE"
             /\ status \in {"PLANNED", "SCHEDULED"} => q2.status = "TODO"
<1> DEFINE q2 == ReconciledPackage(q, R, now)
           status == ComputeRouteStatus(R.path, R.dep, now)
           pickup == ArrivalTimeAt(R.path, R.dep, q.start)
           delivery == ArrivalTimeAt(R.path, R.dep, q.end)
<1>1. /\ q2.status \in ItemStatus /\ q.status \in ItemStatus
      /\ q2.status = "TODO" <=> R.dep = None \/ now < pickup
      /\ q2.status = "DONE" <=> R.dep # None /\ delivery <= now
  BY PackageByClock DEF Package
<1>2. /\ q.status # "TODO" => R.dep # None /\ pickup <= now
      /\ q.status = "DONE" => delivery <= now
  BY DEF PackageTimely
<1>3. R.dep # None => /\ R.dep \in Nat /\ pickup \in Nat /\ delivery \in Nat
                      /\ EtaFinal(R.path, R.dep) \in Nat
                      /\ R.dep <= pickup /\ delivery <= EtaFinal(R.path, R.dep)
  BY ArrivalOrder DEF Route, OptionalTime, Times
<1>4. /\ status = "COMPLETED" <=> R.dep # None /\ EtaFinal(R.path, R.dep) <= now
      /\ status \in {"PLANNED", "SCHEDULED"} => R.dep = None \/ (R.dep # None /\ now < R.dep)
  BY StatusByClock
<1> HIDE DEF q2, status, pickup, delivery
<1>5. status = "COMPLETED" => q2.status = "DONE"
  BY <1>1, <1>3, <1>4
<1>6. status \in {"PLANNED", "SCHEDULED"} => q2.status = "TODO"
  BY <1>1, <1>3, <1>4
<1>7. q.status = "IN_PROGRESS" => q2.status # "TODO"
  BY <1>1, <1>2, <1>3
<1>8. q.status = "DONE" => q2.status = "DONE"
  BY <1>1, <1>2
<1>9. \/ q.status = "TODO" /\ q2.status \in {"TODO", "IN_PROGRESS", "DONE"}
      \/ q.status = "IN_PROGRESS" /\ q2.status \in {"IN_PROGRESS", "DONE"}
      \/ q.status = "DONE" /\ q2.status = "DONE"
  BY <1>1, <1>7, <1>8 DEF ItemStatus
<1>10. ItemRank[q.status] <= ItemRank[q2.status]
  BY <1>9 DEF ItemRank
<1> QED BY <1>1, <1>5, <1>6, <1>10 DEF q2, status

\* A route that is being reconciled was last written at an instant no later
\* than the heartbeat's.
LEMMA ReconciledInTime ==
  ASSUME Inv, Timely, job.kind = "heartbeat", NEW r \in LiveRoutes
  PROVE  /\ routes[r] \in Route /\ IsRoutePath(routes[r].path) /\ job.now \in Nat
         /\ RouteTimely(routes[r], job.now)
         /\ \A p \in LivePackages : packages[p].route = r =>
               /\ packages[p] \in Package
               /\ IncludesInOrder(routes[r].path, packages[p].start, packages[p].end)
               /\ PackageTimely(packages[p], routes[r], job.now)
<1>1. Present = job.now /\ job.now \in Nat
  BY PresentType DEF Present, Inv
<1>2. routes[r] \in Route /\ IsRoutePath(routes[r].path) /\ RouteTimely(routes[r], job.now) /\ r # None
  BY <1>1, LiveRouteFacts, NoneAssumption DEF Timely, Inv, RouteIds
<1>3. ASSUME NEW p \in LivePackages, packages[p].route = r
      PROVE  /\ packages[p] \in Package
             /\ IncludesInOrder(routes[r].path, packages[p].start, packages[p].end)
             /\ PackageTimely(packages[p], routes[r], job.now)
  BY <1>1, <1>2, <1>3, OnRoute DEF Timely
<1> QED BY <1>1, <1>2, <1>3

LEMMA NeverFails == Inv /\ Timely => ReconcileNeverFails
<1> SUFFICES ASSUME Inv, Timely, NEW r \in RouteIds, NextInLoop(r)
    PROVE  ReconcileSucceeds(r, job.now)
  BY DEF ReconcileNeverFails
<1>1. r \in LiveRoutes /\ job.kind = "heartbeat"
  BY DEF NextInLoop, Inv, JobOK
<1>2. StatusApplies(routes[r].status, ComputeRouteStatus(routes[r].path, routes[r].dep, job.now))
  BY <1>1, ReconciledInTime, RouteGoesForward
<1>3. routes[r].truck # None => trucks[routes[r].truck].route \in {None, r}
  BY <1>1 DEF Inv, RouteTruckLinks
<1>4. \A p \in routes[r].pkgs : packages[p].route # None
  BY <1>1, NoneAssumption DEF Inv, RoutePackageLinks, LiveRoutes, RouteIds
<1> QED BY <1>2, <1>3, <1>4 DEF ReconcileSucceeds, LifecycleApplies

\* A truck that is on a completed route came too late: it has not been met by
\* a heartbeat, and not moved.
Late(t) ==
    LET r == trucks[t].route
    IN  r # None /\ routes[r].status = "COMPLETED" =>
          /\ ~ Reconciled(r)
          /\ trucks[t].loc = Start(routes[r].path)
          /\ trucks[t].transit = None

LateTrucks == \A t \in Trucks : Late(t)

\* Only the loop's own iteration makes a route a reconciled one.
LEMMA OnlyTheLoopReconciles ==
  ASSUME Inv, [Next]_vars, NEW s \in LiveRoutes, Reconciled(s)'
  PROVE  Reconciled(s) \/ ReconcileRoute(s) \/ ReconcileRouteFails(s)
<1>1. job'.kind = "heartbeat" /\ s \notin job'.todo
  BY DEF Reconciled
<1>2. Idle.kind = "idle"
  BY DEF Idle
<1>3. job \in Job
  BY DEF Inv, TypeOK
<1>4. ASSUME NEW x, job' = LoopAfter(x)
      PROVE  job.kind = "heartbeat" /\ (s # x => s \notin job.todo)
  <2>1. job.todo # {x} /\ job' = [job EXCEPT !.todo = @ \ {x}]
    BY <1>1, <1>2, <1>4 DEF LoopAfter
  <2>2. job'.kind = job.kind /\ job'.todo = job.todo \ {x}
    BY <1>3, <2>1 DEF Job
  <2> QED BY <1>1, <2>2
<1>5. CASE UNCHANGED vars
  BY <1>1, <1>5 DEF vars, Reconciled
<1>6. ASSUME job.kind = "idle", job' = job PROVE FALSE
  BY <1>1, <1>6
<1>7. ASSUME NEW path \in Paths, NEW dep \in Departures, CreateRoute(path, dep) PROVE FALSE
  BY <1>6, <1>7 DEF CreateRoute
<1>8. ASSUME NEW q \in Parcels, NEW c \in Customers, CreatePackage(q, c) PROVE FALSE
  BY <1>6, <1>8 DEF CreatePackage
<1>9. ASSUME NEW r \in RouteIds, NEW ids, AssignPackagesToRoute(r, ids) PROVE FALSE
  BY <1>1, <1>9 DEF AssignPackagesToRoute
<1>10. ASSUME NEW p \in PackageIds, AssignPackage(p) \/ SkipPackage(p) PROVE FALSE
  BY <1>4, <1>10 DEF AssignPackage, SkipPackage
<1>11. ASSUME NEW r \in RouteIds, NEW t \in Trucks, AssignTruckToRoute(r, t) PROVE FALSE
  BY <1>6, <1>11 DEF AssignTruckToRoute
<1>12. ASSUME NEW r \in RouteIds, RemoveRoute(r) PROVE FALSE
  BY <1>6, <1>12 DEF RemoveRoute
<1>13. ASSUME NEW p \in PackageIds, RemovePackage(p) PROVE FALSE
  BY <1>6, <1>13 DEF RemovePackage
<1>14. CASE Heartbeat
  <2>1. job' = [kind |-> "heartbeat", now |-> clock, route |-> None, todo |-> LiveRoutes]
    BY <1>1, <1>2, <1>14 DEF Heartbeat
  <2> QED BY <1>1, <2>1
<1>15. ASSUME NEW r \in RouteIds, ReconcileRoute(r) \/ ReconcileRouteFails(r)
       PROVE  Reconciled(s) \/ s = r
  <2>1. job' = LoopAfter(r)
    BY <1>15 DEF ReconcileRoute, ReconcileRouteFails
  <2> QED BY <1>4, <2>1 DEF Reconciled
<1>16. CASE Tick \/ \E by \in 1..MaxClockBack : SetClockBack(by)
  BY <1>1, <1>16 DEF Tick, SetClockBack, Reconciled
<1> QED BY <1>5, <1>7, <1>8, <1>9, <1>10, <1>11, <1>12, <1>13, <1>14, <1>15, <1>16 DEF Next

\* From the end on a heartbeat takes the truck back.
LEMMA CompletedReleases ==
  ASSUME NEW R \in Route, IsRoutePath(R.path), NEW now \in Nat,
         ComputeRouteStatus(R.path, R.dep, now) = "COMPLETED"
  PROVE  TruckReleases(R, now)
<1>1. R.dep \in Nat \cup {None}
  BY DEF Route, OptionalTime, Times
<1>2. R.dep # None /\ EtaFinal(R.path, R.dep) <= now
  BY StatusByClock
<1>3. EtaFinal(R.path, R.dep) = R.dep + TotalDistance(R.path)
  BY <1>2 DEF EtaFinal
<1>4. R.dep \in Nat /\ TotalDistance(R.path) \in Nat
  BY <1>1, <1>2, ArrivalTimeType
<1> QED BY <1>1, <1>2, <1>3, <1>4, ReleasedFromTheEndOn

LEMMA LateKept ==
  ASSUME NEW t \in Trucks, Late(t), trucks'[t] = trucks[t],
         trucks[t].route # None =>
            /\ routes'[trucks[t].route].path = routes[trucks[t].route].path
            /\ routes'[trucks[t].route].status = routes[trucks[t].route].status
            /\ Reconciled(trucks[t].route)' => Reconciled(trucks[t].route)
  PROVE  Late(t)'
<1> DEFINE r == trucks[t].route
<1>1. trucks'[t].route = r
  OBVIOUS
<1>2. SUFFICES ASSUME r # None, routes'[r].status = "COMPLETED"
               PROVE  /\ ~ Reconciled(r)'
                      /\ trucks[t].loc = Start(routes'[r].path)
                      /\ trucks[t].transit = None
  BY <1>1 DEF Late, Reconciled
<1> QED BY <1>2 DEF Late

LEMMA LateStep ==
  ASSUME Inv, Inv', Timely, LateTrucks, [Next]_vars
  PROVE  LateTrucks'
<1> SUFFICES ASSUME NEW t \in Trucks PROVE Late(t)'
  BY DEF LateTrucks
<1>1. Late(t)
  BY DEF LateTrucks
<1> DEFINE s == trucks[t].route
<1>2. ASSUME NEW r \in LiveRoutes, Reconciled(r)'
      PROVE  Reconciled(r) \/ ReconcileRoute(r)
  <2>1. ~ ReconcileRouteFails(r)
    BY NeverFails DEF ReconcileRouteFails, ReconcileNeverFails, LiveRoutes
  <2> QED BY <1>2, <2>1, OnlyTheLoopReconciles
<1>3. CASE UNCHANGED <<routes, trucks>> /\ ~ \E r \in RouteIds : ReconcileRoute(r)
  BY <1>1, <1>2, <1>3, LeasedRoute, LateKept
<1>4. ASSUME NEW path \in Paths, NEW dep \in Departures, CreateRoute(path, dep)
      PROVE  Late(t)'
  <2>1. /\ routes[nextRouteId] = NoRoute /\ job' = job /\ job.kind = "idle"
        /\ trucks' = trucks
        /\ \A r \in RouteIds \ {nextRouteId} : routes'[r] = routes[r]
    BY <1>4, CreateRouteEffect DEF CreateRoute
  <2>2. s # None => s # nextRouteId /\ s \in RouteIds
    <3>1. nextRouteId \notin LiveRoutes
      BY <2>1 DEF LiveRoutes
    <3> QED BY <3>1, LeasedRoute
  <2>3. \A q : ~ Reconciled(q)'
    BY <2>1 DEF Reconciled
  <2> QED BY <1>1, <2>1, <2>2, <2>3, LateKept
<1>5. ASSUME NEW p \in PackageIds, AssignPackage(p)
      PROVE  Late(t)'
  <2>1. trucks' = trucks /\ \A r \in LiveRoutes : SameSchedule(routes'[r], routes[r])
    BY <1>5, AssignPackageEffect DEF SameSchedule, LiveRoutes
  <2>2. ~ ReconcileRoute(s)
    BY <1>5 DEF AssignPackage, ReconcileRoute, NextInLoop
  <2> QED BY <1>1, <1>2, <2>1, <2>2, LeasedRoute, LateKept DEF SameSchedule
<1>6. ASSUME NEW p \in PackageIds, RemovePackage(p)
      PROVE  Late(t)'
  <2>1. trucks' = trucks /\ \A r \in LiveRoutes : SameSchedule(routes'[r], routes[r])
    BY <1>6, RemovePackageEffect
  <2>2. ~ ReconcileRoute(s)
    BY <1>6 DEF RemovePackage, ReconcileRoute, NextInLoop
  <2> QED BY <1>1, <1>2, <2>1, <2>2, LeasedRoute, LateKept DEF SameSchedule
<1>7. ASSUME NEW r \in RouteIds, NEW u \in Trucks, AssignTruckToRoute(r, u)
      PROVE  Late(t)'
  <2>1. \A q : ~ Reconciled(q)'
    BY <1>7 DEF AssignTruckToRoute, Reconciled
  <2>2. CASE t = u
    <3>1. /\ trucks'[u].route = r
          /\ routes'[r].path = routes[r].path
          /\ trucks[u] \in Truck /\ trucks[u].route = None
      BY <1>7, AssignTruckEffect DEF Inv, TypeOK
    <3>2. trucks[u].loc = Start(routes[r].path)
      BY <1>7, <3>1 DEF AssignTruckToRoute, TruckSuitable
    <3>3. PICK from, until :
             trucks'[u] = [trucks[u] EXCEPT !.route = r, !.status = "ON_THE_WAY", !.busyFrom = from,
                                            !.busyUntil = until, !.transit = None]
      BY <1>7 DEF AssignTruckToRoute, Inv, TypeOK
    <3>4. trucks'[u].loc = trucks[u].loc /\ trucks'[u].transit = None
      BY <3>1, <3>3 DEF Truck
    <3> QED BY <2>1, <2>2, <3>1, <3>2, <3>4 DEF Late, Reconciled
  <2>3. CASE t # u
    <3>1. /\ trucks'[t] = trucks[t] /\ routes[r].truck = None
          /\ \A r2 \in RouteIds \ {r} : routes'[r2] = routes[r2]
      BY <1>7, <2>3, AssignTruckEffect
    <3>2. s # None => s # r /\ s \in RouteIds
      BY <3>1, LeasedRoute, FleetAssumption
    <3> QED BY <1>1, <2>1, <3>1, <3>2, LateKept
  <2> QED BY <2>2, <2>3
<1>8. ASSUME NEW r \in RouteIds, RemoveRoute(r)
      PROVE  Late(t)'
  <2>1. \A q : ~ Reconciled(q)'
    BY <1>8 DEF RemoveRoute, Reconciled
  <2>2. CASE s = r
    <3>1. trucks'[t].route = None
      BY <1>8, <2>2, RemoveRouteEffect
    <3> QED BY <3>1 DEF Late
  <2>3. CASE s # r
    <3>1. trucks'[t] = trucks[t] /\ \A r2 \in RouteIds \ {r} : routes'[r2] = routes[r2]
      BY <1>8, <2>3, RemoveRouteEffect
    <3> QED BY <1>1, <2>1, <2>3, <3>1, LeasedRoute, LateKept
  <2> QED BY <2>2, <2>3
<1>9. ASSUME NEW r \in RouteIds, ReconcileRoute(r)
      PROVE  Late(t)'
  <2> DEFINE R == routes[r]
             now == job.now
  <2>1. /\ now \in Nat /\ r \in LiveRoutes
        /\ routes'[r] = ReconciledRoute(R, now)
        /\ \A r2 \in RouteIds \ {r} : routes'[r2] = routes[r2]
    BY <1>9, ReconcileRouteEffect
  <2>2. CASE s = r
    <3>1. trucks'[t].route = IF TruckReleases(R, now) THEN None ELSE r
      BY <1>9, <2>2, ReconcileRouteEffect
    <3>2. R \in Route /\ IsRoutePath(R.path)
      BY <2>1, LiveRouteFacts DEF Inv
    <3>3. routes'[r].status = ComputeRouteStatus(R.path, R.dep, now)
      BY <2>1, <3>2, ReconciledRouteFields
    <3>4. routes'[r].status = "COMPLETED" => trucks'[t].route = None
      BY <2>1, <3>1, <3>2, <3>3, CompletedReleases
    <3>5. trucks'[t].route \in {None, r}
      BY <3>1
    <3> QED BY <3>4, <3>5 DEF Late
  <2>3. CASE s # r
    <3>1. trucks'[t] = trucks[t]
      BY <1>9, <2>3, ReconcileRouteEffect
    <3>2. ASSUME NEW q \in LiveRoutes, q # r, Reconciled(q)'
          PROVE  Reconciled(q)
      <4>1. ASSUME ReconcileRoute(q) PROVE FALSE
        <5>1. r \in job.todo /\ q \in job.todo /\ r <= q /\ q <= r
          BY <1>9, <4>1 DEF ReconcileRoute, NextInLoop
        <5>2. r \in Nat /\ q \in Nat
          BY DEF RouteIds, LiveRoutes
        <5> QED BY <3>2, <5>1, <5>2
      <4> QED BY <1>2, <3>2, <4>1
    <3> QED BY <1>1, <2>1, <2>3, <3>1, <3>2, LeasedRoute, LateKept
  <2> QED BY <2>2, <2>3
<1>10. ASSUME Next PROVE
        \/ \E path \in Paths, dep \in Departures : CreateRoute(path, dep)
        \/ \E p \in PackageIds : AssignPackage(p)
        \/ \E p \in PackageIds : RemovePackage(p)
        \/ \E r \in RouteIds, u \in Trucks : AssignTruckToRoute(r, u)
        \/ \E r \in RouteIds : RemoveRoute(r)
        \/ \E r \in RouteIds : ReconcileRoute(r)
        \/ UNCHANGED <<routes, trucks>>
  BY <1>10 DEF Next, CreatePackage, AssignPackagesToRoute, SkipPackage, Heartbeat,
               ReconcileRouteFails, Tick, SetClockBack
<1>11. UNCHANGED vars => UNCHANGED <<routes, trucks>>
  BY DEF vars
<1> QED BY <1>3, <1>4, <1>5, <1>6, <1>7, <1>8, <1>9, <1>10, <1>11

THEOREM LateTrucksHold ==
  ASSUME MaxClockBack = 0
  PROVE  Spec => []LateTrucks
<1>1. Init => LateTrucks
  BY DEF Init, LateTrucks, Late, FreeTruck
<1>2. Inv /\ Inv' /\ Timely /\ LateTrucks /\ [Next]_vars => LateTrucks'
  BY LateStep
<1> QED BY <1>1, <1>2, InvHolds, TimelyHolds, PTL DEF Spec

LEMMA CompletedDelivered == Inv /\ Timely /\ LateTrucks => CompletedRouteIsDelivered
<1> SUFFICES ASSUME Inv, Timely, LateTrucks, NEW r \in LiveRoutes, routes[r].status = "COMPLETED"
    PROVE  /\ \A p \in routes[r].pkgs : packages[p].status = "DONE" /\ packages[p].loc = packages[p].end
           /\ clock >= EtaFinal(routes[r].path, routes[r].dep)
           /\ routes[r].truck # None =>
                /\ ~ Reconciled(r)
                /\ trucks[routes[r].truck].loc = Start(routes[r].path)
                /\ trucks[routes[r].truck].transit = None
  BY DEF CompletedRouteIsDelivered
<1>1. \A p \in routes[r].pkgs : packages[p].status = "DONE" /\ packages[p].loc = packages[p].end
  <2> SUFFICES ASSUME NEW p \in routes[r].pkgs
      PROVE packages[p].status = "DONE" /\ packages[p].loc = packages[p].end
    OBVIOUS
  <2>1. p \in LivePackages /\ packages[p].route = r /\ r # None
    BY NoneAssumption DEF Inv, RoutePackageLinks, LiveRoutes, RouteIds
  <2>2. PackageTimely(packages[p], routes[r], Present)
    BY <2>1 DEF Timely
  <2> QED BY <2>2 DEF PackageTimely
<1>2. clock >= EtaFinal(routes[r].path, routes[r].dep)
  <2>1. routes[r] \in Route /\ IsRoutePath(routes[r].path) /\ RouteTimely(routes[r], Present)
    BY LiveRouteFacts DEF Inv, Timely
  <2>2. routes[r].dep # None /\ EtaFinal(routes[r].path, routes[r].dep) <= Present
    BY <2>1 DEF RouteTimely
  <2>3. EtaFinal(routes[r].path, routes[r].dep) \in Nat
    BY <2>1, <2>2, ArrivalTimeType DEF Route, OptionalTime, Times
  <2>4. Present <= clock /\ Present \in Nat /\ clock \in Nat
    BY PresentType DEF Inv, Timely, JobNotAhead, Present
  <2> QED BY <2>2, <2>3, <2>4
<1>3. ASSUME routes[r].truck # None
      PROVE  /\ ~ Reconciled(r)
             /\ trucks[routes[r].truck].loc = Start(routes[r].path)
             /\ trucks[routes[r].truck].transit = None
  <2>1. r # None /\ routes[r] \in Route
    BY LiveRouteFacts, NoneAssumption DEF Inv, RouteIds, LiveRoutes
  <2>2. routes[r].truck \in Trucks /\ trucks[routes[r].truck].route = r
    BY <1>3, <2>1 DEF Inv, RouteTruckLinks, Route
  <2> QED BY <2>1, <2>2 DEF LateTrucks, Late
<1> QED BY <1>1, <1>2, <1>3

\* The exception handler of reconcile_routes is never entered while the clock
\* is not set back: the status of a route is one its schedule has reached.
THEOREM NeverFailsHolds ==
  ASSUME MaxClockBack = 0
  PROVE  Spec => []ReconcileNeverFails
BY TimelyHolds, InvHolds, NeverFails, PTL

\* A completed route has delivered every package it has, and none joins it
\* later, not even in a batch that started before it completed; and it has
\* given its truck back, or has one that came after the end, stands at the
\* start and leaves with the next heartbeat.
THEOREM CompletedDeliveredHolds ==
  ASSUME MaxClockBack = 0
  PROVE  Spec => []CompletedRouteIsDelivered
BY TimelyHolds, InvHolds, LateTrucksHold, CompletedDelivered, PTL

-----------------------------------------------------------------------------
(* Packages board ahead of the truck                                       *)

\* A truck is not recorded beyond where its route was at the instant `now'.
TruckTimely(T, R, now) ==
    \E i \in 1..Len(R.path) :
        /\ T.loc = R.path[i]
        /\ \/ i = 1 /\ T.transit = None
           \/ /\ StopTime(R.path, R.dep, i) <= now
              /\ i # 1 /\ T.transit # None => StopTime(R.path, R.dep, i) < now

TruckTimelyAt(t) ==
    trucks[t].route # None => TruckTimely(trucks[t], routes[trucks[t].route], Present)

TrucksTimely == \A t \in Trucks : TruckTimelyAt(t)

LEMMA StopTimeType ==
  ASSUME NEW path, IsRoutePath(path), NEW dep \in Nat
  PROVE  /\ \A i \in 1..Len(path) : StopTime(path, dep, i) \in Nat
         /\ \A i, j \in 1..Len(path) : i < j => StopTime(path, dep, i) < StopTime(path, dep, j)
<1>1. \A i \in 1..Len(path) : StopOffsets(path)[i] \in Nat
  BY OffsetsType
<1>2. \A i, j \in 1..Len(path) : i < j => StopOffsets(path)[i] < StopOffsets(path)[j]
  BY StopsInOrder
<1> QED BY <1>1, <1>2 DEF StopTime

\* The position of a scheduled route, by its stops.
LEMMA PositionByStops ==
  ASSUME NEW path, IsRoutePath(path), NEW dep \in Nat, NEW now \in Nat
  PROVE  LET P == PositionAt(path, dep, now)
         IN  \/ now < dep /\ P.kind = "BEFORE_START" /\ P.stop = Start(path)
             \/ \E i \in 2..Len(path) :
                  P.kind = "AT_STOP" /\ P.stop = path[i] /\ now = StopTime(path, dep, i)
             \/ \E i \in 1..(Len(path) - 1) :
                  /\ P.kind = "IN_TRANSIT" /\ P.from = path[i] /\ P.to = path[i + 1]
                  /\ StopTime(path, dep, i) <= now /\ now < StopTime(path, dep, i + 1)
                  /\ i # 1 => StopTime(path, dep, i) < now
             \/ P.kind = "AFTER_END"
<1> DEFINE stops == StopsReachedAt(path, dep, now)
           legs == LegsUnderWayAt(path, dep, now)
           P == PositionAt(path, dep, now)
<1>1. dep # None /\ Len(path) \in Nat
  BY NoneAssumption, PathFacts
<1>2. CASE now < dep
  <2>1. P = Standing("BEFORE_START", Start(path))
    BY <1>1, <1>2 DEF PositionAt
  <2> QED BY <1>2, <2>1 DEF Standing
<1>3. CASE ~ (now < dep) /\ stops # {}
  <2> DEFINE i == CHOOSE k \in stops : TRUE
  <2>1. P = Standing("AT_STOP", path[i])
    BY <1>1, <1>3 DEF PositionAt
  <2>2. i \in stops
    BY <1>3
  <2> HIDE DEF i
  <2>3. i \in 2..Len(path) /\ now = StopTime(path, dep, i)
    BY <2>2 DEF StopsReachedAt
  <2> QED BY <2>1, <2>3 DEF Standing
<1>4. CASE ~ (now < dep) /\ stops = {} /\ legs # {}
  <2> DEFINE i == CHOOSE k \in legs : TRUE
  <2>1. P = Driving(path[i], path[i + 1])
    BY <1>1, <1>4 DEF PositionAt
  <2>2. i \in legs
    BY <1>4
  <2> HIDE DEF i
  <2>3. /\ i \in 1..(Len(path) - 1)
        /\ StopTime(path, dep, i) <= now /\ now < StopTime(path, dep, i + 1)
    BY <2>2 DEF LegsUnderWayAt
  <2>4. i # 1 => StopTime(path, dep, i) # now
    BY <1>1, <1>4, <2>3 DEF StopsReachedAt
  <2>5. StopTime(path, dep, i) \in Nat
    BY <1>1, <2>3, StopTimeType
  <2>6. P.kind = "IN_TRANSIT" /\ P.from = path[i] /\ P.to = path[i + 1]
    BY <2>1 DEF Driving
  <2> QED BY <2>3, <2>4, <2>5, <2>6
<1>5. CASE ~ (now < dep) /\ stops = {} /\ legs = {}
  <2>1. P = Standing("AFTER_END", End(path))
    BY <1>1, <1>5 DEF PositionAt
  <2> QED BY <2>1 DEF Standing
<1> QED BY <1>2, <1>3, <1>4, <1>5

LEMMA TruckTimelyLater ==
  ASSUME NEW T, NEW R \in Route, IsRoutePath(R.path), R.dep \in Nat,
         NEW now \in Nat, NEW later \in Nat, now <= later, TruckTimely(T, R, now)
  PROVE  TruckTimely(T, R, later)
<1>1. PICK i \in 1..Len(R.path) :
        /\ T.loc = R.path[i]
        /\ \/ i = 1 /\ T.transit = None
           \/ /\ StopTime(R.path, R.dep, i) <= now
              /\ i # 1 /\ T.transit # None => StopTime(R.path, R.dep, i) < now
  BY DEF TruckTimely
<1>2. StopTime(R.path, R.dep, i) \in Nat
  BY StopTimeType
<1>3. /\ StopTime(R.path, R.dep, i) <= now => StopTime(R.path, R.dep, i) <= later
      /\ StopTime(R.path, R.dep, i) < now => StopTime(R.path, R.dep, i) < later
  BY <1>2
<1> QED BY <1>1, <1>3 DEF TruckTimely

LEMMA ReconciledTruckTimely ==
  ASSUME NEW T \in Truck, NEW r \in RouteIds, NEW R \in Route, IsRoutePath(R.path), R.dep \in Nat,
         NEW now \in Nat, ~ TruckReleases(R, now)
  PROVE  TruckTimely(ReconciledTruck(T, r, R, now), R, now)
<1> DEFINE P == PositionAt(R.path, R.dep, now)
           T2 == ReconciledTruck(T, r, R, now)
<1>1. Len(R.path) \in Nat /\ Len(R.path) >= 2
  BY PathFacts
<1>2. \/ now < R.dep /\ P.kind = "BEFORE_START" /\ P.stop = Start(R.path)
      \/ \E i \in 2..Len(R.path) :
           P.kind = "AT_STOP" /\ P.stop = R.path[i] /\ now = StopTime(R.path, R.dep, i)
      \/ \E i \in 1..(Len(R.path) - 1) :
           /\ P.kind = "IN_TRANSIT" /\ P.from = R.path[i]
           /\ StopTime(R.path, R.dep, i) <= now
           /\ i # 1 => StopTime(R.path, R.dep, i) < now
      \/ P.kind = "AFTER_END"
  BY PositionByStops
<1>3. P.kind # "AFTER_END"
  BY DEF TruckReleases
<1>4. P.kind = "IN_TRANSIT" => T2.loc = P.from
  <2> SUFFICES ASSUME P.kind = "IN_TRANSIT" PROVE T2.loc = P.from
    OBVIOUS
  <2>1. T2 = [[T EXCEPT !.route = r] EXCEPT !.loc = P.from, !.transit = P.to]
    BY DEF ReconciledTruck
  <2> QED BY <2>1 DEF Truck
<1>5. P.kind \in {"BEFORE_START", "AT_STOP"} => T2.loc = P.stop /\ T2.transit = None
  <2> SUFFICES ASSUME P.kind \in {"BEFORE_START", "AT_STOP"}
      PROVE T2.loc = P.stop /\ T2.transit = None
    OBVIOUS
  <2>1. T2 = [[T EXCEPT !.route = r] EXCEPT !.loc = P.stop, !.transit = None]
    BY DEF ReconciledTruck
  <2> QED BY <2>1 DEF Truck
<1> HIDE DEF P, T2
<1>6. CASE P.kind = "BEFORE_START" /\ P.stop = Start(R.path)
  <2>1. 1 \in 1..Len(R.path) /\ T2.loc = R.path[1] /\ T2.transit = None
    BY <1>1, <1>5, <1>6 DEF Start
  <2> QED BY <2>1 DEF TruckTimely, T2
<1>7. ASSUME NEW i \in 2..Len(R.path), P.kind = "AT_STOP", P.stop = R.path[i],
             now = StopTime(R.path, R.dep, i)
      PROVE  TruckTimely(T2, R, now)
  <2>1. i \in 1..Len(R.path) /\ T2.loc = R.path[i] /\ T2.transit = None
    BY <1>1, <1>5, <1>7
  <2> QED BY <1>7, <2>1 DEF TruckTimely
<1>8. ASSUME NEW i \in 1..(Len(R.path) - 1), P.kind = "IN_TRANSIT", P.from = R.path[i],
             StopTime(R.path, R.dep, i) <= now, i # 1 => StopTime(R.path, R.dep, i) < now
      PROVE  TruckTimely(T2, R, now)
  <2>1. i \in 1..Len(R.path) /\ T2.loc = R.path[i]
    BY <1>1, <1>4, <1>8
  <2> QED BY <1>8, <2>1 DEF TruckTimely
<1> QED BY <1>2, <1>3, <1>6, <1>7, <1>8 DEF T2

LEMMA TruckTimelyKept ==
  ASSUME NEW t \in Trucks, TruckTimelyAt(t), trucks'[t] = trucks[t], Inv,
         Present \in Nat, Present' \in Nat, Present <= Present',
         trucks[t].route # None =>
            /\ routes'[trucks[t].route].path = routes[trucks[t].route].path
            /\ routes'[trucks[t].route].dep = routes[trucks[t].route].dep
  PROVE  TruckTimelyAt(t)'
<1> DEFINE r == trucks[t].route
<1>1. trucks'[t].route = r
  OBVIOUS
<1>2. SUFFICES ASSUME r # None PROVE TruckTimely(trucks[t], routes'[r], Present')
  BY <1>1 DEF TruckTimelyAt, TruckTimely
<1>3. r \in LiveRoutes /\ routes[r] \in Route /\ IsRoutePath(routes[r].path) /\ routes[r].dep \in Nat
  BY <1>2, LeasedRoute, LiveRouteFacts DEF Inv, RouteTruckLinks, Route, OptionalTime, Times
<1>4. TruckTimely(trucks[t], routes[r], Present')
  BY <1>2, <1>3, TruckTimelyLater DEF TruckTimelyAt
<1> QED BY <1>2, <1>4 DEF TruckTimely

LEMMA TruckTimelyStep ==
  ASSUME Inv, Inv', Timely, TrucksTimely, [Next]_vars, MaxClockBack = 0
  PROVE  TrucksTimely'
<1> SUFFICES ASSUME NEW t \in Trucks PROVE TruckTimelyAt(t)'
  BY DEF TrucksTimely
<1>1. TruckTimelyAt(t)
  BY DEF TrucksTimely
<1>2. Present \in Nat /\ Present' \in Nat /\ Present <= Present'
  <2>1. TypeOK' => (Present \in Nat)'
    BY PresentType, PTL
  <2> QED BY <2>1, PresentType, PresentAdvances DEF Inv, Timely
<1> DEFINE s == trucks[t].route
<1>3. CASE UNCHANGED <<routes, trucks>>
  BY <1>1, <1>2, <1>3, TruckTimelyKept
<1>4. ASSUME NEW path \in Paths, NEW dep \in Departures, CreateRoute(path, dep)
      PROVE  TruckTimelyAt(t)'
  <2>1. /\ routes[nextRouteId] = NoRoute /\ trucks' = trucks
        /\ \A r \in RouteIds \ {nextRouteId} : routes'[r] = routes[r]
    BY <1>4, CreateRouteEffect
  <2>2. s # None => s # nextRouteId /\ s \in RouteIds
    <3>1. nextRouteId \notin LiveRoutes
      BY <2>1 DEF LiveRoutes
    <3> QED BY <3>1, LeasedRoute
  <2> QED BY <1>1, <1>2, <2>1, <2>2, TruckTimelyKept
<1>5. ASSUME NEW p \in PackageIds, AssignPackage(p) \/ RemovePackage(p)
      PROVE  TruckTimelyAt(t)'
  <2>1. trucks' = trucks /\ \A r \in LiveRoutes : SameSchedule(routes'[r], routes[r])
    BY <1>5, AssignPackageEffect, RemovePackageEffect DEF SameSchedule, LiveRoutes
  <2> QED BY <1>1, <1>2, <2>1, LeasedRoute, TruckTimelyKept DEF SameSchedule
<1>6. ASSUME NEW r \in RouteIds, NEW u \in Trucks, AssignTruckToRoute(r, u)
      PROVE  TruckTimelyAt(t)'
  <2>1. CASE t = u
    <3>1. /\ trucks'[u].route = r
          /\ routes'[r].path = routes[r].path
          /\ trucks[u] \in Truck /\ trucks[u].route = None
          /\ r \in LiveRoutes
      BY <1>6, AssignTruckEffect DEF Inv, TypeOK
    <3>2. trucks[u].loc = Start(routes[r].path)
      BY <1>6, <3>1 DEF AssignTruckToRoute, TruckSuitable
    <3>3. PICK from, until :
             trucks'[u] = [trucks[u] EXCEPT !.route = r, !.status = "ON_THE_WAY", !.busyFrom = from,
                                            !.busyUntil = until, !.transit = None]
      BY <1>6 DEF AssignTruckToRoute, Inv, TypeOK
    <3>4. trucks'[u].loc = trucks[u].loc /\ trucks'[u].transit = None
      BY <3>1, <3>3 DEF Truck
    <3>5. 1 \in 1..Len(routes[r].path)
      BY <3>1, LiveRouteFacts, PathFacts DEF Inv
    <3> QED BY <2>1, <3>1, <3>2, <3>4, <3>5 DEF TruckTimelyAt, TruckTimely, Start
  <2>2. CASE t # u
    <3>1. /\ trucks'[t] = trucks[t] /\ routes[r].truck = None
          /\ \A r2 \in RouteIds \ {r} : routes'[r2] = routes[r2]
      BY <1>6, <2>2, AssignTruckEffect
    <3>2. s # None => s # r /\ s \in RouteIds
      BY <3>1, LeasedRoute, FleetAssumption
    <3> QED BY <1>1, <1>2, <3>1, <3>2, TruckTimelyKept
  <2> QED BY <2>1, <2>2
<1>7. ASSUME NEW r \in RouteIds, RemoveRoute(r)
      PROVE  TruckTimelyAt(t)'
  <2>1. CASE s = r
    <3>1. trucks'[t].route = None
      BY <1>7, <2>1, RemoveRouteEffect
    <3> QED BY <3>1 DEF TruckTimelyAt
  <2>2. CASE s # r
    <3>1. trucks'[t] = trucks[t] /\ \A r2 \in RouteIds \ {r} : routes'[r2] = routes[r2]
      BY <1>7, <2>2, RemoveRouteEffect
    <3> QED BY <1>1, <1>2, <2>2, <3>1, LeasedRoute, TruckTimelyKept
  <2> QED BY <2>1, <2>2
<1>8. ASSUME NEW r \in RouteIds, ReconcileRoute(r)
      PROVE  TruckTimelyAt(t)'
  <2> DEFINE R == routes[r]
             now == job.now
  <2>1. /\ now \in Nat /\ r \in LiveRoutes /\ job.kind = "heartbeat"
        /\ routes'[r] = ReconciledRoute(R, now)
        /\ \A r2 \in RouteIds \ {r} : routes'[r2] = routes[r2]
    BY <1>8, ReconcileRouteEffect
  <2>2. CASE s = r
    <3>1. /\ trucks'[t] = ReconciledTruck(trucks[t], r, R, now)
          /\ trucks'[t].route = IF TruckReleases(R, now) THEN None ELSE r
      BY <1>8, <2>2, ReconcileRouteEffect
    <3>2. SUFFICES ASSUME ~ TruckReleases(R, now) PROVE TruckTimelyAt(t)'
      BY <3>1 DEF TruckTimelyAt
    <3>3. R \in Route /\ IsRoutePath(R.path) /\ trucks[t] \in Truck /\ r # None
      BY <2>1, LiveRouteFacts, NoneAssumption DEF Inv, TypeOK, RouteIds
    <3>4. R.dep \in Nat
      BY <2>2, <3>3 DEF Inv, RouteTruckLinks, Route, OptionalTime, Times
    <3>5. TruckTimely(trucks'[t], R, now)
      BY <2>1, <3>1, <3>2, <3>3, <3>4, ReconciledTruckTimely
    <3>6. now <= Present'
      BY <1>2, <2>1 DEF Present
    <3>7. TruckTimely(trucks'[t], R, Present')
      BY <1>2, <2>1, <3>3, <3>4, <3>5, <3>6, TruckTimelyLater
    <3>8. routes'[r].path = R.path /\ routes'[r].dep = R.dep
      BY <2>1, <3>3, ReconciledRouteFields
    <3>9. TruckTimely(trucks'[t], routes'[r], Present')
      BY <3>7, <3>8 DEF TruckTimely
    <3> QED BY <3>1, <3>2, <3>9 DEF TruckTimelyAt, TruckTimely
  <2>3. CASE s # r
    <3>1. trucks'[t] = trucks[t]
      BY <1>8, <2>3, ReconcileRouteEffect
    <3> QED BY <1>1, <1>2, <2>1, <2>3, <3>1, LeasedRoute, TruckTimelyKept
  <2> QED BY <2>2, <2>3
<1>9. ASSUME Next PROVE
        \/ \E path \in Paths, dep \in Departures : CreateRoute(path, dep)
        \/ \E p \in PackageIds : AssignPackage(p) \/ RemovePackage(p)
        \/ \E r \in RouteIds, u \in Trucks : AssignTruckToRoute(r, u)
        \/ \E r \in RouteIds : RemoveRoute(r)
        \/ \E r \in RouteIds : ReconcileRoute(r)
        \/ UNCHANGED <<routes, trucks>>
  BY <1>9 DEF Next, CreatePackage, AssignPackagesToRoute, SkipPackage, Heartbeat,
              ReconcileRouteFails, Tick, SetClockBack
<1>10. UNCHANGED vars => UNCHANGED <<routes, trucks>>
  BY DEF vars
<1> QED BY <1>3, <1>4, <1>5, <1>6, <1>7, <1>8, <1>9, <1>10

\* Whatever the policy's position and the truck's recorded place are computed
\* from, the latter is not ahead of the former.
LEMMA AheadOfTruck ==
  ASSUME NEW T, NEW R \in Route, IsRoutePath(R.path), R.dep \in Nat, NEW now \in Nat,
         TruckTimely(T, R, now), NEW city, OnPath(R.path, city),
         PickupNotPassed(R.path, R.dep, city, now)
  PROVE  ~ Passed(T, R.path, city)
<1> DEFINE path == R.path
           P == PositionAt(path, R.dep, now)
           there == PathIndex(path, city)
           at(i) == StopTime(path, R.dep, i)
<1>1. Len(path) \in Nat /\ Len(path) >= 2 /\ there \in 1..Len(path)
  BY PathFacts, PathIndexFacts
<1>2. PICK here \in 1..Len(path) :
        /\ T.loc = path[here]
        /\ \/ here = 1 /\ T.transit = None
           \/ at(here) <= now /\ (here # 1 /\ T.transit # None => at(here) < now)
  BY DEF TruckTimely
<1>3. PathIndex(path, T.loc) = here
  BY <1>2, PathIndexFacts
<1>4. \A i \in 1..Len(path) : PathIndex(path, path[i]) = i
  BY PathIndexFacts
<1>5. /\ \A i \in 1..Len(path) : at(i) \in Nat
      /\ \A i, j \in 1..Len(path) : i < j => at(i) < at(j)
  BY StopTimeType
<1>6. at(1) = R.dep
  BY OffsetSteps DEF StopTime
<1>7. SUFFICES here <= there /\ (here = there => T.transit = None)
  BY <1>1, <1>2, <1>3 DEF Passed
<1>8. \/ now < R.dep /\ P.kind = "BEFORE_START"
      \/ \E i \in 2..Len(path) : P.kind = "AT_STOP" /\ P.stop = path[i] /\ now = at(i)
      \/ \E i \in 1..(Len(path) - 1) :
           P.kind = "IN_TRANSIT" /\ P.from = path[i] /\ at(i) <= now /\ now < at(i + 1)
      \/ P.kind = "AFTER_END"
  BY PositionByStops
<1>9. /\ P.kind # "AFTER_END"
      /\ P.kind = "AT_STOP" => PathIndex(path, P.stop) <= there
      /\ P.kind = "IN_TRANSIT" => PathIndex(path, P.from) < there
  BY DEF PickupNotPassed
<1> HIDE DEF path, P, there, at
<1>10. CASE now < R.dep
  <2>1. here = 1 \/ at(1) < at(here)
    BY <1>1, <1>2, <1>5
  <2>2. here = 1 /\ T.transit = None
    BY <1>1, <1>2, <1>5, <1>6, <1>10, <2>1
  <2> QED BY <1>1, <2>2
<1>11. ASSUME NEW i \in 2..Len(path), P.kind = "AT_STOP", P.stop = path[i], now = at(i)
       PROVE  here <= there /\ (here = there => T.transit = None)
  <2>1. i <= there /\ i \in 1..Len(path)
    BY <1>1, <1>4, <1>9, <1>11
  <2>2. here <= i
    BY <1>1, <1>2, <1>5, <1>11, <2>1
  <2>3. here = i => T.transit = None
    BY <1>1, <1>2, <1>5, <1>11, <2>1
  <2> QED BY <1>1, <2>1, <2>2, <2>3
<1>12. ASSUME NEW i \in 1..(Len(path) - 1), P.kind = "IN_TRANSIT", P.from = path[i], now < at(i + 1)
       PROVE  here <= there /\ (here = there => T.transit = None)
  <2>1. i < there /\ i \in 1..Len(path) /\ i + 1 \in 1..Len(path)
    BY <1>1, <1>4, <1>9, <1>12
  <2>2. here <= i
    <3>1. ~ (here = i + 1) /\ ~ (i + 1 < here)
      BY <1>1, <1>2, <1>5, <1>12, <2>1
    <3> QED BY <1>1, <2>1, <3>1
  <2> QED BY <1>1, <2>1, <2>2
<1> QED BY <1>8, <1>9, <1>10, <1>11, <1>12

\* Packages join a route by assignment only.
LEMMA OnlyAssignmentLoads ==
  ASSUME Inv, [Next]_vars, NEW r \in LiveRoutes, routes'[r] # NoRoute,
         NEW p \in routes'[r].pkgs \ routes[r].pkgs
  PROVE  p \in PackageIds /\ AssignPackage(p) /\ r = job.route
<1>1. r \in RouteIds /\ routes[r] \in Route
  BY LiveRouteFacts DEF Inv
<1>2. CASE UNCHANGED routes
  BY <1>2
<1>3. ASSUME NEW path \in Paths, NEW dep \in Departures, CreateRoute(path, dep) PROVE FALSE
  <2>1. /\ routes[nextRouteId] = NoRoute
        /\ \A r2 \in RouteIds \ {nextRouteId} : routes'[r2] = routes[r2]
    BY <1>3, CreateRouteEffect
  <2>2. r # nextRouteId
    BY <2>1 DEF LiveRoutes
  <2> QED BY <1>1, <2>1, <2>2
<1>4. ASSUME NEW p2 \in PackageIds, AssignPackage(p2)
      PROVE  r = job.route /\ p = p2
  <2>1. routes' = [routes EXCEPT ![job.route].pkgs = @ \cup {p2}]
    BY <1>4 DEF AssignPackage
  <2>2. r = job.route
    BY <1>1, <2>1 DEF Inv, TypeOK
  <2>3. routes'[r].pkgs = routes[r].pkgs \cup {p2}
    BY <1>1, <2>1, <2>2 DEF Inv, TypeOK, Route
  <2> QED BY <2>2, <2>3
<1>5. ASSUME NEW p2 \in PackageIds, RemovePackage(p2) PROVE FALSE
  <2>1. routes' = routes \/ \E r2 : routes' = [routes EXCEPT ![r2].pkgs = @ \ {p2}]
    BY <1>5 DEF RemovePackage
  <2>2. routes'[r].pkgs \subseteq routes[r].pkgs
    BY <1>1, <2>1 DEF Inv, TypeOK, Route
  <2> QED BY <2>2
<1>6. ASSUME NEW r2 \in RouteIds, NEW t \in Trucks, AssignTruckToRoute(r2, t) PROVE FALSE
  <2> DEFINE S == Scheduled(routes[r2])
  <2>1. routes' = [routes EXCEPT ![r2] = [S EXCEPT !.truck = t]]
    BY <1>6 DEF AssignTruckToRoute
  <2>2. CASE r = r2
    <3>1. S.pkgs = routes[r].pkgs /\ S \in [path : Paths, dep : OptionalTime, status : RouteStatus,
                                           truck : Trucks \cup {None}, pkgs : SUBSET PackageIds]
      BY <1>1, <2>2 DEF Scheduled, Route, Inv, TypeOK, OptionalTime, RouteStatus
    <3> HIDE DEF S
    <3>2. routes'[r].pkgs = routes[r].pkgs
      BY <1>1, <2>1, <2>2, <3>1 DEF Inv, TypeOK
    <3> QED BY <3>2
  <2>3. CASE r # r2
    BY <1>1, <1>6, <2>3, AssignTruckEffect
  <2> QED BY <2>2, <2>3
<1>7. ASSUME NEW r2 \in RouteIds, RemoveRoute(r2) PROVE FALSE
  BY <1>1, <1>7, RemoveRouteEffect
<1>8. ASSUME NEW r2 \in RouteIds, ReconcileRoute(r2) PROVE FALSE
  <2>1. CASE r = r2
    BY <1>1, <1>8, <2>1, ReconcileRouteEffect, ReconciledRouteFields
  <2>2. CASE r # r2
    BY <1>1, <1>8, <2>2, ReconcileRouteEffect
  <2> QED BY <2>1, <2>2
<1>9. ASSUME Next PROVE
        \/ \E path \in Paths, dep \in Departures : CreateRoute(path, dep)
        \/ \E p2 \in PackageIds : AssignPackage(p2)
        \/ \E p2 \in PackageIds : RemovePackage(p2)
        \/ \E r2 \in RouteIds, u \in Trucks : AssignTruckToRoute(r2, u)
        \/ \E r2 \in RouteIds : RemoveRoute(r2)
        \/ \E r2 \in RouteIds : ReconcileRoute(r2)
        \/ UNCHANGED routes
  BY <1>9 DEF Next, CreatePackage, AssignPackagesToRoute, SkipPackage, Heartbeat,
              ReconcileRouteFails, Tick, SetClockBack
<1>10. UNCHANGED vars => UNCHANGED routes
  BY DEF vars
<1> QED BY <1>2, <1>3, <1>4, <1>5, <1>6, <1>7, <1>8, <1>9, <1>10

LEMMA BoardsAheadStep ==
  ASSUME Inv, TrucksTimely, [Next]_vars, NEW r \in LiveRoutes, routes[r].truck # None,
         routes'[r] # NoRoute, NEW p \in routes'[r].pkgs \ routes[r].pkgs
  PROVE  ~ Passed(trucks[routes[r].truck], routes[r].path, packages[p].start)
<1> DEFINE R == routes[r]
           T == trucks[R.truck]
<1>1. p \in PackageIds /\ AssignPackage(p) /\ r = job.route
  BY OnlyAssignmentLoads
<1>2. job.kind = "assign" /\ PackageAccepted(R, p, job.now)
  BY <1>1, AssignPackageEffect
<1>3. R \in Route /\ IsRoutePath(R.path) /\ r # None
  BY LiveRouteFacts, NoneAssumption DEF Inv, RouteIds, LiveRoutes
<1>4. R.truck \in Trucks /\ T.route = r
  BY <1>3 DEF Inv, RouteTruckLinks, Route
<1>5. R.dep \in Nat
  BY <1>3, <1>4 DEF Inv, RouteTruckLinks, Route, OptionalTime, Times
<1>6. Present = job.now /\ job.now \in Nat
  BY <1>2, PresentType DEF Present, Inv
<1>7. TruckTimely(T, R, job.now)
  BY <1>3, <1>4, <1>6 DEF TrucksTimely, TruckTimelyAt
<1>8. OnPath(R.path, packages[p].start) /\ PickupNotPassed(R.path, R.dep, packages[p].start, job.now)
  BY <1>2 DEF PackageAccepted, IncludesInOrder
<1> QED BY <1>3, <1>5, <1>6, <1>7, <1>8, AheadOfTruck

\* No package joins a route whose truck is recorded beyond the pickup, on any
\* path, at any instant, and however long the batch has been running.
THEOREM BoardsAhead ==
  ASSUME MaxClockBack = 0
  PROVE  Spec => PackagesBoardAhead
<1>1. Init => TrucksTimely
  BY DEF Init, TrucksTimely, TruckTimelyAt, FreeTruck
<1>2. Inv /\ Inv' /\ Timely /\ TrucksTimely /\ [Next]_vars => TrucksTimely'
  BY TruckTimelyStep
<1>3. Inv /\ TrucksTimely /\ [Next]_vars =>
        [\A r \in LiveRoutes : routes[r].truck # None /\ routes'[r] # NoRoute =>
            \A p \in routes'[r].pkgs \ routes[r].pkgs :
               ~ Passed(trucks[routes[r].truck], routes[r].path, packages[p].start)]_vars
  BY BoardsAheadStep
<1> QED BY <1>1, <1>2, <1>3, InvHolds, TimelyHolds, PTL DEF Spec, PackagesBoardAhead

-----------------------------------------------------------------------------
(* The lifecycles                                                          *)

RouteForward(r) ==
    routes[r] # NoRoute /\ routes'[r] # NoRoute =>
        RouteRank[routes[r].status] <= RouteRank[routes'[r].status]

PackageForward(p) ==
    packages[p] # NoPackage /\ packages'[p] # NoPackage /\ packages'[p].route = packages[p].route =>
        ItemRank[packages[p].status] <= ItemRank[packages'[p].status]

LEMMA Ranks ==
  /\ \A s \in RouteStatus : RouteRank[s] \in Nat
  /\ \A s \in ItemStatus : ItemRank[s] \in Nat
  /\ RouteRank["PLANNED"] <= RouteRank["SCHEDULED"]
BY DEF RouteStatus, ItemStatus, RouteRank, ItemRank

LEMMA ForwardStep ==
  ASSUME Inv, Timely, [Next]_vars
  PROVE  /\ \A r \in RouteIds : RouteForward(r)
         /\ \A p \in PackageIds : PackageForward(p)
<1>1. ASSUME NEW r \in RouteIds, routes'[r] = routes[r] \/ (routes[r] # NoRoute /\ SameSchedule(routes'[r], routes[r]))
      PROVE  RouteForward(r)
  <2> SUFFICES ASSUME routes[r] # NoRoute
      PROVE  RouteRank[routes[r].status] <= RouteRank[routes'[r].status]
    BY DEF RouteForward
  <2>1. routes[r].status \in RouteStatus
    BY LiveRouteFacts DEF LiveRoutes, Inv, Route
  <2>2. RouteRank[routes[r].status] \in Nat
    BY <2>1, Ranks
  <2>3. routes'[r].status = routes[r].status
    BY <1>1 DEF SameSchedule
  <2> QED BY <2>2, <2>3
<1>2. ASSUME NEW p \in PackageIds, packages'[p] = packages[p] \/ SameProgress(packages'[p], packages[p])
      PROVE  PackageForward(p)
  <2> SUFFICES ASSUME packages[p] # NoPackage
      PROVE  ItemRank[packages[p].status] <= ItemRank[packages'[p].status]
    BY DEF PackageForward
  <2>1. packages[p].status \in ItemStatus
    BY DEF Inv, TypeOK, Package
  <2>2. ItemRank[packages[p].status] \in Nat
    BY <2>1, Ranks
  <2>3. packages'[p].status = packages[p].status
    BY <1>2 DEF SameProgress
  <2> QED BY <2>2, <2>3
<1>3. CASE UNCHANGED <<routes, packages>>
  BY <1>1, <1>2, <1>3
<1>4. ASSUME NEW path \in Paths, NEW dep \in Departures, CreateRoute(path, dep)
      PROVE  /\ \A r \in RouteIds : RouteForward(r)
             /\ \A p \in PackageIds : PackageForward(p)
  <2>1. /\ routes[nextRouteId] = NoRoute /\ packages' = packages
        /\ \A r \in RouteIds \ {nextRouteId} : routes'[r] = routes[r]
    BY <1>4, CreateRouteEffect
  <2>2. RouteForward(nextRouteId)
    BY <2>1 DEF RouteForward
  <2> QED BY <1>1, <1>2, <2>1, <2>2
<1>5. ASSUME NEW q \in Parcels, NEW c \in Customers, CreatePackage(q, c)
      PROVE  /\ \A r \in RouteIds : RouteForward(r)
             /\ \A p \in PackageIds : PackageForward(p)
  <2>1. /\ packages[nextPackageId] = NoPackage /\ routes' = routes
        /\ \A p \in PackageIds \ {nextPackageId} : packages'[p] = packages[p]
    BY <1>5, CreatePackageEffect
  <2>2. PackageForward(nextPackageId)
    BY <2>1 DEF PackageForward
  <2> QED BY <1>1, <1>2, <2>1, <2>2
<1>6. ASSUME NEW p0 \in PackageIds, AssignPackage(p0)
      PROVE  /\ \A r \in RouteIds : RouteForward(r)
             /\ \A p \in PackageIds : PackageForward(p)
  <2>1. /\ job.route \in LiveRoutes
        /\ \A r \in RouteIds \ {job.route} : routes'[r] = routes[r]
        /\ SameSchedule(routes'[job.route], routes[job.route])
        /\ \A p2 \in PackageIds \ {p0} : packages'[p2] = packages[p2]
        /\ SameProgress(packages'[p0], packages[p0])
    BY <1>6, AssignPackageEffect
  <2> QED BY <1>1, <1>2, <2>1 DEF LiveRoutes
<1>7. ASSUME NEW r0 \in RouteIds, NEW t \in Trucks, AssignTruckToRoute(r0, t)
      PROVE  /\ \A r \in RouteIds : RouteForward(r)
             /\ \A p \in PackageIds : PackageForward(p)
  <2>1. /\ r0 \in LiveRoutes /\ packages' = packages
        /\ routes[r0].dep # None => SameSchedule(routes'[r0], routes[r0])
        /\ routes[r0].dep = None => routes'[r0].status = "SCHEDULED"
        /\ \A r \in RouteIds \ {r0} : routes'[r] = routes[r]
    BY <1>7, AssignTruckEffect
  <2>2. routes[r0].dep = None => routes[r0].status = "PLANNED"
    BY <2>1 DEF Timely, RouteTimely
  <2>3. RouteForward(r0)
    <3>1. CASE routes[r0].dep = None
      BY <2>1, <2>2, <3>1, Ranks DEF RouteForward
    <3>2. CASE routes[r0].dep # None
      BY <1>1, <2>1, <3>2 DEF LiveRoutes
    <3> QED BY <3>1, <3>2
  <2> QED BY <1>1, <1>2, <2>1, <2>3
<1>8. ASSUME NEW r0 \in RouteIds, RemoveRoute(r0)
      PROVE  /\ \A r \in RouteIds : RouteForward(r)
             /\ \A p \in PackageIds : PackageForward(p)
  <2>1. /\ routes'[r0] = NoRoute /\ r0 # None
        /\ \A r \in RouteIds \ {r0} : routes'[r] = routes[r]
        /\ \A p \in LivePackages : packages[p].route = r0 => packages'[p].route = None
        /\ \A p \in PackageIds : packages[p] = NoPackage \/ packages[p].route # r0 =>
              packages'[p] = packages[p]
    BY <1>8, RemoveRouteEffect, NoneAssumption DEF RouteIds
  <2>2. RouteForward(r0)
    BY <2>1 DEF RouteForward
  <2>3. ASSUME NEW p \in PackageIds PROVE PackageForward(p)
    <3>1. CASE packages[p] = NoPackage \/ packages[p].route # r0
      BY <1>2, <2>1, <3>1
    <3>2. CASE p \in LivePackages /\ packages[p].route = r0
      BY <2>1, <3>2 DEF PackageForward
    <3> QED BY <3>1, <3>2 DEF LivePackages
  <2> QED BY <1>1, <2>1, <2>2, <2>3
<1>9. ASSUME NEW p0 \in PackageIds, RemovePackage(p0)
      PROVE  /\ \A r \in RouteIds : RouteForward(r)
             /\ \A p \in PackageIds : PackageForward(p)
  <2>1. /\ packages'[p0] = NoPackage
        /\ \A p2 \in PackageIds \ {p0} : packages'[p2] = packages[p2]
        /\ \A r \in LiveRoutes : SameSchedule(routes'[r], routes[r])
        /\ \A r \in RouteIds \ LiveRoutes : routes'[r] = routes[r]
    BY <1>9, RemovePackageEffect
  <2>2. PackageForward(p0)
    BY <2>1 DEF PackageForward
  <2> QED BY <1>1, <1>2, <2>1, <2>2 DEF LiveRoutes
<1>10. ASSUME NEW r0 \in RouteIds, ReconcileRoute(r0)
      PROVE  /\ \A r \in RouteIds : RouteForward(r)
             /\ \A p \in PackageIds : PackageForward(p)
  <2>1. /\ r0 \in LiveRoutes /\ job.kind = "heartbeat"
        /\ routes'[r0] = ReconciledRoute(routes[r0], job.now)
        /\ \A r \in RouteIds \ {r0} : routes'[r] = routes[r]
        /\ \A p \in LivePackages : packages[p].route = r0 =>
              packages'[p] = ReconciledPackage(packages[p], routes[r0], job.now)
        /\ \A p \in PackageIds : packages[p] = NoPackage \/ packages[p].route # r0 =>
              packages'[p] = packages[p]
    BY <1>10, ReconcileRouteEffect
  <2>2. RouteForward(r0)
    BY <2>1, ReconciledInTime, RouteGoesForward, ReconciledRouteFields DEF RouteForward
  <2>3. ASSUME NEW p \in PackageIds PROVE PackageForward(p)
    <3>1. CASE packages[p] = NoPackage \/ packages[p].route # r0
      BY <1>2, <2>1, <3>1
    <3>2. CASE p \in LivePackages /\ packages[p].route = r0
      BY <2>1, <3>2, ReconciledInTime, PackageGoesForward DEF PackageForward
    <3> QED BY <3>1, <3>2 DEF LivePackages
  <2> QED BY <1>1, <2>1, <2>2, <2>3
<1>11. CASE Next /\ ~ UNCHANGED <<routes, packages>>
  BY <1>4, <1>5, <1>6, <1>7, <1>8, <1>9, <1>10, <1>11
     DEF Next, AssignPackagesToRoute, SkipPackage, Heartbeat, ReconcileRouteFails, Tick, SetClockBack
<1> QED BY <1>3, <1>11 DEF vars

\* No step lowers the status of a route, and only taking a package off its route
\* lowers the package's, although _apply_route_status and the package updates
\* would write earlier statuses as readily as later ones.
THEOREM LifecycleHolds ==
  ASSUME MaxClockBack = 0
  PROVE  Spec => LifecycleNeverReverts
<1>1. Inv /\ Timely /\ [Next]_vars =>
        [/\ \A r \in LiveRoutes : routes'[r] # NoRoute =>
               RouteRank[routes[r].status] <= RouteRank[routes'[r].status]
         /\ \A p \in LivePackages : packages'[p] # NoPackage /\ packages'[p].route = packages[p].route =>
               ItemRank[packages[p].status] <= ItemRank[packages'[p].status]]_vars
  <2> SUFFICES ASSUME Inv, Timely, [Next]_vars
      PROVE  /\ \A r \in LiveRoutes : routes'[r] # NoRoute =>
                   RouteRank[routes[r].status] <= RouteRank[routes'[r].status]
             /\ \A p \in LivePackages : packages'[p] # NoPackage /\ packages'[p].route = packages[p].route =>
                   ItemRank[packages[p].status] <= ItemRank[packages'[p].status]
    OBVIOUS
  <2>1. \A r \in RouteIds : RouteForward(r)
    BY ForwardStep
  <2>2. \A p \in PackageIds : PackageForward(p)
    BY ForwardStep
  <2> QED BY <2>1, <2>2 DEF RouteForward, PackageForward, LiveRoutes, LivePackages
<1> QED BY <1>1, TimelyHolds, InvHolds, PTL DEF Spec, LifecycleNeverReverts

-----------------------------------------------------------------------------
(* The dispatcher's board                                                  *)

LEMMA BoardNames ==
  /\ Board!Stages = RouteStatus /\ Board!ParcelStages = ItemStatus
  /\ Board!StageRank = RouteRank /\ Board!ParcelRank = ItemRank
BY DEF Board!Stages, Board!ParcelStages, Board!StageRank, Board!ParcelRank,
       RouteStatus, ItemStatus, RouteRank, ItemRank

\* What the board shows of a world, entry by entry.
LEMMA OnTheBoard ==
  ASSUME Inv
  PROVE  /\ \A r \in RouteIds : routes[r] # NoRoute => r < nextRouteId /\ Stage[r] = routes[r].status
         /\ \A p \in PackageIds : packages[p] # NoPackage =>
               /\ p < nextPackageId
               /\ ParcelStage[p] = packages[p].status /\ Booking[p] = packages[p].route
         /\ \A p \in PackageIds : packages[p] = NoPackage => Booking[p] = None
         /\ \A r \in LiveRoutes : Stage[r] \in RouteStatus
         /\ \A p \in LivePackages : ParcelStage[p] \in ItemStatus
<1>1. nextRouteId \in Nat /\ nextPackageId \in Nat
  BY BoundAssumption DEF Inv, TypeOK
<1>2. \A r \in RouteIds : routes[r] # NoRoute => r < nextRouteId
  BY <1>1, BoundAssumption DEF Inv, FreshIds, RouteIds
<1>3. \A p \in PackageIds : packages[p] # NoPackage => p < nextPackageId
  BY <1>1, BoundAssumption DEF Inv, FreshIds, PackageIds
<1>4. \A r \in RouteIds : routes[r] # NoRoute => Stage[r] = routes[r].status
  BY <1>1, <1>2, BoundAssumption DEF Stage, RouteIds
<1>5. \A p \in PackageIds : packages[p] # NoPackage =>
        ParcelStage[p] = packages[p].status /\ Booking[p] = packages[p].route
  BY <1>1, <1>3, BoundAssumption DEF ParcelStage, Booking, PackageIds
<1>6. \A p \in PackageIds : packages[p] = NoPackage => Booking[p] = None
  BY DEF Booking
<1>7. \A r \in LiveRoutes : Stage[r] \in RouteStatus
  BY <1>4, LiveRouteFacts DEF LiveRoutes, Inv, Route
<1>8. \A p \in LivePackages : ParcelStage[p] \in ItemStatus
  BY <1>5 DEF LivePackages, Inv, TypeOK, Package
<1> QED BY <1>2, <1>3, <1>4, <1>5, <1>6, <1>7, <1>8

\* An entry that keeps its number and its entity keeps its place on the board.
LEMMA SamePlace ==
  ASSUME UNCHANGED <<nextRouteId, nextPackageId>>
  PROVE  /\ \A r \in RouteIds :
               \/ routes'[r] = routes[r]
               \/ routes[r] # NoRoute /\ routes'[r] # NoRoute /\ routes'[r].status = routes[r].status
               => Stage'[r] = Stage[r]
         /\ \A p \in PackageIds :
               \/ packages'[p] = packages[p]
               \/ packages[p] # NoPackage /\ packages'[p] # NoPackage /\ packages'[p].status = packages[p].status
               => ParcelStage'[p] = ParcelStage[p]
         /\ \A p \in PackageIds :
               \/ packages'[p] = packages[p]
               \/ packages[p] # NoPackage /\ packages'[p] # NoPackage /\ packages'[p].route = packages[p].route
               => Booking'[p] = Booking[p]
         /\ \A t \in Trucks : trucks'[t].route = trucks[t].route => Lease'[t] = Lease[t]
BY DEF Stage, ParcelStage, Booking, Lease

\* Two boards that show the same everywhere are the same.
LEMMA BoardEqual ==
  /\ (\A r \in RouteIds : Stage'[r] = Stage[r]) => Stage' = Stage
  /\ (\A p \in PackageIds : ParcelStage'[p] = ParcelStage[p]) => ParcelStage' = ParcelStage
  /\ (\A p \in PackageIds : Booking'[p] = Booking[p]) => Booking' = Booking
  /\ (\A t \in Trucks : Lease'[t] = Lease[t]) => Lease' = Lease
BY DEF Stage, ParcelStage, Booking, Lease

LEMMA BoardInitially == Init => Board!BoardInit
<1> SUFFICES ASSUME Init PROVE Board!BoardInit
  OBVIOUS
<1>1. \A r \in RouteIds : r >= 1
  BY DEF RouteIds
<1>2. \A p \in PackageIds : p >= 1
  BY DEF PackageIds
<1>3. Stage = [r \in RouteIds |-> "new"]
  BY <1>1 DEF Init, Stage
<1>4. ParcelStage = [p \in PackageIds |-> "new"]
  BY <1>2 DEF Init, ParcelStage
<1>5. Booking = [p \in PackageIds |-> None]
  BY DEF Init, Booking
<1>6. Lease = [t \in Trucks |-> None]
  BY DEF Init, Lease, FreeTruck
<1> QED BY <1>3, <1>4, <1>5, <1>6 DEF Board!BoardInit

LEMMA CreateRouteOpens ==
  ASSUME Inv, NEW path \in Paths, NEW dep \in Departures, CreateRoute(path, dep)
  PROVE  \E r \in RouteIds, s \in {"PLANNED", "SCHEDULED"} : Board!OpenRoute(r, s)
<1> DEFINE n == nextRouteId
           s == IF dep = None THEN "PLANNED" ELSE "SCHEDULED"
<1>1. /\ n \in RouteIds /\ routes[n] = NoRoute /\ routes'[n] # NoRoute /\ routes'[n].status = s
      /\ \A r \in RouteIds \ {n} : routes'[r] = routes[r]
      /\ nextRouteId' = n + 1
      /\ UNCHANGED <<packages, trucks, nextPackageId>>
  BY CreateRouteEffect
<1>2. n \in Nat /\ s \in {"PLANNED", "SCHEDULED"}
  BY <1>1, BoundAssumption DEF RouteIds
<1> HIDE DEF s, n
<1>3. Stage[n] = "new"
  BY <1>1, <1>2 DEF Stage, n
<1>4. Stage'[n] = s
  BY <1>1, <1>2 DEF Stage, n
<1>5. ASSUME NEW r \in RouteIds, r # n PROVE Stage'[r] = Stage[r]
  <2>1. r \in Nat /\ (r >= n + 1 <=> r >= n)
    BY <1>2, <1>5 DEF RouteIds
  <2>2. routes'[r] = routes[r] /\ nextRouteId' = n + 1 /\ nextRouteId = n
    BY <1>1, <1>5 DEF n
  <2>3. Stage[r] = IF r >= n THEN "new" ELSE IF routes[r] = NoRoute THEN "gone" ELSE routes[r].status
    BY <2>2 DEF Stage
  <2>4. Stage'[r] = IF r >= n + 1 THEN "new" ELSE IF routes'[r] = NoRoute THEN "gone" ELSE routes'[r].status
    BY <2>2 DEF Stage
  <2> QED BY <2>1, <2>2, <2>3, <2>4
<1>6. Stage' = [Stage EXCEPT ![n] = s]
  BY <1>1, <1>4, <1>5 DEF Stage
<1>7. UNCHANGED <<ParcelStage, Booking, Lease>>
  BY <1>1 DEF ParcelStage, Booking, Lease
<1> QED BY <1>1, <1>2, <1>3, <1>6, <1>7 DEF Board!OpenRoute

LEMMA CreatePackageRegisters ==
  ASSUME Inv, NEW q \in Parcels, NEW c \in Customers, CreatePackage(q, c)
  PROVE  \E p \in PackageIds : Board!Register(p)
<1> DEFINE n == nextPackageId
<1>1. /\ n \in PackageIds /\ packages[n] = NoPackage
      /\ packages'[n].route = None /\ packages'[n].status = "TODO" /\ packages'[n] # NoPackage
      /\ \A p \in PackageIds \ {n} : packages'[p] = packages[p]
      /\ nextPackageId' = n + 1
      /\ UNCHANGED <<routes, trucks, nextRouteId>>
  BY CreatePackageEffect
<1>2. n \in Nat
  BY <1>1, BoundAssumption DEF PackageIds
<1> HIDE DEF n
<1>3. ParcelStage[n] = "new" /\ Booking[n] = None
  BY <1>1, <1>2 DEF ParcelStage, Booking, n
<1>4. ParcelStage'[n] = "TODO" /\ Booking'[n] = None
  BY <1>1, <1>2 DEF ParcelStage, Booking, n
<1>5. ASSUME NEW p \in PackageIds, p # n PROVE ParcelStage'[p] = ParcelStage[p] /\ Booking'[p] = Booking[p]
  <2>1. p \in Nat /\ (p >= n + 1 <=> p >= n)
    BY <1>2, <1>5 DEF PackageIds
  <2>2. packages'[p] = packages[p] /\ nextPackageId' = n + 1 /\ nextPackageId = n
    BY <1>1, <1>5 DEF n
  <2>3. ParcelStage[p] =
          IF p >= n THEN "new" ELSE IF packages[p] = NoPackage THEN "gone" ELSE packages[p].status
    BY <2>2 DEF ParcelStage
  <2>4. ParcelStage'[p] =
          IF p >= n + 1 THEN "new" ELSE IF packages'[p] = NoPackage THEN "gone" ELSE packages'[p].status
    BY <2>2 DEF ParcelStage
  <2>5. Booking'[p] = Booking[p]
    BY <2>2 DEF Booking
  <2> QED BY <2>1, <2>2, <2>3, <2>4, <2>5
<1>6. ParcelStage' = [ParcelStage EXCEPT ![n] = "TODO"]
  BY <1>1, <1>4, <1>5 DEF ParcelStage
<1>7. Booking' = Booking
  BY <1>3, <1>4, <1>5, BoardEqual
<1>8. UNCHANGED <<Stage, Lease>>
  BY <1>1 DEF Stage, Lease
<1> QED BY <1>1, <1>3, <1>6, <1>7, <1>8 DEF Board!Register

LEMMA AssignPackageBooks ==
  ASSUME Inv, Timely, NEW p \in PackageIds, AssignPackage(p)
  PROVE  \E r \in RouteIds : Board!Book(p, r)
<1> DEFINE n == job.route
<1>1. /\ n \in LiveRoutes /\ n \in RouteIds /\ p \in LivePackages
      /\ packages[p].route = None /\ packages[p].status = "TODO"
      /\ \A r \in RouteIds \ {n} : routes'[r] = routes[r]
      /\ SameSchedule(routes'[n], routes[n])
      /\ \A p2 \in PackageIds \ {p} : packages'[p2] = packages[p2]
      /\ SameProgress(packages'[p], packages[p])
      /\ packages'[p].route = n
      /\ routes'[n] # NoRoute /\ packages'[p] # NoPackage
      /\ UNCHANGED <<trucks, nextRouteId, nextPackageId>>
  BY AssignPackageEffect
<1>2. routes[n].status # "COMPLETED"
  BY AssignPackageToOpenRoute
<1> HIDE DEF n
<1>3. routes[n] # NoRoute /\ packages[p] # NoPackage
  BY <1>1 DEF LiveRoutes, LivePackages
<1>4. /\ ParcelStage[p] = "TODO" /\ Booking[p] = None
      /\ Stage[n] \in RouteStatus /\ Stage[n] # "COMPLETED"
  BY <1>1, <1>2, <1>3, OnTheBoard
<1>5. \A r \in RouteIds : Stage'[r] = Stage[r]
  BY <1>1, <1>3, SamePlace DEF SameSchedule
<1>6. \A p2 \in PackageIds : ParcelStage'[p2] = ParcelStage[p2]
  BY <1>1, <1>3, SamePlace DEF SameProgress
<1>7. \A p2 \in PackageIds \ {p} : Booking'[p2] = Booking[p2]
  BY <1>1, SamePlace
<1>8. Booking'[p] = n
  BY <1>1 DEF Booking
<1>9. Booking' = [Booking EXCEPT ![p] = n]
  BY <1>7, <1>8 DEF Booking
<1>10. Lease' = Lease
  BY <1>1 DEF Lease
<1>11. Board!OnBoard(n)
  BY <1>4, BoardNames DEF Board!OnBoard
<1> QED BY <1>1, <1>4, <1>5, <1>6, <1>9, <1>10, <1>11, BoardEqual DEF Board!Book

LEMMA AssignTruckLeases ==
  ASSUME Inv, Timely, NEW r \in RouteIds, NEW t \in Trucks, AssignTruckToRoute(r, t)
  PROVE  Board!Lease(t, r)
<1>1. /\ r \in LiveRoutes /\ routes[r].truck = None /\ trucks[t].route = None
      /\ routes[r].dep # None => SameSchedule(routes'[r], routes[r])
      /\ routes[r].dep = None => routes'[r].status = "SCHEDULED"
      /\ \A r2 \in RouteIds \ {r} : routes'[r2] = routes[r2]
      /\ trucks'[t].route = r
      /\ \A u \in Trucks \ {t} : trucks'[u] = trucks[u]
      /\ UNCHANGED <<packages, nextRouteId, nextPackageId>>
  BY AssignTruckEffect
<1>2. routes[r].status = "PLANNED" <=> routes[r].dep = None
  BY <1>1 DEF Timely, RouteTimely
<1>3. routes[r] # NoRoute
  BY <1>1 DEF LiveRoutes
<1>4. Stage[r] = routes[r].status /\ Stage[r] \in RouteStatus /\ r < nextRouteId
  BY <1>1, <1>3, OnTheBoard
<1>5. routes'[r] # NoRoute
  <2> DEFINE S == Scheduled(routes[r])
  <2>1. routes[r] \in Route /\ clock \in Nat
    BY <1>1, LiveRouteFacts DEF Inv, TypeOK, Times
  <2>2. S \in Route
    BY <2>1 DEF Scheduled, Route, RouteStatus, OptionalTime, Times
  <2>3. routes'[r] = [S EXCEPT !.truck = t]
    BY DEF AssignTruckToRoute, Inv, TypeOK
  <2> HIDE DEF S
  <2>4. routes'[r] \in Route
    BY <2>2, <2>3 DEF Route
  <2> QED BY <2>4, SentinelAssumption
<1>6. Stage'[r] = IF Stage[r] = "PLANNED" THEN "SCHEDULED" ELSE Stage[r]
  <2>1. ~ (r >= nextRouteId') /\ nextRouteId' = nextRouteId
    BY <1>1, <1>4, BoundAssumption DEF RouteIds, Inv, TypeOK
  <2>2. Stage'[r] = routes'[r].status
    BY <1>5, <2>1 DEF Stage
  <2> QED BY <1>1, <1>2, <1>4, <2>2 DEF SameSchedule
<1>7. \A r2 \in RouteIds \ {r} : Stage'[r2] = Stage[r2]
  BY <1>1, SamePlace
<1>8. Stage' = IF Stage[r] = "PLANNED" THEN [Stage EXCEPT ![r] = "SCHEDULED"] ELSE Stage
  <2>1. CASE Stage[r] = "PLANNED"
    BY <1>6, <1>7, <2>1 DEF Stage
  <2>2. CASE Stage[r] # "PLANNED"
    BY <1>6, <1>7, <2>2, BoardEqual
  <2> QED BY <2>1, <2>2
<1>9. Lease' = [Lease EXCEPT ![t] = r]
  BY <1>1 DEF Lease
<1>10. Lease[t] = None /\ \A u \in Trucks : Lease[u] # r
  <2>1. \A u \in Trucks : trucks[u].route # r
    BY <1>1, FleetAssumption, NoneAssumption DEF Inv, RouteTruckLinks, RouteIds
  <2> QED BY <1>1, <2>1 DEF Lease
<1>11. UNCHANGED <<ParcelStage, Booking>>
  BY <1>1 DEF ParcelStage, Booking
<1> QED BY <1>4, <1>8, <1>9, <1>10, <1>11, BoardNames DEF Board!Lease, Board!OnBoard

LEMMA BookedPackages ==
  ASSUME NEW r \in RouteIds, NEW p \in PackageIds
  PROVE  /\ p \in Board!BookedOn(r) <=> packages[p] # NoPackage /\ packages[p].route = r
         /\ r # None
BY NoneAssumption DEF Board!BookedOn, Booking, RouteIds

LEMMA RemoveRouteCancels ==
  ASSUME Inv, NEW r \in RouteIds, RemoveRoute(r)
  PROVE  Board!Cancel(r)
<1>1. /\ r \in LiveRoutes /\ routes'[r] = NoRoute
      /\ \A r2 \in RouteIds \ {r} : routes'[r2] = routes[r2]
      /\ \A p \in LivePackages : packages[p].route = r =>
            packages'[p].route = None /\ packages'[p].status = "TODO" /\ packages'[p] # NoPackage
      /\ \A p \in PackageIds : packages[p] = NoPackage \/ packages[p].route # r =>
            packages'[p] = packages[p]
      /\ \A t \in Trucks : trucks[t].route = r => trucks'[t].route = None
      /\ \A t \in Trucks : trucks[t].route # r => trucks'[t] = trucks[t]
      /\ UNCHANGED <<nextRouteId, nextPackageId>>
  BY RemoveRouteEffect
<1>2. routes[r] # NoRoute
  BY <1>1 DEF LiveRoutes
<1>3. Stage[r] \in RouteStatus /\ r < nextRouteId
  BY <1>1, <1>2, OnTheBoard
<1>4. Stage' = [Stage EXCEPT ![r] = "gone"]
  <2>1. ~ (r >= nextRouteId') /\ nextRouteId' = nextRouteId
    BY <1>1, <1>3, BoundAssumption DEF RouteIds, Inv, TypeOK
  <2>2. Stage'[r] = "gone"
    BY <1>1, <2>1 DEF Stage
  <2>3. \A r2 \in RouteIds \ {r} : Stage'[r2] = Stage[r2]
    BY <1>1, SamePlace
  <2> QED BY <2>2, <2>3 DEF Stage
<1>5. ASSUME NEW p \in PackageIds
      PROVE  /\ ParcelStage'[p] = IF p \in Board!BookedOn(r) THEN "TODO" ELSE ParcelStage[p]
             /\ Booking'[p] = IF p \in Board!BookedOn(r) THEN None ELSE Booking[p]
  <2>1. CASE packages[p] # NoPackage /\ packages[p].route = r
    <3>1. packages'[p].route = None /\ packages'[p].status = "TODO" /\ packages'[p] # NoPackage
      BY <1>1, <2>1 DEF LivePackages
    <3>2. p < nextPackageId
      BY <2>1, OnTheBoard
    <3>3. ~ (p >= nextPackageId') /\ nextPackageId' = nextPackageId
      BY <1>1, <3>2, BoundAssumption DEF PackageIds, Inv, TypeOK
    <3>4. ParcelStage'[p] = "TODO" /\ Booking'[p] = None
      BY <3>1, <3>3 DEF ParcelStage, Booking
    <3> QED BY <2>1, <3>4, BookedPackages
  <2>2. CASE packages[p] = NoPackage \/ packages[p].route # r
    BY <1>1, <2>2, SamePlace, BookedPackages
  <2> QED BY <2>1, <2>2
<1>6. ParcelStage' = [p \in PackageIds |-> IF p \in Board!BookedOn(r) THEN "TODO" ELSE ParcelStage[p]]
  BY <1>5 DEF ParcelStage
<1>7. Booking' = [p \in PackageIds |-> IF p \in Board!BookedOn(r) THEN None ELSE Booking[p]]
  BY <1>5 DEF Booking
<1>8. ASSUME NEW t \in Trucks
      PROVE  Lease'[t] = IF Lease[t] = r THEN None ELSE Lease[t]
  BY <1>1 DEF Lease
<1>9. Lease' = [t \in Trucks |-> IF Lease[t] = r THEN None ELSE Lease[t]]
  BY <1>8 DEF Lease
<1> QED BY <1>3, <1>4, <1>6, <1>7, <1>9, BoardNames DEF Board!Cancel, Board!OnBoard

LEMMA RemovePackageWithdraws ==
  ASSUME Inv, NEW p \in PackageIds, RemovePackage(p)
  PROVE  Board!Withdraw(p)
<1>1. /\ p \in LivePackages /\ packages'[p] = NoPackage
      /\ \A p2 \in PackageIds \ {p} : packages'[p2] = packages[p2]
      /\ \A r \in LiveRoutes : SameSchedule(routes'[r], routes[r]) /\ routes'[r] # NoRoute
      /\ \A r \in RouteIds \ LiveRoutes : routes'[r] = routes[r]
      /\ UNCHANGED <<trucks, nextRouteId, nextPackageId>>
  BY RemovePackageEffect
<1>2. packages[p] # NoPackage
  BY <1>1 DEF LivePackages
<1>3. ParcelStage[p] \in ItemStatus /\ p < nextPackageId
  BY <1>1, <1>2, OnTheBoard
<1>4. \A r \in RouteIds : Stage'[r] = Stage[r]
  BY <1>1, SamePlace DEF LiveRoutes, SameSchedule
<1>5. ~ (p >= nextPackageId') /\ nextPackageId' = nextPackageId
  BY <1>1, <1>3, BoundAssumption DEF PackageIds, Inv, TypeOK
<1>6. ParcelStage'[p] = "gone" /\ Booking'[p] = None
  BY <1>1, <1>5 DEF ParcelStage, Booking
<1>7. \A p2 \in PackageIds \ {p} : ParcelStage'[p2] = ParcelStage[p2] /\ Booking'[p2] = Booking[p2]
  BY <1>1, SamePlace
<1>8. ParcelStage' = [ParcelStage EXCEPT ![p] = "gone"] /\ Booking' = [Booking EXCEPT ![p] = None]
  BY <1>6, <1>7 DEF ParcelStage, Booking
<1>9. Lease' = Lease
  BY <1>1 DEF Lease
<1> QED BY <1>3, <1>4, <1>8, <1>9, BoardEqual, BoardNames DEF Board!Withdraw, Board!Known

\* The heartbeat's iteration for a route is one step of the board: route, truck
\* and packages reach the same instant together.
LEMMA ReconcileRouteAdvances ==
  ASSUME Inv, Timely, NEW r \in RouteIds, ReconcileRoute(r)
  PROVE  \E s \in Board!Stages : Board!Advance(r, s)
<1> DEFINE R == routes[r]
           now == job.now
           s == ComputeRouteStatus(R.path, R.dep, now)
<1>1. /\ job.kind = "heartbeat" /\ r \in LiveRoutes
      /\ routes'[r] = ReconciledRoute(R, now) /\ routes'[r] # NoRoute
      /\ \A r2 \in RouteIds \ {r} : routes'[r2] = routes[r2]
      /\ \A p \in LivePackages : packages[p].route = r =>
            /\ packages'[p] = ReconciledPackage(packages[p], R, now)
            /\ packages'[p].route = r /\ packages'[p] # NoPackage
      /\ \A p \in PackageIds : packages[p] = NoPackage \/ packages[p].route # r =>
            packages'[p] = packages[p]
      /\ \A t \in Trucks : trucks[t].route = r =>
            trucks'[t].route = IF TruckReleases(R, now) THEN None ELSE r
      /\ \A t \in Trucks : trucks[t].route # r => trucks'[t] = trucks[t]
      /\ UNCHANGED <<nextRouteId, nextPackageId>>
  BY ReconcileRouteEffect
<1>2. /\ R \in Route /\ IsRoutePath(R.path) /\ now \in Nat /\ RouteTimely(R, now)
      /\ \A p \in LivePackages : packages[p].route = r =>
            /\ packages[p] \in Package
            /\ IncludesInOrder(R.path, packages[p].start, packages[p].end)
            /\ PackageTimely(packages[p], R, now)
  BY <1>1, ReconciledInTime
<1>3. /\ s \in RouteStatus
      /\ RouteRank[R.status] <= RouteRank[s]
      /\ R.status = "PLANNED" <=> s = "PLANNED"
  BY <1>2, StatusByClock, RouteGoesForward
<1>4. TruckReleases(R, now) <=> s = "COMPLETED"
  <2>1. R.dep \in Nat \cup {None}
    BY <1>2 DEF Route, OptionalTime, Times
  <2>2. TruckReleases(R, now) <=> R.dep # None /\ now >= R.dep + TotalDistance(R.path)
    BY <1>2, <2>1, ReleasedFromTheEndOn
  <2>3. s = "COMPLETED" <=> R.dep # None /\ EtaFinal(R.path, R.dep) <= now
    BY <1>2, StatusByClock
  <2>4. TotalDistance(R.path) \in Nat
    BY <1>2, OffsetsType, PathFacts DEF TotalDistance
  <2> HIDE DEF s
  <2> QED BY <1>2, <2>1, <2>2, <2>3, <2>4 DEF EtaFinal
<1>5. routes'[r].status = s
  BY <1>1, <1>2, ReconciledRouteFields
<1>6. \A p \in LivePackages : packages[p].route = r =>
        /\ packages'[p].status \in ItemStatus
        /\ ItemRank[packages[p].status] <= ItemRank[packages'[p].status]
        /\ s = "COMPLETED" => packages'[p].status = "DONE"
        /\ s \in {"PLANNED", "SCHEDULED"} => packages'[p].status = "TODO"
  BY <1>1, <1>2, PackageGoesForward
<1> HIDE DEF s, now, R
<1>7. routes[r] # NoRoute /\ R = routes[r]
  BY <1>1 DEF LiveRoutes, R
<1>8. Stage[r] = R.status /\ Stage[r] \in RouteStatus /\ r < nextRouteId
  BY <1>1, <1>7, OnTheBoard
<1>9. Stage' = [Stage EXCEPT ![r] = s]
  <2>1. ~ (r >= nextRouteId') /\ nextRouteId' = nextRouteId
    BY <1>1, <1>8, BoundAssumption DEF RouteIds, Inv, TypeOK
  <2>2. Stage'[r] = s
    BY <1>1, <1>5, <2>1 DEF Stage
  <2>3. \A r2 \in RouteIds \ {r} : Stage'[r2] = Stage[r2]
    BY <1>1, SamePlace
  <2> QED BY <2>2, <2>3 DEF Stage
<1>10. ASSUME NEW p \in PackageIds, p \notin Board!BookedOn(r)
       PROVE  ParcelStage'[p] = ParcelStage[p] /\ Booking'[p] = Booking[p]
  BY <1>1, <1>10, BookedPackages, SamePlace
<1>11. ASSUME NEW p \in PackageIds, p \in Board!BookedOn(r)
       PROVE  /\ p \in LivePackages /\ packages[p].route = r
              /\ ParcelStage[p] = packages[p].status
              /\ ParcelStage'[p] = packages'[p].status
              /\ Booking'[p] = Booking[p]
  <2>1. packages[p] # NoPackage /\ packages[p].route = r /\ p \in LivePackages
    BY <1>11, BookedPackages DEF LivePackages
  <2>2. p < nextPackageId /\ ParcelStage[p] = packages[p].status
    BY <2>1, OnTheBoard
  <2>3. ~ (p >= nextPackageId') /\ nextPackageId' = nextPackageId
    BY <1>1, <2>2, BoundAssumption DEF PackageIds, Inv, TypeOK
  <2>4. packages'[p] # NoPackage /\ packages'[p].route = r
    BY <1>1, <2>1
  <2>5. ParcelStage'[p] = packages'[p].status
    BY <2>3, <2>4 DEF ParcelStage
  <2>6. Booking'[p] = Booking[p]
    BY <2>1, <2>4 DEF Booking
  <2> QED BY <2>1, <2>2, <2>5, <2>6
<1>12. Booking' = Booking
  BY <1>10, <1>11, BoardEqual
<1>13. \A p \in PackageIds \ Board!BookedOn(r) : ParcelStage'[p] = ParcelStage[p]
  BY <1>10
<1>14. \A p \in Board!BookedOn(r) :
         /\ ParcelStage'[p] \in ItemStatus
         /\ ItemRank[ParcelStage[p]] <= ItemRank[ParcelStage'[p]]
         /\ s = "COMPLETED" => ParcelStage'[p] = "DONE"
         /\ s \in {"PLANNED", "SCHEDULED"} => ParcelStage'[p] = "TODO"
  <2>1. \A p \in Board!BookedOn(r) : p \in PackageIds
    BY DEF Board!BookedOn
  <2> QED BY <1>6, <1>11, <2>1
<1>15. ParcelStage' \in [PackageIds -> ItemStatus \cup {"new", "gone"}]
  <2>1. \A p \in PackageIds : ParcelStage[p] \in ItemStatus \cup {"new", "gone"}
    BY OnTheBoard DEF ParcelStage, LivePackages
  <2>2. \A p \in PackageIds : ParcelStage'[p] \in ItemStatus \cup {"new", "gone"}
    BY <1>13, <1>14, <2>1
  <2> QED BY <2>2 DEF ParcelStage
<1>16. Lease' = [t \in Trucks |-> IF Lease[t] = r /\ s = "COMPLETED" THEN None ELSE Lease[t]]
  <2>1. ASSUME NEW t \in Trucks
        PROVE  Lease'[t] = IF Lease[t] = r /\ s = "COMPLETED" THEN None ELSE Lease[t]
    BY <1>1, <1>4 DEF Lease
  <2> QED BY <2>1 DEF Lease
<1>17. Board!Advance(r, s)
  BY <1>3, <1>8, <1>9, <1>12, <1>13, <1>14, <1>15, <1>16, BoardNames DEF Board!Advance, Board!OnBoard
<1> QED BY <1>3, <1>17, BoardNames

LEMMA BoardStep ==
  ASSUME Inv, Timely, [Next]_vars
  PROVE  [Board!BoardNext]_(Board!boardVars)
<1>1. CASE UNCHANGED <<routes, packages, trucks, nextRouteId, nextPackageId>>
  BY <1>1 DEF Board!boardVars, Stage, ParcelStage, Booking, Lease
<1>2. CASE Next /\ ~ UNCHANGED <<routes, packages, trucks, nextRouteId, nextPackageId>>
  <2>1. \/ \E path \in Paths, dep \in Departures : CreateRoute(path, dep)
        \/ \E q \in Parcels, c \in Customers : CreatePackage(q, c)
        \/ \E p \in PackageIds : AssignPackage(p)
        \/ \E r \in RouteIds, t \in Trucks : AssignTruckToRoute(r, t)
        \/ \E r \in RouteIds : RemoveRoute(r)
        \/ \E p \in PackageIds : RemovePackage(p)
        \/ \E r \in RouteIds : ReconcileRoute(r)
    BY <1>2 DEF Next, AssignPackagesToRoute, SkipPackage, Heartbeat, ReconcileRouteFails, Tick, SetClockBack
  <2>2. ASSUME NEW path \in Paths, NEW dep \in Departures, CreateRoute(path, dep) PROVE Board!BoardNext
    BY <2>2, CreateRouteOpens DEF Board!BoardNext
  <2>3. ASSUME NEW q \in Parcels, NEW c \in Customers, CreatePackage(q, c) PROVE Board!BoardNext
    BY <2>3, CreatePackageRegisters DEF Board!BoardNext
  <2>4. ASSUME NEW p \in PackageIds, AssignPackage(p) PROVE Board!BoardNext
    BY <2>4, AssignPackageBooks DEF Board!BoardNext
  <2>5. ASSUME NEW r \in RouteIds, NEW t \in Trucks, AssignTruckToRoute(r, t) PROVE Board!BoardNext
    BY <2>5, AssignTruckLeases DEF Board!BoardNext
  <2>6. ASSUME NEW r \in RouteIds, RemoveRoute(r) PROVE Board!BoardNext
    BY <2>6, RemoveRouteCancels DEF Board!BoardNext
  <2>7. ASSUME NEW p \in PackageIds, RemovePackage(p) PROVE Board!BoardNext
    BY <2>7, RemovePackageWithdraws DEF Board!BoardNext
  <2>8. ASSUME NEW r \in RouteIds, ReconcileRoute(r) PROVE Board!BoardNext
    BY <2>8, ReconcileRouteAdvances DEF Board!BoardNext
  <2> QED BY <2>1, <2>2, <2>3, <2>4, <2>5, <2>6, <2>7, <2>8
<1> QED BY <1>1, <1>2 DEF vars

\* While the clock is not set back, everything the runtime does to routes,
\* packages and trucks is what the dispatcher's board allows: assignments,
\* removals and each iteration of the heartbeat are single steps of it, and
\* nothing on it moves backwards.
THEOREM BoardImplemented ==
  ASSUME MaxClockBack = 0
  PROVE  Spec => ImplementsBoard
<1>1. Init => Board!BoardInit
  BY BoardInitially
<1>2. Inv /\ Timely /\ [Next]_vars => [Board!BoardNext]_(Board!boardVars)
  BY BoardStep
<1> QED BY <1>1, <1>2, InvHolds, TimelyHolds, PTL DEF Spec, ImplementsBoard, Board!BoardSpec

-----------------------------------------------------------------------------
(* Cargo and truck, with a clock that may be set back                      *)

\* Both walks over the stop times end at the last stop reached: the package's
\* from its pickup towards its destination, the truck's along the whole path.
LEMMA LastStopReached ==
  ASSUME NEW path, IsRoutePath(path), NEW dep \in Nat, NEW now \in Nat, NEW from, NEW to,
         IncludesInOrder(path, from, to),
         ArrivalTimeAt(path, dep, from) <= now, now < ArrivalTimeAt(path, dep, to),
         NEW i \in 1..Len(path), StopTime(path, dep, i) <= now,
         i + 1 \in 1..Len(path) => now < StopTime(path, dep, i + 1)
  PROVE  LastReachedCity(path, dep, from, to, now) = path[i]
<1> DEFINE n == Len(path)
           f == PathIndex(path, from)
           l == PathIndex(path, to)
           off(k) == StopOffsets(path)[k]
           reached == {k \in f..l : \A j \in f..k : StopTime(path, dep, j) <= now}
           last == CHOOSE k \in reached : \A j \in reached : j <= k
<1>1. f \in 1..n /\ l \in 1..n /\ f < l /\ n \in Nat
  BY PathIndexFacts, PathFacts DEF IncludesInOrder
<1>2. \A k \in 1..n : off(k) \in Nat
  BY OffsetsType
<1>3. \A k, j \in 1..n : k < j => off(k) < off(j)
  BY StopsInOrder
<1>4. /\ \A k : StopTime(path, dep, k) = dep + off(k)
      /\ ArrivalTimeAt(path, dep, from) = dep + off(f)
      /\ ArrivalTimeAt(path, dep, to) = dep + off(l)
  BY DEF StopTime, ArrivalTimeAt
<1>5. dep + off(f) <= now /\ now < dep + off(l) /\ dep + off(i) <= now
      /\ (i + 1 \in 1..n => now < dep + off(i + 1))
  BY <1>4
<1>6. LastReachedCity(path, dep, from, to, now) = IF reached = {} THEN from ELSE path[last]
  BY DEF LastReachedCity
<1>7. \A k \in f..l : k \in reached <=> \A j \in f..k : dep + off(j) <= now
  BY <1>4
<1>8. reached \subseteq f..l
  OBVIOUS
<1> HIDE DEF f, l, n, off, reached
<1>9. i < l
  <2> SUFFICES ASSUME ~ (i < l) PROVE FALSE
    OBVIOUS
  <2>1. i = l \/ l < i
    BY <1>1 DEF n
  <2>2. off(l) <= off(i)
    BY <1>1, <1>2, <1>3, <2>1 DEF n
  <2>3. off(l) \in Nat /\ off(i) \in Nat
    BY <1>1, <1>2 DEF n
  <2> QED BY <1>5, <2>2, <2>3
<1>10. i + 1 \in 1..n /\ now < dep + off(i + 1)
  <2>1. i + 1 \in 1..n
    BY <1>1, <1>9 DEF n
  <2> QED BY <1>5, <2>1
<1>11. f <= i
  <2> SUFFICES ASSUME ~ (f <= i) PROVE FALSE
    OBVIOUS
  <2>1. i + 1 = f \/ i + 1 < f
    BY <1>1 DEF n
  <2>2. off(i + 1) <= off(f)
    BY <1>1, <1>2, <1>3, <1>10, <2>1
  <2>3. off(i + 1) \in Nat /\ off(f) \in Nat
    BY <1>1, <1>2, <1>10
  <2> QED BY <1>5, <1>10, <2>2, <2>3
<1>12. i \in reached
  <2>1. i \in f..l
    BY <1>1, <1>9, <1>11 DEF n
  <2>2. ASSUME NEW j \in f..i PROVE dep + off(j) <= now
    <3>1. j \in 1..n /\ i \in 1..n /\ (j = i \/ j < i)
      BY <1>1, <2>2 DEF n
    <3>2. off(j) <= off(i) /\ off(j) \in Nat /\ off(i) \in Nat
      BY <1>2, <1>3, <3>1
    <3> QED BY <1>5, <3>2
  <2> QED BY <1>7, <2>1, <2>2
<1>13. \A k \in reached : k <= i
  <2> SUFFICES ASSUME NEW k \in reached, ~ (k <= i) PROVE FALSE
    OBVIOUS
  <2>1. k \in f..l /\ k \in Int /\ i \in Int
    BY <1>1, <1>8 DEF n
  <2>2. i + 1 \in f..k
    BY <1>1, <1>11, <2>1
  <2>3. dep + off(i + 1) <= now
    BY <1>7, <2>1, <2>2
  <2>4. off(i + 1) \in Nat
    BY <1>2, <1>10
  <2> QED BY <1>10, <2>3, <2>4
<1>14. last = i
  <2>1. last \in reached /\ \A j \in reached : j <= last
    BY <1>12, <1>13
  <2>2. last \in f..l
    BY <1>8, <2>1
  <2>3. last \in Int /\ i \in Int
    BY <1>1, <2>2
  <2>4. last <= i /\ i <= last
    BY <1>12, <1>13, <2>1
  <2> QED BY <2>3, <2>4
<1> HIDE DEF last
<1> QED BY <1>6, <1>12, <1>14

\* A package that a reconciliation finds under way is where it finds the truck.
LEMMA CargoIsWithTruck ==
  ASSUME NEW q \in Package, NEW T \in Truck, NEW r \in RouteIds, NEW R \in Route, IsRoutePath(R.path),
         NEW now \in Nat, IncludesInOrder(R.path, q.start, q.end),
         ReconciledPackage(q, R, now).status = "IN_PROGRESS",
         ~ TruckReleases(R, now)
  PROVE  ReconciledPackage(q, R, now).loc = ReconciledTruck(T, r, R, now).loc
<1> DEFINE path == R.path
           dep == R.dep
           P == PositionAt(path, dep, now)
           T2 == ReconciledTruck(T, r, R, now)
           stops == StopsReachedAt(path, dep, now)
           legs == LegsUnderWayAt(path, dep, now)
           last == LastReachedCity(path, dep, q.start, q.end, now)
<1>1. /\ dep # None
      /\ ~ (now < ArrivalTimeAt(path, dep, q.start))
      /\ ~ (ArrivalTimeAt(path, dep, q.end) <= now)
      /\ ReconciledPackage(q, R, now).loc = last
  BY PackageByClock
<1>2. dep \in Nat
  BY <1>1 DEF Route, OptionalTime, Times
<1>3. /\ ArrivalTimeAt(path, dep, q.start) \in Nat /\ ArrivalTimeAt(path, dep, q.end) \in Nat
      /\ dep <= ArrivalTimeAt(path, dep, q.start)
  BY <1>2, ArrivalOrder
<1>4. ArrivalTimeAt(path, dep, q.start) <= now /\ now < ArrivalTimeAt(path, dep, q.end) /\ ~ (now < dep)
  BY <1>1, <1>2, <1>3
<1>5. Len(path) \in Nat /\ \A i \in 1..Len(path) : StopOffsets(path)[i] \in Nat /\ path[i] \in Cities
  BY PathFacts, OffsetsType
<1>6. CASE stops # {}
  <2> DEFINE i == CHOOSE k \in stops : TRUE
  <2>1. P = Standing("AT_STOP", path[i])
    BY <1>1, <1>4, <1>6 DEF PositionAt
  <2>2. i \in 1..Len(path) /\ now = StopTime(path, dep, i)
    BY <1>5, <1>6 DEF StopsReachedAt
  <2> HIDE DEF i
  <2>3. P.kind = "AT_STOP" /\ P.stop = path[i]
    BY <2>1 DEF Standing
  <2>4. T2 = [[T EXCEPT !.route = r] EXCEPT !.loc = path[i], !.transit = None]
    BY <2>3 DEF ReconciledTruck
  <2>5. T2.loc = path[i]
    BY <2>4 DEF Truck
  <2>6. StopTime(path, dep, i) <= now
    BY <2>2
  <2>7. i + 1 \in 1..Len(path) => now < StopTime(path, dep, i + 1)
    <3>1. i + 1 \in 1..Len(path) => StopOffsets(path)[i] < StopOffsets(path)[i + 1]
      BY <1>5, <2>2, StopsInOrder
    <3>2. i + 1 \in 1..Len(path) => StopOffsets(path)[i] \in Nat /\ StopOffsets(path)[i + 1] \in Nat
      BY <1>5, <2>2
    <3> QED BY <1>2, <2>2, <3>1, <3>2 DEF StopTime
  <2>8. last = path[i]
    BY <1>2, <1>4, <2>2, <2>6, <2>7, LastStopReached
  <2> QED BY <1>1, <2>5, <2>8
<1>7. CASE stops = {} /\ legs # {}
  <2> DEFINE i == CHOOSE k \in legs : TRUE
  <2>1. P = Driving(path[i], path[i + 1])
    BY <1>1, <1>4, <1>7 DEF PositionAt
  <2>2. i \in 1..Len(path) /\ StopTime(path, dep, i) <= now /\ now < StopTime(path, dep, i + 1)
    BY <1>5, <1>7 DEF LegsUnderWayAt
  <2> HIDE DEF i
  <2>3. P.kind = "IN_TRANSIT" /\ P.from = path[i] /\ P.to = path[i + 1]
    BY <2>1 DEF Driving
  <2>4. T2 = [[T EXCEPT !.route = r] EXCEPT !.loc = path[i], !.transit = path[i + 1]]
    BY <2>3 DEF ReconciledTruck
  <2>5. T2.loc = path[i]
    BY <2>4 DEF Truck
  <2>6. last = path[i]
    BY <1>2, <1>4, <2>2, LastStopReached
  <2> QED BY <1>1, <2>5, <2>6
<1>8. CASE stops = {} /\ legs = {}
  <2>1. P = Standing("AFTER_END", End(path))
    BY <1>1, <1>4, <1>8 DEF PositionAt
  <2>2. P.kind = "AFTER_END"
    BY <2>1 DEF Standing
  <2> QED BY <2>2 DEF TruckReleases
<1> QED BY <1>6, <1>7, <1>8

\* Whatever the clock does: a route is planned exactly while it has no
\* departure, and a completed one has nothing under way.
Settled ==
    /\ \A r \in LiveRoutes : routes[r].status = "PLANNED" <=> routes[r].dep = None
    /\ \A p \in LivePackages :
          packages[p].route # None /\ packages[p].status = "IN_PROGRESS" =>
              routes[packages[p].route].status # "COMPLETED"

LEMMA SettledKept ==
  ASSUME Settled,
         \A r \in LiveRoutes' :
            \/ r \in LiveRoutes /\ SameSchedule(routes'[r], routes[r])
            \/ routes'[r].status = "PLANNED" <=> routes'[r].dep = None,
         \A p \in LivePackages' : packages'[p].route # None /\ packages'[p].status = "IN_PROGRESS" =>
            \/ /\ p \in LivePackages
               /\ packages'[p].route = packages[p].route
               /\ packages'[p].status = packages[p].status
               /\ SameSchedule(routes'[packages[p].route], routes[packages[p].route])
            \/ routes'[packages'[p].route].status # "COMPLETED"
  PROVE  Settled'
BY DEF Settled, SameSchedule

\* A package with a route that a step leaves alone had that route before.
LEMMA UntouchedPackage ==
  ASSUME Inv, NEW p \in LivePackages', packages'[p].route # None, packages'[p] = packages[p]
  PROVE  p \in LivePackages /\ packages[p].route \in LiveRoutes /\ packages[p].route \in RouteIds
<1>1. p \in LivePackages
  BY DEF LivePackages
<1> QED BY <1>1, OnRoute

LEMMA CreateRouteSettled ==
  ASSUME Inv, Settled, NEW path \in Paths, NEW dep \in Departures, CreateRoute(path, dep)
  PROVE  Settled'
<1> DEFINE n == nextRouteId
<1>1. /\ n \in RouteIds /\ routes[n] = NoRoute
      /\ routes'[n].dep = dep /\ routes'[n].status = IF dep = None THEN "PLANNED" ELSE "SCHEDULED"
      /\ \A r \in RouteIds \ {n} : routes'[r] = routes[r]
      /\ packages' = packages
  BY CreateRouteEffect
<1>2. \A r \in LiveRoutes' : \/ r \in LiveRoutes /\ SameSchedule(routes'[r], routes[r])
                             \/ routes'[r].status = "PLANNED" <=> routes'[r].dep = None
  BY <1>1 DEF LiveRoutes, SameSchedule
<1>3. ASSUME NEW p \in LivePackages', packages'[p].route # None
      PROVE  /\ p \in LivePackages
             /\ packages'[p].route = packages[p].route
             /\ packages'[p].status = packages[p].status
             /\ SameSchedule(routes'[packages[p].route], routes[packages[p].route])
  BY <1>1, <1>3, UntouchedPackage DEF LiveRoutes, SameSchedule
<1> QED BY <1>2, <1>3, SettledKept

LEMMA CreatePackageSettled ==
  ASSUME Inv, Settled, NEW q \in Parcels, NEW c \in Customers, CreatePackage(q, c)
  PROVE  Settled'
<1> DEFINE n == nextPackageId
<1>1. /\ packages'[n].route = None
      /\ \A p \in PackageIds \ {n} : packages'[p] = packages[p]
      /\ routes' = routes
  BY CreatePackageEffect
<1>2. \A r \in LiveRoutes' : r \in LiveRoutes /\ SameSchedule(routes'[r], routes[r])
  BY <1>1 DEF LiveRoutes, SameSchedule
<1>3. ASSUME NEW p \in LivePackages', packages'[p].route # None
      PROVE  /\ p \in LivePackages
             /\ packages'[p].route = packages[p].route
             /\ packages'[p].status = packages[p].status
             /\ SameSchedule(routes'[packages[p].route], routes[packages[p].route])
  BY <1>1, <1>3 DEF LivePackages, SameSchedule
<1> QED BY <1>2, <1>3, SettledKept

LEMMA AssignPackageSettled ==
  ASSUME Inv, Settled, NEW p \in PackageIds, AssignPackage(p)
  PROVE  Settled'
<1> DEFINE n == job.route
<1>1. /\ n \in LiveRoutes /\ n \in RouteIds
      /\ packages[p].status = "TODO"
      /\ \A r \in RouteIds \ {n} : routes'[r] = routes[r]
      /\ SameSchedule(routes'[n], routes[n])
      /\ \A p2 \in PackageIds \ {p} : packages'[p2] = packages[p2]
      /\ SameProgress(packages'[p], packages[p])
  BY AssignPackageEffect
<1>2. \A r \in RouteIds : SameSchedule(routes'[r], routes[r])
  BY <1>1 DEF SameSchedule
<1>3. ASSUME NEW r \in LiveRoutes'
      PROVE  r \in LiveRoutes /\ SameSchedule(routes'[r], routes[r])
  BY <1>1, <1>2, <1>3 DEF LiveRoutes
<1>4. ASSUME NEW p2 \in LivePackages', packages'[p2].route # None, packages'[p2].status = "IN_PROGRESS"
      PROVE  /\ p2 \in LivePackages
             /\ packages'[p2].route = packages[p2].route
             /\ packages'[p2].status = packages[p2].status
             /\ SameSchedule(routes'[packages[p2].route], routes[packages[p2].route])
  <2>1. packages'[p].status = "TODO"
    BY <1>1 DEF SameProgress
  <2>2. packages'[p2] = packages[p2]
    BY <1>1, <1>4, <2>1 DEF LivePackages
  <2> QED BY <1>2, <1>4, <2>2, UntouchedPackage
<1> QED BY <1>3, <1>4, SettledKept

LEMMA AssignTruckSettled ==
  ASSUME Inv, Settled, NEW r \in RouteIds, NEW t \in Trucks, AssignTruckToRoute(r, t)
  PROVE  Settled'
<1>1. /\ r \in LiveRoutes
      /\ routes[r].dep # None => SameSchedule(routes'[r], routes[r])
      /\ routes[r].dep = None => routes'[r].status = "SCHEDULED" /\ routes'[r].dep # None
      /\ \A r2 \in RouteIds \ {r} : routes'[r2] = routes[r2]
      /\ packages' = packages
  BY AssignTruckEffect
<1>2. ASSUME NEW r2 \in LiveRoutes'
      PROVE  \/ r2 \in LiveRoutes /\ SameSchedule(routes'[r2], routes[r2])
             \/ routes'[r2].status = "PLANNED" <=> routes'[r2].dep = None
  BY <1>1, <1>2 DEF LiveRoutes, SameSchedule
<1>3. ASSUME NEW p \in LivePackages', packages'[p].route # None
      PROVE  \/ /\ p \in LivePackages
                /\ packages'[p].route = packages[p].route
                /\ packages'[p].status = packages[p].status
                /\ SameSchedule(routes'[packages[p].route], routes[packages[p].route])
             \/ routes'[packages'[p].route].status # "COMPLETED"
  BY <1>1, <1>3, UntouchedPackage DEF SameSchedule
<1> QED BY <1>2, <1>3, SettledKept

LEMMA RemoveRouteSettled ==
  ASSUME Inv, Settled, NEW r \in RouteIds, RemoveRoute(r)
  PROVE  Settled'
<1>1. /\ routes'[r] = NoRoute
      /\ \A r2 \in RouteIds \ {r} : routes'[r2] = routes[r2]
      /\ \A p \in LivePackages : packages[p].route = r => packages'[p].route = None
      /\ \A p \in PackageIds : packages[p] = NoPackage \/ packages[p].route # r =>
            packages'[p] = packages[p]
  BY RemoveRouteEffect
<1>2. ASSUME NEW r2 \in LiveRoutes'
      PROVE  r2 \in LiveRoutes /\ SameSchedule(routes'[r2], routes[r2])
  BY <1>1, <1>2 DEF LiveRoutes, SameSchedule
<1>3. ASSUME NEW p \in LivePackages', packages'[p].route # None
      PROVE  /\ p \in LivePackages
             /\ packages'[p].route = packages[p].route
             /\ packages'[p].status = packages[p].status
             /\ SameSchedule(routes'[packages[p].route], routes[packages[p].route])
  <2>1. packages[p].route # r /\ packages'[p] = packages[p]
    BY <1>1, <1>3 DEF LivePackages
  <2> QED BY <1>1, <1>3, <2>1, UntouchedPackage DEF SameSchedule
<1> QED BY <1>2, <1>3, SettledKept

LEMMA RemovePackageSettled ==
  ASSUME Inv, Settled, NEW p \in PackageIds, RemovePackage(p)
  PROVE  Settled'
<1>1. /\ packages'[p] = NoPackage
      /\ \A p2 \in PackageIds \ {p} : packages'[p2] = packages[p2]
      /\ \A r \in LiveRoutes : SameSchedule(routes'[r], routes[r])
      /\ \A r \in RouteIds \ LiveRoutes : routes'[r] = routes[r]
  BY RemovePackageEffect
<1>2. ASSUME NEW r \in LiveRoutes'
      PROVE  r \in LiveRoutes /\ SameSchedule(routes'[r], routes[r])
  BY <1>1, <1>2 DEF LiveRoutes
<1>3. ASSUME NEW p2 \in LivePackages', packages'[p2].route # None
      PROVE  /\ p2 \in LivePackages
             /\ packages'[p2].route = packages[p2].route
             /\ packages'[p2].status = packages[p2].status
             /\ SameSchedule(routes'[packages[p2].route], routes[packages[p2].route])
  <2>1. packages'[p2] = packages[p2]
    BY <1>1, <1>3 DEF LivePackages
  <2> QED BY <1>1, <1>3, <2>1, UntouchedPackage
<1> QED BY <1>2, <1>3, SettledKept

\* A heartbeat that finds a route over finds all its packages delivered.
LEMMA ReconcileRouteSettled ==
  ASSUME Inv, Settled, NEW r \in RouteIds, ReconcileRoute(r)
  PROVE  Settled'
<1> DEFINE R == routes[r]
           now == job.now
           status == ComputeRouteStatus(R.path, R.dep, now)
<1>1. /\ r \in LiveRoutes /\ now \in Nat
      /\ routes'[r] = ReconciledRoute(R, now)
      /\ \A r2 \in RouteIds \ {r} : routes'[r2] = routes[r2]
      /\ \A p \in LivePackages : packages[p].route = r =>
            packages'[p] = ReconciledPackage(packages[p], R, now) /\ packages'[p].route = r
      /\ \A p \in PackageIds : packages[p] = NoPackage \/ packages[p].route # r =>
            packages'[p] = packages[p]
  BY ReconcileRouteEffect
<1>2. R \in Route /\ IsRoutePath(R.path) /\ r # None
  BY <1>1, LiveRouteFacts, NoneAssumption DEF Inv, RouteIds
<1>3. /\ routes'[r].status = status /\ routes'[r].dep = R.dep
      /\ status = "PLANNED" <=> R.dep = None
      /\ status = "COMPLETED" <=> R.dep # None /\ EtaFinal(R.path, R.dep) <= now
  BY <1>1, <1>2, ReconciledRouteFields, StatusByClock
<1> HIDE DEF status
<1>4. \A r2 \in LiveRoutes' : \/ r2 \in LiveRoutes /\ SameSchedule(routes'[r2], routes[r2])
                              \/ routes'[r2].status = "PLANNED" <=> routes'[r2].dep = None
  BY <1>1, <1>3 DEF LiveRoutes, SameSchedule
<1>5. ASSUME NEW p \in LivePackages', packages'[p].route # None, packages'[p].status = "IN_PROGRESS"
      PROVE  \/ /\ p \in LivePackages
                /\ packages'[p].route = packages[p].route
                /\ packages'[p].status = packages[p].status
                /\ SameSchedule(routes'[packages[p].route], routes[packages[p].route])
             \/ routes'[packages'[p].route].status # "COMPLETED"
  <2> DEFINE q == packages[p]
  <2>1. CASE p \in LivePackages /\ q.route = r
    <3>1. q \in Package /\ IncludesInOrder(R.path, q.start, q.end)
      BY <1>2, <2>1, OnRoute
    <3>2. packages'[p] = ReconciledPackage(q, R, now) /\ packages'[p].route = r
      BY <1>1, <2>1
    <3>3. ReconciledPackage(q, R, now).status = "IN_PROGRESS"
      BY <1>5, <3>2
    <3>4. R.dep # None /\ ~ (ArrivalTimeAt(R.path, R.dep, q.end) <= now)
      BY <1>1, <1>2, <3>1, <3>3, PackageByClock
    <3>5. /\ ArrivalTimeAt(R.path, R.dep, q.end) \in Nat /\ EtaFinal(R.path, R.dep) \in Nat
          /\ ArrivalTimeAt(R.path, R.dep, q.end) <= EtaFinal(R.path, R.dep)
      BY <1>2, <3>1, <3>4, ArrivalOrder DEF Route, OptionalTime, Times
    <3>6. ~ (EtaFinal(R.path, R.dep) <= now)
      BY <1>1, <3>4, <3>5
    <3> QED BY <1>3, <3>2, <3>6
  <2>2. CASE ~ (p \in LivePackages /\ q.route = r)
    <3>1. packages[p].route # r /\ packages'[p] = packages[p]
      BY <1>1, <1>5, <2>2 DEF LivePackages
    <3> QED BY <1>1, <1>5, <3>1, UntouchedPackage DEF SameSchedule
  <2> QED BY <2>1, <2>2
<1> QED BY <1>4, <1>5, SettledKept

LEMMA SettledStep ==
  ASSUME Inv, Settled, [Next]_vars
  PROVE  Settled'
<1>1. CASE UNCHANGED <<routes, packages>>
  BY <1>1, SettledKept DEF LiveRoutes, LivePackages, SameSchedule
<1>2. CASE Next /\ ~ UNCHANGED <<routes, packages>>
  BY <1>2, CreateRouteSettled, CreatePackageSettled, AssignPackageSettled, AssignTruckSettled, RemoveRouteSettled,
     RemovePackageSettled, ReconcileRouteSettled
     DEF Next, AssignPackagesToRoute, SkipPackage, Heartbeat, ReconcileRouteFails, Tick, SetClockBack
<1> QED BY <1>1, <1>2 DEF vars

\* Only a completed route can fail to be reconciled: it asks to be in progress
\* again once the clock was set back.
LEMMA OnlyCompletedFails ==
  ASSUME Inv, Settled, NEW r \in LiveRoutes, job.now \in Nat, ~ ReconcileSucceeds(r, job.now)
  PROVE  routes[r].status = "COMPLETED"
<1> DEFINE R == routes[r]
           status == ComputeRouteStatus(R.path, R.dep, job.now)
<1>1. R \in Route /\ IsRoutePath(R.path) /\ r # None
  BY LiveRouteFacts, NoneAssumption DEF Inv, RouteIds
<1>2. R.truck # None => trucks[R.truck].route \in {None, r}
  BY DEF Inv, RouteTruckLinks
<1>3. \A p \in R.pkgs : packages[p].route # None
  BY <1>1 DEF Inv, RoutePackageLinks
<1>4. ~ StatusApplies(R.status, status)
  BY <1>2, <1>3 DEF ReconcileSucceeds, LifecycleApplies
<1>5. status \in RouteStatus /\ R.status \in RouteStatus /\ (status = "PLANNED" <=> R.status = "PLANNED")
  BY <1>1, StatusByClock DEF Route, Settled
<1> HIDE DEF status
<1> QED BY <1>4, <1>5 DEF StatusApplies, RouteStatus

\* A reconciliation of one route leaves those reconciled before it alone.
LEMMA OtherRouteUntouched ==
  ASSUME Inv, NEW s \in RouteIds, ReconcileRoute(s) \/ ReconcileRouteFails(s),
         NEW r \in LiveRoutes, r # s, routes[r].truck # None, NEW p \in routes[r].pkgs
  PROVE  /\ routes'[r] = routes[r]
         /\ packages'[p] = packages[p]
         /\ trucks'[routes[r].truck] = trucks[routes[r].truck]
<1>1. r \in RouteIds /\ routes[r].truck \in Trucks
  BY LiveRouteFacts DEF Inv, Route
<1>2. p \in LivePackages /\ p \in PackageIds /\ packages[p].route = r /\ trucks[routes[r].truck].route = r
  BY DEF Inv, RoutePackageLinks, RouteTruckLinks, LivePackages
<1>3. CASE ReconcileRoute(s)
  BY <1>1, <1>2, <1>3, ReconcileRouteEffect
<1>4. CASE ReconcileRouteFails(s)
  BY <1>4 DEF ReconcileRouteFails
<1> QED BY <1>3, <1>4

LEMMA ReconciledCargo ==
  ASSUME Inv, NEW r \in RouteIds, ReconcileRoute(r), routes'[r].truck # None,
         NEW p \in routes'[r].pkgs, packages'[p].status = "IN_PROGRESS"
  PROVE  packages'[p].loc = trucks'[routes'[r].truck].loc
<1> DEFINE R == routes[r]
           now == job.now
           t == R.truck
<1>1. /\ r \in LiveRoutes /\ now \in Nat
      /\ routes'[r] = ReconciledRoute(R, now)
  BY ReconcileRouteEffect
<1>2. R \in Route /\ IsRoutePath(R.path) /\ r # None
  BY <1>1, LiveRouteFacts, NoneAssumption DEF Inv, RouteIds
<1>3. ~ TruckReleases(R, now) /\ routes'[r].truck = t /\ t # None /\ p \in R.pkgs
  BY <1>1, <1>2, ReconciledRouteFields
<1>4. t \in Trucks /\ trucks[t].route = r /\ trucks[t] \in Truck
  BY <1>1, <1>2, <1>3 DEF Route, Inv, TypeOK, RouteTruckLinks
<1>5. p \in LivePackages /\ packages[p].route = r
  BY <1>1, <1>3 DEF Inv, RoutePackageLinks
<1>6. packages[p] \in Package /\ IncludesInOrder(R.path, packages[p].start, packages[p].end)
  BY <1>2, <1>5, OnRoute
<1>7. packages'[p] = ReconciledPackage(packages[p], R, now) /\ trucks'[t] = ReconciledTruck(trucks[t], r, R, now)
  BY <1>4, <1>5, ReconcileRouteEffect
<1>8. ReconciledPackage(packages[p], R, now).status = "IN_PROGRESS"
  BY <1>7
<1>9. ReconciledPackage(packages[p], R, now).loc = ReconciledTruck(trucks[t], r, R, now).loc
  BY <1>1, <1>2, <1>3, <1>4, <1>6, <1>8, CargoIsWithTruck
<1> QED BY <1>3, <1>7, <1>9

LEMMA CargoStep ==
  ASSUME Inv, Settled, CargoTravelsWithTruck, [Next]_vars
  PROVE  CargoTravelsWithTruck'
<1> SUFFICES ASSUME NEW r \in RouteIds, Reconciled(r)', routes'[r].truck # None,
                    NEW p \in routes'[r].pkgs, packages'[p].status = "IN_PROGRESS"
             PROVE  packages'[p].loc = trucks'[routes'[r].truck].loc
  BY DEF CargoTravelsWithTruck
<1>1. job'.kind = "heartbeat" /\ r \in LiveRoutes' /\ r \notin job'.todo
  BY DEF Reconciled
<1>2. CASE UNCHANGED <<routes, packages, trucks, job>>
  BY <1>1, <1>2 DEF CargoTravelsWithTruck, Reconciled, LiveRoutes
<1>3. ASSUME NEW s \in RouteIds, ReconcileRoute(s) \/ ReconcileRouteFails(s)
      PROVE  packages'[p].loc = trucks'[routes'[r].truck].loc
  <2>1. /\ job.kind = "heartbeat" /\ job.now \in Nat /\ s \in LiveRoutes
        /\ job' = LoopAfter(s)
    BY <1>3, PresentType DEF ReconcileRoute, ReconcileRouteFails, NextInLoop, Inv, JobOK
  <2>2. job'.todo = job.todo \ {s}
    BY <1>1, <2>1 DEF LoopAfter, Idle, Inv, TypeOK, Job
  <2>3. CASE r # s
    <3>1. routes'[r] = routes[r]
      BY <1>3, <2>3, ReconcileRouteEffect DEF ReconcileRouteFails
    <3>2. r \in LiveRoutes /\ Reconciled(r)
      BY <1>1, <2>1, <2>2, <2>3, <3>1 DEF Reconciled, LiveRoutes
    <3>3. /\ packages'[p] = packages[p]
          /\ trucks'[routes[r].truck] = trucks[routes[r].truck]
      BY <1>3, <2>3, <3>1, <3>2, OtherRouteUntouched
    <3> QED BY <3>1, <3>2, <3>3 DEF CargoTravelsWithTruck
  <2>4. CASE r = s /\ ReconcileRoute(s)
    BY <2>4, ReconciledCargo
  <2>5. CASE r = s /\ ReconcileRouteFails(s)
    <3>1. routes[r].status = "COMPLETED"
      BY <2>1, <2>5, OnlyCompletedFails DEF ReconcileRouteFails
    <3>2. routes' = routes /\ packages' = packages
      BY <2>5 DEF ReconcileRouteFails
    <3>3. p \in LivePackages /\ packages[p].route = r /\ r # None
      BY <2>1, <2>5, <3>2, NoneAssumption DEF Inv, RoutePackageLinks, RouteIds
    <3> QED BY <3>1, <3>2, <3>3 DEF Settled
  <2> QED BY <1>3, <2>3, <2>4, <2>5
<1>4. CASE Heartbeat
  <2>1. job'.todo = LiveRoutes /\ LiveRoutes' = LiveRoutes
    BY <1>1, <1>4 DEF Heartbeat, Idle, LiveRoutes
  <2> QED BY <1>1, <2>1
<1>5. ASSUME NEW x, job.kind = "assign", job' = LoopAfter(x) PROVE FALSE
  BY <1>1, <1>5 DEF LoopAfter, Idle, Inv, TypeOK, Job
<1>6. Next => \/ job.kind = "idle" /\ (job' = job \/ job'.kind = "assign")
              \/ \E x \in PackageIds : job.kind = "assign" /\ job' = LoopAfter(x)
              \/ Heartbeat
              \/ \E s \in RouteIds : ReconcileRoute(s) \/ ReconcileRouteFails(s)
              \/ UNCHANGED <<routes, packages, trucks, job>>
  <2>1. CASE \/ \E path \in Paths, dep \in Departures : CreateRoute(path, dep)
             \/ \E parcel \in Parcels, c \in Customers : CreatePackage(parcel, c)
             \/ \E s \in RouteIds, t \in Trucks : AssignTruckToRoute(s, t)
             \/ \E s \in RouteIds : RemoveRoute(s)
             \/ \E x \in PackageIds : RemovePackage(x)
    BY <2>1 DEF CreateRoute, CreatePackage, AssignTruckToRoute, RemoveRoute, RemovePackage
  <2>2. CASE \E s \in RouteIds, ids \in SUBSET PackageIds \ {{}} : AssignPackagesToRoute(s, ids)
    BY <2>2 DEF AssignPackagesToRoute
  <2>3. CASE \E x \in PackageIds : AssignPackage(x) \/ SkipPackage(x)
    BY <2>3 DEF AssignPackage, SkipPackage
  <2>4. CASE Tick \/ \E by \in 1..MaxClockBack : SetClockBack(by)
    BY <2>4 DEF Tick, SetClockBack
  <2> QED BY <2>1, <2>2, <2>3, <2>4 DEF Next
<1> QED BY <1>1, <1>2, <1>3, <1>4, <1>5, <1>6 DEF vars

\* Once a heartbeat has reconciled a route, what its truck carries is where the
\* truck is, even if the clock was set back: position_at and
\* _last_reached_city agree on every path at every instant.
THEOREM CargoTravels == Spec => []CargoTravelsWithTruck
<1>1. Init => Settled /\ CargoTravelsWithTruck
  BY DEF Init, Idle, Settled, CargoTravelsWithTruck, Reconciled, LiveRoutes, LivePackages
<1>2. Inv /\ Settled /\ CargoTravelsWithTruck /\ [Next]_vars => (Settled /\ CargoTravelsWithTruck)'
  BY SettledStep, CargoStep
<1> QED BY <1>1, <1>2, InvHolds, PTL DEF Spec

=============================================================================
