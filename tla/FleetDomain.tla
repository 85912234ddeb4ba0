---------------------------- MODULE FleetDomain ----------------------------
(***************************************************************************)
(* The pure rules of FleetFlow's domain layer: route paths, schedules, the *)
(* position of a route at an instant, the load of its segments and the two *)
(* assignment policies.  Nothing here has state; FleetWorld and            *)
(* WorldSnapshot build their actions from these operators.                 *)
(*                                                                         *)
(* Times are naturals.  The unit of time is the time a truck needs for one *)
(* unit of distance at RouteScheduler.DEFAULT_SPEED_KMPH, so the duration  *)
(* of a segment (distance_km / speed_kmph) is its distance.                *)
(***************************************************************************)
EXTENDS Integers, Sequences, FiniteSets

CONSTANTS
    Cities,      \* the hubs of Map
    Distance,    \* Distance[a][b]: the kilometres between two hubs
    MaxWeight,   \* bound: the heaviest package that is ever created
    None         \* Python's None

ASSUME DistanceAssumption ==
    /\ Distance \in [Cities -> [Cities -> Nat]]
    /\ \A a, b \in Cities : a # b => Distance[a][b] > 0

ASSUME MaxWeightAssumption == MaxWeight \in Nat \ {0}

ASSUME NoneAssumption == None \notin Nat /\ None \notin Cities

Times == Nat

-----------------------------------------------------------------------------
(* Paths and schedules                                                     *)

\* RoutePath.__post_init__: at least two valid locations, none twice.
IsRoutePath(path) ==
    /\ path \in Seq(Cities)
    /\ Len(path) >= 2
    /\ \A i, j \in 1..Len(path) : path[i] = path[j] => i = j

Start(path) == path[1]
End(path) == path[Len(path)]

OnPath(path, city) == \E i \in 1..Len(path) : path[i] = city

PathIndex(path, city) == CHOOSE i \in 1..Len(path) : path[i] = city

IncludesInOrder(path, from, to) ==
    /\ OnPath(path, from)
    /\ OnPath(path, to)
    /\ PathIndex(path, from) < PathIndex(path, to)

\* RouteSegment: the leg that ends at stop i.  Its duration is its distance.
Leg(path, i) == Distance[path[i - 1]][path[i]]

\* RouteScheduler.build: the stops' arrival times, as offsets from departure.
StopOffsets(path) ==
    LET offset[i \in 1..Len(path)] ==
            IF i = 1 THEN 0 ELSE offset[i - 1] + Leg(path, i)
    IN  offset

TotalDistance(path) == StopOffsets(path)[Len(path)]

ArrivalTimeAt(path, dep, city) == dep + StopOffsets(path)[PathIndex(path, city)]

\* DeliveryRoute.eta_final: None while the route has no schedule.
EtaFinal(path, dep) ==
    IF dep = None THEN None ELSE dep + TotalDistance(path)

-----------------------------------------------------------------------------
(* The position of a route at an instant                                   *)

StopTime(path, dep, i) == dep + StopOffsets(path)[i]

\* _position_on_segment: the stops whose arrival is now, the first excepted,
\* and the legs under way.
StopsReachedAt(path, dep, now) ==
    {i \in 2..Len(path) : now = StopTime(path, dep, i)}

LegsUnderWayAt(path, dep, now) ==
    {i \in 1..(Len(path) - 1) : StopTime(path, dep, i) <= now /\ now < StopTime(path, dep, i + 1)}

Standing(kind, city) == [kind |-> kind, stop |-> city, from |-> None, to |-> None]
Driving(from, to) == [kind |-> "IN_TRANSIT", stop |-> None, from |-> from, to |-> to]

\* RouteSchedule.position_at.  The departure instant is already IN_TRANSIT,
\* the instant of arrival at a later stop is AT_STOP, and only an instant
\* after the final arrival is AFTER_END (some leg contains every other one, so
\* the AT_STOP fallback of _position_after_segments is never taken).
PositionAt(path, dep, now) ==
    LET stops == StopsReachedAt(path, dep, now)
        legs == LegsUnderWayAt(path, dep, now)
        leg == CHOOSE i \in legs : TRUE
    IN  IF dep = None THEN Standing("UNSCHEDULED", Start(path))
        ELSE IF now < dep THEN Standing("BEFORE_START", Start(path))
        ELSE IF stops # {} THEN Standing("AT_STOP", path[CHOOSE i \in stops : TRUE])
        ELSE IF legs # {} THEN Driving(path[leg], path[leg + 1])
        ELSE Standing("AFTER_END", End(path))

-----------------------------------------------------------------------------
(* Segment loads                                                           *)

\* A parcel rides on segment i (between stops i and i + 1) of a path that
\* visits its pickup and its destination in order.
RidesOn(path, parcel, i) ==
    /\ IncludesInOrder(path, parcel.start, parcel.end)
    /\ PathIndex(path, parcel.start) <= i
    /\ i < PathIndex(path, parcel.end)

\* The kilograms on segment i: one pair <<id, k>> for each kilogram k of each
\* parcel that rides on it, so the cardinality is the sum of the weights.
LoadUnits(path, parcels, ids, i) ==
    {u \in ids \X (1..MaxWeight) :
        RidesOn(path, parcels[u[1]], i) /\ u[2] <= parcels[u[1]].weight}

SegmentLoad(path, parcels, ids, i) == Cardinality(LoadUnits(path, parcels, ids, i))

\* RouteLoadCalculator.maximum_segment_load(...) <= capacity.
MaximumSegmentLoadWithin(path, parcels, ids, capacity) ==
    \A i \in 1..(Len(path) - 1) : SegmentLoad(path, parcels, ids, i) <= capacity

-----------------------------------------------------------------------------
(* Assignment policies                                                     *)

\* Faulty variant: a city the truck has just left still counts as ahead.
PickupNotPassedOnDeparture(path, dep, pickup, now) ==
    LET position == PositionAt(path, dep, now)
        index == PathIndex(path, pickup)
    IN  CASE position.kind \in {"UNSCHEDULED", "BEFORE_START"} -> TRUE
          [] position.kind = "AT_STOP" -> PathIndex(path, position.stop) <= index
          [] position.kind = "IN_TRANSIT" -> PathIndex(path, position.from) <= index
          [] position.kind = "AFTER_END" -> FALSE

\* PackageAssignmentPolicy._evaluate_pickup_not_passed
PickupNotPassed(path, dep, pickup, now) ==
    LET position == PositionAt(path, dep, now)
        index == PathIndex(path, pickup)
    IN  CASE position.kind \in {"UNSCHEDULED", "BEFORE_START"} -> TRUE
          [] position.kind = "AT_STOP" -> PathIndex(path, position.stop) <= index
          [] position.kind = "IN_TRANSIT" -> PathIndex(path, position.from) < index
          [] position.kind = "AFTER_END" -> FALSE

\* WorldStateReconciliationService._compute_route_status
ComputeRouteStatus(path, dep, now) ==
    CASE dep = None -> "PLANNED"
      [] dep # None /\ now < dep -> "SCHEDULED"
      [] dep # None /\ now >= EtaFinal(path, dep) -> "COMPLETED"
      [] OTHER -> "IN_PROGRESS"

\* Faulty variant: a city is reached only after its arrival time.
LastReachedCityStrict(path, dep, from, to, now) ==
    LET reached == {i \in PathIndex(path, from)..PathIndex(path, to) :
                       \A j \in PathIndex(path, from)..i : StopTime(path, dep, j) < now}
    IN  IF reached = {} THEN from
        ELSE path[CHOOSE i \in reached : \A j \in reached : j <= i]

\* _last_reached_city: walk from the pickup towards the destination and stop
\* before the first city whose arrival time lies in the future.
LastReachedCity(path, dep, from, to, now) ==
    LET reached == {i \in PathIndex(path, from)..PathIndex(path, to) :
                       \A j \in PathIndex(path, from)..i : StopTime(path, dep, j) <= now}
    IN  IF reached = {} THEN from
        ELSE path[CHOOSE i \in reached : \A j \in reached : j <= i]
=============================================================================
