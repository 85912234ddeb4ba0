---------------------------- MODULE MCFleetWorld ----------------------------
(***************************************************************************)
(* A small FleetWorld: three hubs, a two-leg and a one-leg path, a parcel  *)
(* for each leg and one for the whole way, one truck.                      *)
(***************************************************************************)
EXTENDS FleetWorld

CONSTANTS
    a, b, c, c1, c2, t1,
    LongLeg     \* the distance of the longer legs

MCCities == {a, b, c}

\* a - b is one unit of distance; with LongLeg = 2 there is an instant strictly
\* inside each other leg.
MCDistance ==
    [x \in MCCities |-> [y \in MCCities |->
        CASE x = y -> 0
          [] {x, y} = {a, b} -> 1
          [] OTHER -> LongLeg]]

MCPaths == {<<a, b, c>>, <<c, a>>}

MCParcels ==
    {[start |-> a, end |-> c, weight |-> 1],
     [start |-> b, end |-> c, weight |-> 2]}

MCCapacity == [t \in Trucks |-> 2]
MCMaxRange == [t \in Trucks |-> 1 + LongLeg]
MCInitialLocation == [t \in Trucks |-> a]
MCDepartures == {None, 1}
=============================================================================
