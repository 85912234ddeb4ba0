--------------------------- MODULE DispatchBoard ---------------------------
(***************************************************************************)
(* What FleetFlow promises its dispatcher, without schedules, distances,   *)
(* loads or a clock: a board of routes that only move forward, trucks that *)
(* are leased to one route at a time and handed back when it completes,    *)
(* and packages that are booked on one route at a time and delivered when  *)
(* it completes.  FleetWorld implements this board as long as the wall     *)
(* clock is not set back.                                                  *)
(***************************************************************************)
EXTENDS Naturals

CONSTANTS Routes, Packages, Trucks, None

VARIABLES
    stage,      \* where each route is in its life
    parcel,     \* where each package is in its life
    booking,    \* the route each package is on
    lease       \* the route each truck is on

boardVars == <<stage, parcel, booking, lease>>

\* "new": the identifier is not in use yet; "gone": it was removed, and is
\* never used again.
StageRank == [PLANNED |-> 0, SCHEDULED |-> 1, IN_PROGRESS |-> 2, COMPLETED |-> 3]
ParcelRank == [TODO |-> 0, IN_PROGRESS |-> 1, DONE |-> 2]
Stages == DOMAIN StageRank
ParcelStages == DOMAIN ParcelRank

OnBoard(r) == stage[r] \in Stages
Known(p) == parcel[p] \in ParcelStages
BookedOn(r) == {p \in Packages : booking[p] = r}

BoardInit ==
    /\ stage = [r \in Routes |-> "new"]
    /\ parcel = [p \in Packages |-> "new"]
    /\ booking = [p \in Packages |-> None]
    /\ lease = [t \in Trucks |-> None]

OpenRoute(r, s) ==
    /\ stage[r] = "new"
    /\ stage' = [stage EXCEPT ![r] = s]
    /\ UNCHANGED <<parcel, booking, lease>>

Register(p) ==
    /\ parcel[p] = "new"
    /\ parcel' = [parcel EXCEPT ![p] = "TODO"]
    /\ UNCHANGED <<stage, booking, lease>>

\* A package is booked while it waits and is on no route, and never on a route
\* that has completed.
Book(p, r) ==
    /\ parcel[p] = "TODO"
    /\ booking[p] = None
    /\ OnBoard(r) /\ stage[r] # "COMPLETED"
    /\ booking' = [booking EXCEPT ![p] = r]
    /\ UNCHANGED <<stage, parcel, lease>>

\* An idle truck is leased to a route no other truck is on; that schedules a
\* planned route.
Lease(t, r) ==
    /\ lease[t] = None
    /\ OnBoard(r)
    /\ \A u \in Trucks : lease[u] # r
    /\ lease' = [lease EXCEPT ![t] = r]
    /\ stage' = IF stage[r] = "PLANNED" THEN [stage EXCEPT ![r] = "SCHEDULED"] ELSE stage
    /\ UNCHANGED <<parcel, booking>>

\* A route moves forward, and its packages with it.  Reaching the end hands
\* back the truck and delivers every package, in one step.
Advance(r, s) ==
    /\ OnBoard(r)
    /\ stage[r] = "PLANNED" <=> s = "PLANNED"
    /\ StageRank[stage[r]] <= StageRank[s]
    /\ stage' = [stage EXCEPT ![r] = s]
    /\ parcel' \in [Packages -> ParcelStages \cup {"new", "gone"}]
    /\ \A p \in Packages \ BookedOn(r) : parcel'[p] = parcel[p]
    /\ \A p \in BookedOn(r) :
          /\ parcel'[p] \in ParcelStages
          /\ ParcelRank[parcel[p]] <= ParcelRank[parcel'[p]]
          /\ s = "COMPLETED" => parcel'[p] = "DONE"
          /\ s \in {"PLANNED", "SCHEDULED"} => parcel'[p] = "TODO"
    /\ lease' = [t \in Trucks |->
                   IF lease[t] = r /\ s = "COMPLETED" THEN None ELSE lease[t]]
    /\ UNCHANGED booking

\* A removed route leaves nothing behind: its packages wait again and its
\* truck is idle.
Cancel(r) ==
    /\ OnBoard(r)
    /\ stage' = [stage EXCEPT ![r] = "gone"]
    /\ parcel' = [p \in Packages |-> IF p \in BookedOn(r) THEN "TODO" ELSE parcel[p]]
    /\ booking' = [p \in Packages |-> IF p \in BookedOn(r) THEN None ELSE booking[p]]
    /\ lease' = [t \in Trucks |-> IF lease[t] = r THEN None ELSE lease[t]]

Withdraw(p) ==
    /\ Known(p)
    /\ parcel' = [parcel EXCEPT ![p] = "gone"]
    /\ booking' = [booking EXCEPT ![p] = None]
    /\ UNCHANGED <<stage, lease>>

BoardNext ==
    \/ \E r \in Routes, s \in {"PLANNED", "SCHEDULED"} : OpenRoute(r, s)
    \/ \E p \in Packages : Register(p)
    \/ \E p \in Packages, r \in Routes : Book(p, r)
    \/ \E t \in Trucks, r \in Routes : Lease(t, r)
    \/ \E r \in Routes, s \in Stages : Advance(r, s)
    \/ \E r \in Routes : Cancel(r)
    \/ \E p \in Packages : Withdraw(p)

BoardSpec == BoardInit /\ [][BoardNext]_boardVars
=============================================================================
