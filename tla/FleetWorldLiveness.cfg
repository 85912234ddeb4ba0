SPECIFICATION FairSpec
CONSTANTS
    a = a
    b = b
    c = c
    c1 = c1
    c2 = c2
    t1 = t1
    None = None
    NoRoute = NoRoute
    NoPackage = NoPackage
    Cities <- MCCities
    Distance <- MCDistance
    Paths <- MCPaths
    Parcels <- MCParcels
    Customers = {c1}
    Trucks = {t1}
    Capacity <- MCCapacity
    MaxRange <- MCMaxRange
    InitialLocation <- MCInitialLocation
    Departures <- MCDepartures
    LongLeg = 2
    MaxWeight = 2
    MaxRoutes = 2
    MaxPackages = 1
    MaxTime = 5
    MaxClockBack = 0
INVARIANTS
    CargoTravelsWithTruck
    ReconcileNeverFails
    CompletedRouteIsDelivered
PROPERTIES
    PackagesBoardAhead
    LifecycleNeverReverts
    TrucksComeFree
    ScheduledPackagesArrive
    ImplementsBoard
