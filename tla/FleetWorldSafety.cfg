SPECIFICATION Spec
CONSTANTS
    a = a
    b = b
    c = c
    c1 = c1
    c2 = c2
    t1 = t1
    None = None
    NoRoute = NoRoute
    NoPackage = NoPackage
    Cities <- MCCities
    Distance <- MCDistance
    Paths <- MCPaths
    Parcels <- MCParcels
    Customers = {c1}
    Trucks = {t1}
    Capacity <- MCCapacity
    MaxRange <- MCMaxRange
    InitialLocation <- MCInitialLocation
    Departures <- MCDepartures
    LongLeg = 1
    MaxWeight = 2
    MaxRoutes = 2
    MaxPackages = 2
    MaxTime = 3
    MaxClockBack = 1
INVARIANTS
    TypeOK
    RouteTruckLinks
    RoutePackageLinks
    TruckNeverOverloaded
    TruckOnItsPath
    TruckWaitsAtStart
