SPECIFICATION Spec
CONSTANTS
    a = a
    b = b
    c = c
    c1 = c1
    c2 = c2
    t1 = t1
    None = None
    NoRoute = NoRoute
    NoPackage = NoPackage
    Cities <- MCCities
    Distance <- MCDistance
    Paths <- MCPaths
    Parcels <- MCParcels
    Customers = {c1}
    Trucks = {t1}
    Capacity <- MCCapacity
    MaxRange <- MCMaxRange
    InitialLocation <- MCInitialLocation
    Departures = {1, 5}
    LongLeg = 2
    MaxWeight = 2
    MaxRoutes = 2
    MaxPackages = 0
    MaxTime = 7
    MaxClockBack = 0
INVARIANT
    SuitableTrucksAreAssignable
