SPECIFICATION SnapshotSpec
CONSTANTS
    a = a
    b = b
    c = c
    c1 = c1
    c2 = c2
    t1 = t1
    None = None
    NoRoute = NoRoute
    NoPackage = NoPackage
    NoTruck = NoTruck
    Second = 2
    Cities <- MCCities
    Distance <- MCDistance
    Paths <- MCPaths
    Parcels <- MCParcels
    Customers = {c1, c2}
    Trucks = {t1}
    Capacity <- MCCapacity
    MaxRange <- MCMaxRange
    InitialLocation <- MCInitialLocation
    Departures <- MCDepartures
    LongLeg = 1
    MaxWeight = 3
    MaxRoutes = 2
    MaxPackages = 1
    MaxTime = 3
    MaxClockBack = 0
INVARIANTS
    SnapshotTypeOK
    EverySaveLoads
    CountersAhead
    LinksAgree
    TruckNeverOverloaded
    ReloadIsHeartbeat
