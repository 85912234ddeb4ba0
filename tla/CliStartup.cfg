SPECIFICATION CliSpec
CONSTANTS
    a = a
    b = b
    c = c
    c1 = c1
    c2 = c2
    t1 = t1
    None = None
    NoRoute = NoRoute
    NoPackage = NoPackage
    NoTruck = NoTruck
    NoFile = NoFile
    NoUser = NoUser
    DiskMayFail = FALSE
    Second = 2
    Cities <- MCCities
    Distance <- MCDistance
    Paths <- MCPaths
    Parcels <- MCCliParcels
    Customers = {c1}
    Trucks = {t1}
    Capacity <- MCCapacity
    MaxRange <- MCMaxRange
    InitialLocation <- MCInitialLocation
    Departures <- MCDepartures
    LongLeg = 1
    MaxWeight = 1
    MaxRoutes = 1
    MaxPackages = 1
    MaxTime = 3
    MaxClockBack = 0
INVARIANT
    StartupRecovers
